------------------------- MODULE CalendarSyncProofs -------------------------
(***************************************************************************)
(* Synchronizations that overtake one another, for any members, colleagues   *)
(* and synchronizations at work at once, and any bounds on the clock and on  *)
(* connections: no request is lost, and nothing outlives its connection.     *)
(***************************************************************************)
EXTENDS CalendarSync, TLAPS

-----------------------------------------------------------------------------
(* The inductive invariant *)

Busy(r) == run[r].step \in {"list", "apply"}

\* What may still be applied is busy, in a total order that the starts follow.
OrderOK ==
    /\ \A p \in Applicable : Busy(p)
    /\ \A p, q \in Runs : <<p, q>> \in begun =>
          p \in Applicable /\ q \in Applicable /\ run[p].started <= run[q].started
    /\ \A p, q \in Applicable : <<p, q>> \in begun \/ <<q, p>> \in begun

\* A run works with a connection of the past or with the present one, and lists
\* after it started; only a list of the interviews' calendar holds the meeting.
RunOK(r) ==
    LET c == integration[run[r].member]
    IN Busy(r) =>
        /\ run[r].generation <= c.generation
        /\ run[r].generation = c.generation => run[r].calendar = c.calendar
        /\ run[r].started <= now
        /\ run[r].step = "apply" =>
              /\ run[r].started <= run[r].listed
              /\ run[r].copy.state = "eligible" => run[r].calendar = "first"

HasLock(r, i) == job[i] # NoJob /\ job[i].lock = r

\* A lock is in the hands of a run of this member, which works with the job's
\* connection or with a later one.
JobOK(i) ==
    /\ job[i] # NoJob => job[i].generation <= integration[i].generation /\ job[i].requested <= now
    /\ \A r \in Runs : HasLock(r, i) =>
          /\ run[r] # Resting /\ run[r].queued /\ run[r].member = i
          /\ Busy(r) => job[i].generation <= run[r].generation

\* The connection that the job is for has been given up.
Ended(i) == integration[i].status # "ACTIVE" \/ integration[i].generation # job[i].generation

\* The request has been served, and nobody who might still be applied can take
\* that back.
Served(i) ==
    /\ job[i].requested <= integration[i].token
    /\ \A p \in Applicable : run[p].member = i => job[i].requested <= run[p].started

\* As long as nobody asks again, the run that holds the lock started after the
\* request; and once it has been overtaken or is through, the request is served.
ServiceOK(i) ==
    \A r \in Runs : HasLock(r, i) /\ ~job[i].again =>
        /\ Busy(r) => job[i].requested <= run[r].started
        /\ (Busy(r) /\ r \notin Applicable) \/ run[r].step = "complete" => Ended(i) \/ Served(i)

CalendarInv ==
    /\ CalendarTypeOK /\ OrderOK
    /\ \A r \in Runs : RunOK(r)
    /\ \A i \in Interviewers : JobOK(i) /\ ServiceOK(i)
    /\ SourcesAreConnected

-----------------------------------------------------------------------------
(* Types *)

LEMMA RowTypes ==
  ASSUME CalendarTypeOK
  PROVE  /\ \A i \in Interviewers : /\ integration[i] \in Integrations
                               /\ job[i] \in SyncJobs \union {NoJob}
                               /\ job[i] # NoJob => job[i] \in SyncJobs
         /\ \A r \in Runs : /\ run[r] \in Claims \union Begun \union {Resting}
                            /\ Busy(r) => run[r] \in Begun
                            /\ run[r].step \in {"claimed", "complete", "fail"} => run[r] \in Claims
                            /\ run[r] # Resting => run[r].member \in Interviewers /\ run[r].queued \in BOOLEAN
                            /\ run[r].step # "idle" => run[r] # Resting
  <1>1. \A h \in Claims : h.step \in {"claimed", "complete", "fail"} /\ h.member \in Interviewers /\ h.queued \in BOOLEAN
    BY DEF Claims
  <1>2. \A h \in Begun : h.step \in {"list", "apply"} /\ h.member \in Interviewers /\ h.queued \in BOOLEAN
    BY DEF Begun
  <1>3. Resting.step = "idle"
    BY DEF Resting
  <1>4. /\ \A i \in Interviewers : integration[i] \in Integrations /\ job[i] \in SyncJobs \union {NoJob}
        /\ \A r \in Runs : run[r] \in Claims \union Begun \union {Resting}
    BY DEF CalendarTypeOK
  <1> QED BY <1>1, <1>2, <1>3, <1>4 DEF Busy

\* Nobody holds a job's lock but a run, and a free lock is no run's.
LEMMA FreeLock ==
  ASSUME NEW j \in SyncJobs
  PROVE  /\ j # NoJob /\ j.lock \in Runs \union {"free"}
         /\ "free" \notin Runs
  BY RunsAssumption DEF SyncJobs, NoJob

LEMMA TimesAreNat == \A t \in Times : t \in Nat
  BY CalendarBoundsAssumption DEF Times

LEMMA BegunTypes ==
  ASSUME CalendarTypeOK, NEW r \in Runs, Busy(r)
  PROVE  /\ run[r] \in Begun /\ run[r].member \in Interviewers /\ run[r].generation \in Nat
         /\ run[r].started \in Times /\ run[r].listed \in Times /\ run[r].token \in Times
         /\ run[r].copy \in Copies /\ run[r].calendar \in {"first", "second"}
         /\ run[r].queued \in BOOLEAN
         /\ run[r].started \in Nat /\ run[r].listed \in Nat
  <1>1. run[r] \in Begun
    BY RowTypes
  <1> QED BY <1>1, TimesAreNat DEF Begun

LEMMA JobTypes ==
  ASSUME CalendarTypeOK, NEW i \in Interviewers
  PROVE  /\ integration[i] \in Integrations /\ integration[i].generation \in Nat
         /\ integration[i].token \in Times /\ integration[i].token \in Nat
         /\ integration[i].calendar \in {"first", "second"}
         /\ job[i] # NoJob => /\ job[i] \in SyncJobs /\ job[i].generation \in Nat
                              /\ job[i].requested \in Times /\ job[i].requested \in Nat
                              /\ job[i].again \in BOOLEAN /\ job[i].lock \in Runs \union {"free"}
         /\ now \in Times /\ now \in Nat
  <1>1. integration[i] \in Integrations /\ (job[i] # NoJob => job[i] \in SyncJobs)
    BY DEF CalendarTypeOK
  <1>2. now \in Times
    BY DEF CalendarTypeOK
  <1> QED BY <1>1, <1>2, TimesAreNat DEF Integrations, SyncJobs

-----------------------------------------------------------------------------
(* The requests *)

\* A job is left to a free lock, or asked again of the run that has it.
LEMMA JobReplaced ==
  ASSUME CalendarInv, NEW i \in Interviewers, NEW j \in SyncJobs \union {NoJob},
         job' = [job EXCEPT ![i] = j],
         \/ j = NoJob
         \/ /\ j.generation <= integration[i].generation /\ j.requested <= now
            /\ \/ j.lock = "free"
               \/ job[i] # NoJob /\ j.lock = job[i].lock /\ j.generation = job[i].generation
                  /\ j.again,
         UNCHANGED <<now, google, integration, run, begun, interview, sources>>,
         flow' \subseteq Interviewers
  PROVE  CalendarInv'
  <1>1. job' \in [Interviewers -> SyncJobs \union {NoJob}] /\ \A k \in Interviewers : job'[k] = IF k = i THEN j ELSE job[k]
    BY DEF CalendarInv, CalendarTypeOK
  <1>2. CalendarTypeOK'
    BY <1>1 DEF CalendarInv, CalendarTypeOK
  <1>3. OrderOK' /\ \A r \in Runs : RunOK(r)'
    BY DEF CalendarInv, OrderOK, RunOK, Applicable, Busy
  <1>4. SourcesAreConnected'
    BY DEF CalendarInv, SourcesAreConnected, Connected
  <1>5. ASSUME NEW k \in Interviewers PROVE JobOK(k)' /\ ServiceOK(k)'
    <2>1. CASE k # i
      <3>1. JobOK(k) /\ ServiceOK(k) /\ job'[k] = job[k]
        BY <1>1, <2>1 DEF CalendarInv
      <3> QED BY <3>1 DEF JobOK, ServiceOK, HasLock, Busy, Ended, Served, Applicable
    <2>2. CASE k = i /\ j = NoJob
      BY <1>1, <2>2 DEF JobOK, ServiceOK, HasLock
    <2>3. CASE k = i /\ j # NoJob /\ j.lock = "free"
      BY <1>1, <2>3, RunsAssumption DEF JobOK, ServiceOK, HasLock
    <2>4. CASE /\ k = i /\ j # NoJob /\ job[i] # NoJob /\ j.lock = job[i].lock
               /\ j.generation = job[i].generation /\ j.again
      <3>1. JobOK(i) /\ job'[i] = j
        BY <1>1 DEF CalendarInv
      <3>2. JobOK(i)'
        BY <2>4, <3>1 DEF JobOK, HasLock, Busy
      <3>3. ServiceOK(i)'
        BY <2>4, <3>1 DEF ServiceOK
      <3> QED BY <2>4, <3>2, <3>3
    <2> QED BY <2>1, <2>2, <2>3, <2>4
  <1> QED BY <1>2, <1>3, <1>4, <1>5 DEF CalendarInv

LEMMA AskedJob ==
  ASSUME CalendarInv, NEW i \in Interviewers, NEW g \in Nat
  PROVE  /\ Asked(i, g) \in SyncJobs /\ Asked(i, g).requested = now
         /\ job[i] = NoJob => /\ Asked(i, g).generation = g /\ Asked(i, g).lock = "free"
                              /\ ~Asked(i, g).again
         /\ job[i] # NoJob => /\ Asked(i, g).generation = job[i].generation
                              /\ Asked(i, g).lock = job[i].lock
                              /\ Asked(i, g).again <=> job[i].lock \in Runs
  <1>1. now \in Times /\ (job[i] # NoJob => job[i] \in SyncJobs)
    BY JobTypes DEF CalendarInv
  <1>2. CASE job[i] = NoJob
    BY <1>1, <1>2 DEF Asked, SyncJobs
  <1>3. CASE job[i] # NoJob
    <2> DEFINE seen == [job[i] EXCEPT !.requested = now]
    <2>1. /\ seen \in SyncJobs /\ seen.requested = now /\ seen.generation = job[i].generation
          /\ seen.lock = job[i].lock
      BY <1>1, <1>3 DEF SyncJobs
    <2>2. CASE job[i].lock \in Runs
      <3>1. Asked(i, g) = [seen EXCEPT !.again = TRUE]
        BY <1>1, <1>3, <2>2 DEF Asked, SyncJobs
      <3> HIDE DEF seen
      <3> QED BY <1>3, <2>1, <2>2, <3>1 DEF SyncJobs
    <2>3. CASE job[i].lock \notin Runs
      <3>0. (job[i].lock \in Runs) = FALSE
        BY <2>3
      <3>2. Asked(i, g) = [job[i] EXCEPT !.requested = now, !.again = FALSE]
        BY <1>3, <3>0, Zenon DEF Asked
      <3>1. Asked(i, g) = [seen EXCEPT !.again = FALSE]
        BY <1>1, <1>3, <3>2 DEF SyncJobs
      <3> HIDE DEF seen
      <3> QED BY <1>3, <2>1, <2>3, <3>1 DEF SyncJobs
    <2> QED BY <2>2, <2>3
  <1> QED BY <1>2, <1>3

LEMMA RequestsInv ==
  ASSUME CalendarInv, NEW i \in Interviewers, EnqueueChannel(i) \/ EnqueueStale(i) \/ Finish(i)
  PROVE  CalendarInv'
  <1> DEFINE g == integration[i].generation
  <1>0. /\ g \in Nat /\ now \in Nat /\ JobOK(i) /\ job \in [Interviewers -> SyncJobs \union {NoJob}]
        /\ flow \subseteq Interviewers /\ (job[i] # NoJob => job[i] \in SyncJobs)
    BY JobTypes DEF CalendarInv, CalendarTypeOK
  <1>1. CASE EnqueueChannel(i) \/ EnqueueStale(i)
    <2>1. job' = [job EXCEPT ![i] = Asked(i, g)]
          /\ UNCHANGED <<now, google, integration, run, begun, flow, interview, sources>>
      BY <1>1 DEF EnqueueChannel, EnqueueStale
    <2>2. \/ Asked(i, g).lock = "free"
          \/ job[i] # NoJob /\ Asked(i, g).lock = job[i].lock
             /\ Asked(i, g).generation = job[i].generation /\ Asked(i, g).again
      <3>1. job[i] # NoJob => job[i].lock \in Runs \union {"free"}
        BY <1>0, FreeLock
      <3> HIDE DEF g
      <3> QED BY <1>0, <3>1, AskedJob
    <2>3. /\ Asked(i, g).generation <= g /\ Asked(i, g).requested <= now
          /\ Asked(i, g) \in SyncJobs
      <3>1. g <= g /\ now <= now /\ (job[i] # NoJob => job[i].generation <= g)
        BY <1>0 DEF JobOK
      <3> HIDE DEF g
      <3> QED BY <1>0, <3>1, AskedJob
    <2> QED BY <1>0, <2>1, <2>2, <2>3, JobReplaced
  <1>2. CASE Finish(i) /\ UNCHANGED job
    <2>1. job' = [job EXCEPT ![i] = job[i]]
      BY <1>0, <1>2
    <2>2. CalendarTypeOK'
      BY <1>0, <1>2 DEF Finish, CalendarInv, CalendarTypeOK
    <2>3. OrderOK' /\ (\A r \in Runs : RunOK(r)') /\ SourcesAreConnected'
      BY <1>2 DEF Finish, CalendarInv, OrderOK, RunOK, Applicable, Busy, SourcesAreConnected, Connected
    <2>4. \A k \in Interviewers : JobOK(k)' /\ ServiceOK(k)'
      BY <1>2, ZenonT(30) DEF Finish, CalendarInv, JobOK, ServiceOK, HasLock, Busy, Ended, Served, Applicable
    <2> QED BY <2>2, <2>3, <2>4 DEF CalendarInv
  <1>3. CASE Finish(i) /\ EnqueueById(i) /\ job' # job
    <2> DEFINE same == job[i] # NoJob /\ job[i].generation = g
               asked == Asked(i, g)
               mine == [asked EXCEPT !.generation = g]
               freed == [mine EXCEPT !.lock = IF same THEN asked.lock ELSE "free"]
               j == [freed EXCEPT !.again = asked.again /\ job[i].generation = g]
    <2>1. /\ asked \in SyncJobs /\ asked.requested = now
          /\ job[i] # NoJob => asked.lock = job[i].lock /\ (asked.again <=> job[i].lock \in Runs)
          /\ job[i] = NoJob => ~asked.again
      BY <1>0, AskedJob
    <2>2. job' = [job EXCEPT ![i] = j]
      BY <1>3, <2>1 DEF EnqueueById, SyncJobs
    <2> HIDE DEF asked
    <2>3. mine \in SyncJobs /\ mine.requested = now /\ mine.generation = g
      BY <1>0, <2>1 DEF SyncJobs
    <2> HIDE DEF mine
    <2>4. /\ freed \in SyncJobs /\ freed.requested = now /\ freed.generation = g
          /\ freed.lock = IF same THEN asked.lock ELSE "free"
      BY <2>1, <2>3 DEF SyncJobs
    <2> HIDE DEF freed
    <2>5. /\ j \in SyncJobs /\ j.requested = now /\ j.generation = g
          /\ j.lock = IF same THEN asked.lock ELSE "free"
      BY <2>4 DEF SyncJobs
    <2>6. same => (j.again <=> job[i].lock \in Runs)
      <3>1. j.again <=> asked.again /\ job[i].generation = g
        BY <2>4 DEF SyncJobs
      <3> HIDE DEF j
      <3> QED BY <2>1, <3>1
    <2> HIDE DEF j
    <2>7. \/ j.lock = "free"
          \/ job[i] # NoJob /\ j.lock = job[i].lock /\ j.generation = job[i].generation /\ j.again
      <3>1. CASE same
        BY <1>0, <2>1, <2>5, <2>6, <3>1, FreeLock
      <3>2. CASE ~same
        BY <2>5, <3>2
      <3> QED BY <3>1, <3>2
    <2>8. /\ UNCHANGED <<now, google, integration, run, begun, interview, sources>>
          /\ flow' \subseteq Interviewers
      BY <1>0, <1>3 DEF Finish
    <2>9. j.generation <= integration[i].generation /\ j.requested <= now
      BY <1>0, <2>5
    <2> QED BY <2>2, <2>5, <2>7, <2>8, <2>9, JobReplaced
  <1> QED BY <1>1, <1>2, <1>3 DEF Finish

\* Time passes at Google.
LEMMA ChangesInv ==
  ASSUME CalendarInv, NEW copies \in SUBSET Interviewers, CalendarChanges(copies)
  PROVE  CalendarInv'
  <1>0. now \in Times /\ now \in Nat /\ google \in [Interviewers -> Copies]
    BY TimesAreNat DEF CalendarInv, CalendarTypeOK
  <1>1. now' \in Times /\ now' \in Nat /\ now <= now'
        /\ UNCHANGED <<integration, job, run, begun, flow, interview, sources>>
    BY <1>0, CalendarBoundsAssumption DEF CalendarChanges, Times
  <1>2. google' \in [Interviewers -> Copies]
    <2> PICK s \in {"eligible", "cancelled"} :
            google' = [i \in Interviewers |-> IF i \in copies THEN [state |-> s, at |-> now'] ELSE google[i]]
      BY DEF CalendarChanges
    <2>1. [state |-> s, at |-> now'] \in Copies
      BY <1>1 DEF Copies
    <2> QED BY <1>0, <2>1
  <1>3. CalendarTypeOK'
    BY <1>1, <1>2 DEF CalendarInv, CalendarTypeOK
  <1>4. OrderOK'
    BY <1>1 DEF CalendarInv, OrderOK, Applicable, Busy
  <1>5. ASSUME NEW r \in Runs PROVE RunOK(r)'
    <2>1. RunOK(r) /\ (Busy(r) => run[r].started \in Nat)
      BY BegunTypes DEF CalendarInv
    <2> QED BY <1>0, <1>1, <2>1 DEF RunOK, Busy
  <1>6. ASSUME NEW i \in Interviewers PROVE JobOK(i)' /\ ServiceOK(i)'
    <2>1. JobOK(i) /\ ServiceOK(i) /\ (job[i] # NoJob => job[i].requested \in Nat)
      BY JobTypes DEF CalendarInv
    <2>2. JobOK(i)'
      BY <1>0, <1>1, <2>1 DEF JobOK, HasLock, Busy
    <2>3. ServiceOK(i)'
      BY <1>1, <2>1 DEF ServiceOK, HasLock, Busy, Ended, Served, Applicable
    <2> QED BY <2>2, <2>3
  <1>7. SourcesAreConnected'
    BY <1>1 DEF CalendarInv, SourcesAreConnected, Connected
  <1> QED BY <1>3, <1>4, <1>5, <1>6, <1>7 DEF CalendarInv

-----------------------------------------------------------------------------
(* The connections *)

\* What a run is, or what is left of it once it can no longer be applied.
Steady(p) ==
    \/ run'[p] = run[p]
    \/ /\ ~Busy(p)' /\ run'[p].step # "complete"
       /\ run[p] # Resting /\ run[p].queued =>
             run'[p] # Resting /\ run'[p].queued /\ run'[p].member = run[p].member

\* A connection is made, given up or lost: nobody serves its requests any more.
LEMMA ConnectionReplaced ==
  ASSUME CalendarInv, NEW i \in Interviewers, NEW c \in Integrations,
         integration' = [integration EXCEPT ![i] = c],
         \/ c.generation = integration[i].generation + 1
         \/ /\ c.generation = integration[i].generation /\ c.calendar = integration[i].calendar
            /\ c.status # "ACTIVE",
         UNCHANGED job \/ job' = [job EXCEPT ![i] = NoJob],
         sources' \subseteq sources, i \in sources' => c.status = "ACTIVE" /\ c.calendar = "first",
         interview' \in InterviewRows,
         UNCHANGED <<now, google>>, flow' \subseteq Interviewers,
         run' \in [Runs -> Claims \union Begun \union {Resting}], begun' \subseteq Runs \X Runs,
         OrderOK', Applicable' \subseteq Applicable,
         \A p \in Runs : Steady(p) /\ (p \in Applicable => p \in Applicable' \/ ~Busy(p)')
  PROVE  CalendarInv'
  <1>0. /\ integration \in [Interviewers -> Integrations] /\ job \in [Interviewers -> SyncJobs \union {NoJob}]
        /\ integration[i].generation \in Nat
    BY JobTypes DEF CalendarInv, CalendarTypeOK
  <1>1. /\ integration' \in [Interviewers -> Integrations]
        /\ \A k \in Interviewers : integration'[k] = IF k = i THEN c ELSE integration[k]
    BY <1>0
  <1>2. /\ job' \in [Interviewers -> SyncJobs \union {NoJob}]
        /\ \A k \in Interviewers : job'[k] = job[k] \/ job'[k] = NoJob
        /\ \A k \in Interviewers : k # i => job'[k] = job[k]
    BY <1>0
  <1>3. CalendarTypeOK'
    BY <1>1, <1>2 DEF CalendarInv, CalendarTypeOK
  <1>4. ASSUME NEW r \in Runs PROVE RunOK(r)'
    <2>1. CASE ~Busy(r)'
      BY <2>1 DEF RunOK
    <2>2. CASE Busy(r)'
      <3>1. run'[r] = run[r] /\ Busy(r) /\ RunOK(r)
        BY <2>2 DEF Steady, Busy, CalendarInv
      <3>2. run[r].member \in Interviewers /\ run[r].generation \in Nat
        BY <3>1, BegunTypes DEF CalendarInv
      <3>3. CASE run[r].member # i
        BY <1>1, <3>1, <3>2, <3>3 DEF RunOK
      <3>4. CASE run[r].member = i
        BY <1>0, <1>1, <3>1, <3>2, <3>4 DEF RunOK
      <3> QED BY <3>3, <3>4
    <2> QED BY <2>1, <2>2
  <1>5. ASSUME NEW k \in Interviewers PROVE JobOK(k)'
    <2>0. JobOK(k) /\ integration[k].generation \in Nat
          /\ (job[k] # NoJob => job[k].generation \in Nat)
      BY JobTypes DEF CalendarInv
    <2>1. CASE job'[k] = NoJob
      BY <2>1 DEF JobOK, HasLock
    <2>2. CASE job'[k] # NoJob
      <3>1. job'[k] = job[k] /\ job[k] # NoJob
        BY <1>2, <2>2
      <3>2. job[k].generation <= integration'[k].generation
        BY <1>1, <2>0, <3>1 DEF JobOK
      <3>3. ASSUME NEW r \in Runs, HasLock(r, k)
            PROVE  /\ run'[r] # Resting /\ run'[r].queued /\ run'[r].member = k
                   /\ Busy(r)' => job[k].generation <= run'[r].generation
        <4>1. Steady(r) /\ run[r] # Resting /\ run[r].queued /\ run[r].member = k
              /\ (Busy(r) => job[k].generation <= run[r].generation)
          BY <2>0, <3>3 DEF JobOK
        <4> QED BY <4>1 DEF Steady, Busy
      <3> QED BY <2>0, <3>1, <3>2, <3>3 DEF JobOK, HasLock
    <2> QED BY <2>1, <2>2
  <1>6. ASSUME NEW k \in Interviewers PROVE ServiceOK(k)'
    <2>0. ServiceOK(k) /\ JobOK(k) /\ integration[k].generation \in Nat
          /\ (job[k] # NoJob => job[k].generation \in Nat)
      BY JobTypes DEF CalendarInv
    <2> SUFFICES ASSUME NEW r \in Runs, HasLock(r, k)', ~job'[k].again
                 PROVE  /\ Busy(r)' => job'[k].requested <= run'[r].started
                        /\ (Busy(r)' /\ r \notin Applicable') \/ run'[r].step = "complete"
                               => Ended(k)' \/ Served(k)'
      BY DEF ServiceOK
    <2>1. job'[k] = job[k] /\ job[k] # NoJob /\ HasLock(r, k) /\ Steady(r)
      BY <1>2 DEF HasLock
    <2>2. Busy(r)' => run'[r] = run[r] /\ Busy(r) /\ job[k].requested <= run[r].started
      BY <2>0, <2>1 DEF Steady, ServiceOK, Busy
    <2>3. ASSUME (Busy(r)' /\ r \notin Applicable') \/ run'[r].step = "complete" PROVE Ended(k)' \/ Served(k)'
      <3>1. run'[r] = run[r] /\ ((Busy(r) /\ r \notin Applicable) \/ run[r].step = "complete")
        BY <2>1, <2>2, <2>3 DEF Steady
      <3>2. Ended(k) \/ Served(k)
        BY <2>0, <2>1, <3>1 DEF ServiceOK
      <3>3. CASE k = i
        <4>1. job[i].generation <= integration[i].generation
          BY <2>0, <2>1, <3>3 DEF JobOK, HasLock
        <4>2. integration'[i] = c
          BY <1>1
        <4>3. Ended(i)'
          BY <1>0, <2>0, <2>1, <3>3, <4>1, <4>2, <3>2 DEF Ended
        <4> QED BY <3>3, <4>3
      <3>4. CASE k # i
        <4>1. integration'[k] = integration[k]
          BY <1>1, <3>4
        <4>2. \A p \in Applicable' : p \in Applicable /\ run'[p] = run[p]
          BY DEF OrderOK, Steady, Applicable
        <4> QED BY <2>1, <3>2, <4>1, <4>2 DEF Ended, Served
      <3> QED BY <3>3, <3>4
    <2> QED BY <2>1, <2>2, <2>3
  <1>7. SourcesAreConnected'
    BY <1>1 DEF CalendarInv, SourcesAreConnected, Connected
  <1> QED BY <1>3, <1>4, <1>5, <1>6, <1>7 DEF CalendarInv

LEMMA NobodyMoves ==
  ASSUME CalendarInv, UNCHANGED <<run, begun>>
  PROVE  /\ run' \in [Runs -> Claims \union Begun \union {Resting}] /\ begun' \subseteq Runs \X Runs
         /\ OrderOK' /\ Applicable' = Applicable
         /\ \A p \in Runs : Steady(p) /\ (p \in Applicable => p \in Applicable' \/ ~Busy(p)')
  BY DEF CalendarInv, CalendarTypeOK, OrderOK, Applicable, Busy, Steady

\* The interview stays, or is withdrawn with the last of its sources.
LEMMA DroppedSource ==
  ASSUME CalendarInv, NEW i \in Interviewers, DropSource(i)
  PROVE  /\ sources' = sources \ {i}
         /\ interview' \in InterviewRows
  <1>1. interview \in InterviewRows
    BY DEF CalendarInv, CalendarTypeOK
  <1>2. Withdrawn \in InterviewRows
    BY <1>1 DEF Withdrawn, InterviewRows
  <1> QED BY <1>1, <1>2 DEF DropSource

LEMMA StoredConnection ==
  ASSUME CalendarInv, NEW i \in Interviewers, NEW calendar \in {"first", "second"}
  PROVE  /\ Reconnected(i, calendar) \in Integrations
         /\ Reconnected(i, calendar).generation = integration[i].generation + 1
         /\ Reconnected(i, calendar).status = "ACTIVE" /\ Reconnected(i, calendar).calendar = calendar
  <1>1. integration[i].generation \in Nat /\ integration[i].token \in Times /\ 0 \in Times
    BY JobTypes, CalendarBoundsAssumption DEF CalendarInv, Times
  <1> QED BY <1>1 DEF Reconnected, Integrations

LEMMA GivenUpConnection ==
  ASSUME NEW c \in Integrations
  PROVE  [c EXCEPT !.status = "NOT_CONNECTED", !.generation = @ + 1, !.token = 0]
           = [status |-> "NOT_CONNECTED", generation |-> c.generation + 1, calendar |-> c.calendar, token |-> 0]
  <1> DEFINE c1 == [c EXCEPT !.status = "NOT_CONNECTED"]
             c2 == [c1 EXCEPT !.generation = c.generation + 1]
  <1>1. [c EXCEPT !.status = "NOT_CONNECTED", !.generation = @ + 1, !.token = 0] = [c2 EXCEPT !.token = 0]
    BY DEF Integrations
  <1>2. c1 = [status |-> "NOT_CONNECTED", generation |-> c.generation, calendar |-> c.calendar, token |-> c.token]
    BY DEF Integrations
  <1> HIDE DEF c1
  <1>3. c2 = [status |-> "NOT_CONNECTED", generation |-> c.generation + 1, calendar |-> c.calendar, token |-> c.token]
    BY <1>2
  <1> HIDE DEF c2
  <1> QED BY <1>1, <1>3

LEMMA RefusedConnection ==
  ASSUME CalendarInv, NEW i \in Interviewers, AccessRefused(i)
  PROVE  \E c \in Integrations :
              /\ integration' = [integration EXCEPT ![i] = c]
              /\ c.generation = integration[i].generation /\ c.calendar = integration[i].calendar
              /\ c.status # "ACTIVE"
  <1> DEFINE c == [integration[i] EXCEPT !.status = "REAUTH_REQUIRED"]
  <1>0. integration[i] \in Integrations /\ integration \in [Interviewers -> Integrations]
    BY JobTypes DEF CalendarInv, CalendarTypeOK
  <1>1. integration' = [integration EXCEPT ![i] = c]
    BY <1>0 DEF AccessRefused
  <1>2. /\ c \in Integrations /\ c.generation = integration[i].generation
        /\ c.calendar = integration[i].calendar /\ c.status # "ACTIVE"
    BY <1>0 DEF Integrations
  <1> QED BY <1>1, <1>2

LEMMA ConnectionsInv ==
  ASSUME CalendarInv, NEW i \in Interviewers,
         \/ Disconnect(i) \/ TouchChannel(i)
         \/ \E calendar \in {"first", "second"} : UpsertIntegration(i, calendar)
  PROVE  CalendarInv'
  <1>0. /\ integration[i] \in Integrations /\ integration[i].generation \in Nat
        /\ integration[i].token \in Times /\ 0 \in Times /\ flow \subseteq Interviewers
        /\ integration \in [Interviewers -> Integrations] /\ SourcesAreConnected
        /\ integration[i].calendar \in {"first", "second"}
        /\ interview \in InterviewRows
    BY JobTypes, CalendarBoundsAssumption DEF CalendarInv, CalendarTypeOK, Times
  <1>1. ASSUME Disconnect(i) PROVE CalendarInv'
    <2> DEFINE c == [status |-> "NOT_CONNECTED", generation |-> integration[i].generation + 1,
                     calendar |-> integration[i].calendar, token |-> 0]
    <2>1. integration' = [integration EXCEPT ![i] = c]
      <3>1. integration' = [integration EXCEPT ![i] = [integration[i] EXCEPT
                                !.status = "NOT_CONNECTED", !.generation = @ + 1, !.token = 0]]
        BY <1>0, <1>1 DEF Disconnect
      <3> QED BY <1>0, <3>1, GivenUpConnection
    <2>2. c \in Integrations /\ c.generation = integration[i].generation + 1
      BY <1>0 DEF Integrations
    <2>3. /\ sources' \subseteq sources /\ i \notin sources'
          /\ interview' \in InterviewRows
      <3>1. CASE Connected(i)
        BY <1>1, <3>1, DroppedSource DEF Disconnect
      <3>2. CASE ~Connected(i)
        BY <1>0, <1>1, <3>2 DEF Disconnect, SourcesAreConnected
      <3> QED BY <3>1, <3>2
    <2>4. job' = [job EXCEPT ![i] = NoJob] /\ UNCHANGED <<now, google, run, begun, flow>>
      BY <1>1 DEF Disconnect
    <2> HIDE DEF c
    <2> QED BY <1>0, <2>1, <2>2, <2>3, <2>4, NobodyMoves, ConnectionReplaced
  <1>2. ASSUME NEW calendar \in {"first", "second"}, UpsertIntegration(i, calendar) PROVE CalendarInv'
    <2> DEFINE changed == Changes(i, calendar)
               c == Reconnected(i, calendar)
    <2>1. integration' = [integration EXCEPT ![i] = c]
      BY <1>2 DEF UpsertIntegration
    <2>2. /\ c \in Integrations /\ c.generation = integration[i].generation + 1
          /\ c.status = "ACTIVE" /\ c.calendar = calendar
      BY StoredConnection
    <2>3. /\ sources' \subseteq sources /\ (i \in sources' => calendar = "first")
          /\ interview' \in InterviewRows
      <3>1. CASE changed /\ Connected(i)
        BY <1>2, <3>1, DroppedSource DEF UpsertIntegration
      <3>2. CASE ~(changed /\ Connected(i))
        <4>1. UNCHANGED <<interview, sources>>
          BY <1>2, <3>2 DEF UpsertIntegration
        <4>2. ASSUME i \in sources PROVE calendar = "first"
          <5>1. Connected(i) /\ integration[i].calendar = "first"
            BY <1>0, <4>2 DEF SourcesAreConnected
          <5> QED BY <3>2, <5>1 DEF Connected, Changes
        <4> QED BY <1>0, <4>1, <4>2
      <3> QED BY <3>1, <3>2
    <2>4. /\ UNCHANGED job \/ job' = [job EXCEPT ![i] = NoJob]
          /\ UNCHANGED <<now, google, run, begun>> /\ flow' \subseteq Interviewers
      BY <1>0, <1>2 DEF UpsertIntegration
    <2> HIDE DEF c, changed
    <2> QED BY <2>1, <2>2, <2>3, <2>4, NobodyMoves, ConnectionReplaced
  <1>3. ASSUME TouchChannel(i) PROVE CalendarInv'
    <2>1. PICK c \in Integrations :
              /\ integration' = [integration EXCEPT ![i] = c]
              /\ c.generation = integration[i].generation /\ c.calendar = integration[i].calendar
              /\ c.status # "ACTIVE"
      BY <1>3, RefusedConnection DEF TouchChannel
    <2>2. /\ sources' = sources \ {i}
          /\ interview' \in InterviewRows
      BY <1>3, DroppedSource DEF TouchChannel, AccessRefused
    <2>3. UNCHANGED <<now, google, job, run, begun, flow>>
      BY <1>3 DEF TouchChannel
    <2> QED BY <1>0, <2>1, <2>2, <2>3, NobodyMoves, ConnectionReplaced
  <1> QED BY <1>1, <1>2, <1>3

-----------------------------------------------------------------------------
(* The synchronizations *)

\* One that is through, or can no longer be applied, leaves the order to the others.
LEMMA Retires ==
  ASSUME CalendarInv, NEW gone \in SUBSET Runs, begun' = Without(gone),
         NEW r \in gone, NEW h \in Claims \union {Resting}, run' = [run EXCEPT ![r] = h],
         \A p \in Runs : p # r => run'[p] = run[p]
  PROVE  /\ run' \in [Runs -> Claims \union Begun \union {Resting}] /\ begun' \subseteq Runs \X Runs
         /\ OrderOK' /\ Applicable' = Applicable \ gone
         /\ run'[r] = h /\ ~Busy(r)'
  <1>0. r \in Runs /\ run \in [Runs -> Claims \union Begun \union {Resting}] /\ begun \subseteq Runs \X Runs
    BY DEF CalendarInv, CalendarTypeOK
  <1>1. run' \in [Runs -> Claims \union Begun \union {Resting}] /\ run'[r] = h
    BY <1>0
  <1>2. ~Busy(r)'
    BY <1>1 DEF Busy, Claims, Resting
  <1>3. \A p, q \in Runs : <<p, q>> \in begun' <=> <<p, q>> \in begun /\ p \notin gone /\ q \notin gone
    BY DEF Without
  <1>4. Applicable' = Applicable \ gone
    BY <1>3 DEF Applicable
  <1>5. OrderOK'
    BY <1>0, <1>3, <1>4 DEF CalendarInv, OrderOK, Busy, Applicable
  <1>6. begun' \subseteq Runs \X Runs
    BY <1>0 DEF Without
  <1> QED BY <1>1, <1>2, <1>4, <1>5, <1>6

\* What becomes of a run that goes on to report to the queue.
Reporting(r, s) ==
    IF run[r].queued THEN [step |-> s, member |-> run[r].member, queued |-> TRUE] ELSE Resting

LEMMA GoesOn ==
  ASSUME CalendarInv, NEW r \in Runs, run[r] # Resting, NEW s \in {"complete", "fail"}, Proceeds(r, s)
  PROVE  /\ run' = [run EXCEPT ![r] = Reporting(r, s)]
         /\ Reporting(r, s) \in Claims \union {Resting}
         /\ run[r].queued => /\ Reporting(r, s) # Resting /\ Reporting(r, s).queued
                             /\ Reporting(r, s).member = run[r].member /\ Reporting(r, s).step = s
         /\ ~run[r].queued => Reporting(r, s) = Resting
         /\ \A p \in Runs : p # r => run'[p] = run[p]
  <1>0. run \in [Runs -> Claims \union Begun \union {Resting}] /\ run[r].member \in Interviewers
    BY RowTypes DEF CalendarInv, CalendarTypeOK
  <1>1. run' = [run EXCEPT ![r] = Reporting(r, s)]
    BY DEF Proceeds, Reporting
  <1>2. [step |-> s, member |-> run[r].member, queued |-> TRUE] \in Claims
    BY <1>0 DEF Claims
  <1>3. [step |-> s, member |-> run[r].member, queued |-> TRUE] # Resting
    BY DEF Resting
  <1> QED BY <1>0, <1>1, <1>2, <1>3 DEF Reporting

\* The members whose job is in other hands notice nothing.
LEMMA BystandersOK ==
  ASSUME CalendarInv, NEW gone \in SUBSET Runs, begun' = Without(gone),
         NEW r \in gone, NEW h \in Claims \union {Resting}, run' = [run EXCEPT ![r] = h],
         \A p \in Runs : p # r => run'[p] = run[p],
         NEW k \in Interviewers, job'[k] = job[k], integration'[k] = integration[k], now' = now,
         \A q \in Runs : HasLock(q, k) => q \notin gone
  PROVE  JobOK(k)' /\ ServiceOK(k)'
  <1>1. JobOK(k) /\ ServiceOK(k)
    BY DEF CalendarInv
  <1>2. ASSUME NEW q \in Runs, HasLock(q, k)'
        PROVE  HasLock(q, k) /\ q \notin gone /\ q # r /\ run'[q] = run[q]
    BY <1>2 DEF HasLock
  <1>3. Applicable' = Applicable \ gone
    BY Retires, ZenonT(30)
  <1>4. JobOK(k)'
    <2>1. job'[k] # NoJob => job'[k].generation <= integration'[k].generation /\ job'[k].requested <= now'
      BY <1>1 DEF JobOK
    <2>2. ASSUME NEW q \in Runs, HasLock(q, k)'
          PROVE  /\ run'[q] # Resting /\ run'[q].queued /\ run'[q].member = k
                 /\ Busy(q)' => job'[k].generation <= run'[q].generation
      BY <1>1, <1>2, <2>2 DEF JobOK, Busy
    <2> QED BY <2>1, <2>2 DEF JobOK
  <1>5. ServiceOK(k)'
    <2> SUFFICES ASSUME NEW q \in Runs, HasLock(q, k)', ~job'[k].again
                 PROVE  /\ Busy(q)' => job'[k].requested <= run'[q].started
                        /\ (Busy(q)' /\ q \notin Applicable') \/ run'[q].step = "complete"
                               => Ended(k)' \/ Served(k)'
      BY DEF ServiceOK
    <2>1. HasLock(q, k) /\ q \notin gone /\ run'[q] = run[q]
      BY <1>2
    <2>2. Busy(q)' => job'[k].requested <= run'[q].started
      BY <1>1, <2>1 DEF ServiceOK, Busy
    <2>3. ASSUME (Busy(q)' /\ q \notin Applicable') \/ run'[q].step = "complete" PROVE Ended(k)' \/ Served(k)'
      <3>1. (Busy(q) /\ q \notin Applicable) \/ run[q].step = "complete"
        BY <1>3, <2>1, <2>3 DEF Busy
      <3>2. Ended(k) \/ Served(k)
        BY <1>1, <2>1, <3>1 DEF ServiceOK
      <3>3. \A p \in Applicable' : p \in Runs /\ p \in Applicable /\ run'[p] = run[p]
        BY <1>3 DEF Applicable
      <3> QED BY <3>2, <3>3 DEF Ended, Served
    <2> QED BY <2>2, <2>3
  <1> QED BY <1>4, <1>5

\* A run leaves the order, and takes others along: the rest of the invariant.
LEMMA RunLeaves ==
  ASSUME CalendarInv, NEW gone \in SUBSET Runs, begun' = Without(gone),
         NEW r \in gone, NEW h \in Claims \union {Resting}, run' = [run EXCEPT ![r] = h],
         \A p \in Runs : p # r => run'[p] = run[p],
         UNCHANGED <<now, google, flow>>,
         integration' \in [Interviewers -> Integrations],
         \A k \in Interviewers : /\ integration'[k].status = integration[k].status
                            /\ integration'[k].generation = integration[k].generation
                            /\ integration'[k].calendar = integration[k].calendar,
         job' \in [Interviewers -> SyncJobs \union {NoJob}],
         \A k \in Interviewers : JobOK(k)' /\ ServiceOK(k)',
         interview' \in InterviewRows,
         sources' \subseteq Interviewers \union Colleagues, SourcesAreConnected'
  PROVE  CalendarInv'
  <1>1. /\ run' \in [Runs -> Claims \union Begun \union {Resting}] /\ begun' \subseteq Runs \X Runs
        /\ OrderOK' /\ ~Busy(r)'
    BY Retires, ZenonT(30)
  <1>2. CalendarTypeOK'
    BY <1>1 DEF CalendarInv, CalendarTypeOK
  <1>3. ASSUME NEW p \in Runs PROVE RunOK(p)'
    <2>1. CASE ~Busy(p)'
      BY <2>1 DEF RunOK
    <2>2. CASE Busy(p)'
      <3>1. run'[p] = run[p] /\ Busy(p) /\ RunOK(p)
        BY <1>1, <2>2 DEF Busy, CalendarInv
      <3>2. run[p].member \in Interviewers
        BY <3>1, BegunTypes DEF CalendarInv
      <3> QED BY <3>1, <3>2 DEF RunOK
    <2> QED BY <2>1, <2>2
  <1> QED BY <1>1, <1>2, <1>3 DEF CalendarInv

LEMMA ReauthInv ==
  ASSUME CalendarInv, NEW r \in Runs, MarkReauth(r)
  PROVE  CalendarInv'
  <1> DEFINE h == Reporting(r, "fail")
  <1>i. PICK i \in Interviewers : i = run[r].member
    BY BegunTypes DEF MarkReauth, Busy, CalendarInv
  <1>g. {r} \in SUBSET Runs /\ r \in {r}
    OBVIOUS
  <1>0. /\ Busy(r) /\ i \in Interviewers /\ run[r] # Resting /\ Proceeds(r, "fail") /\ begun' = Without({r})
        /\ UNCHANGED <<now, google, job, flow>>
    BY <1>i DEF MarkReauth, Busy, Resting
  <1>1. /\ run' = [run EXCEPT ![r] = h] /\ h \in Claims \union {Resting}
        /\ run[r].queued => h # Resting /\ h.queued /\ h.member = i /\ h.step = "fail"
        /\ ~run[r].queued => h = Resting
        /\ \A p \in Runs : p # r => run'[p] = run[p]
    BY <1>0, <1>i, GoesOn
  <1>2. /\ run' \in [Runs -> Claims \union Begun \union {Resting}] /\ begun' \subseteq Runs \X Runs
        /\ OrderOK' /\ Applicable' = Applicable \ {r} /\ run'[r] = h /\ ~Busy(r)'
    <2> HIDE DEF h
    <2> QED BY <1>0, <1>g, <1>1, Retires
  <1>3. h.step # "complete"
    BY <1>1, <1>0, BegunTypes DEF Resting, CalendarInv
  <1> HIDE DEF h
  <1>4. /\ integration[i] \in Integrations /\ integration \in [Interviewers -> Integrations]
        /\ interview \in InterviewRows
        /\ flow \subseteq Interviewers /\ sources \subseteq Interviewers \union Colleagues
        /\ job \in [Interviewers -> SyncJobs \union {NoJob}]
    BY <1>0, JobTypes DEF CalendarInv, CalendarTypeOK
  <1>5. CASE Connected(i) /\ integration[i].generation = run[r].generation
    <2>1. AccessRefused(i) /\ DropSource(i)
      BY <1>5, <1>i DEF MarkReauth, AccessRefused
    <2>2. PICK c \in Integrations :
              /\ integration' = [integration EXCEPT ![i] = c]
              /\ c.generation = integration[i].generation /\ c.calendar = integration[i].calendar
              /\ c.status # "ACTIVE"
      BY <2>1, RefusedConnection
    <2>3. /\ sources' \subseteq sources /\ i \notin sources'
          /\ interview' \in InterviewRows
      BY <1>0, <2>1, DroppedSource
    <2>4. \A p \in Runs : Steady(p) /\ (p \in Applicable => p \in Applicable' \/ ~Busy(p)')
      BY <1>i, <1>1, <1>2, <1>3 DEF Steady
    <2>5. Applicable' \subseteq Applicable
      BY <1>2
    <2> QED BY <1>0, <1>2, <1>4, <2>1, <2>2, <2>3, <2>4, <2>5, ConnectionReplaced
  <1>6. CASE ~(Connected(i) /\ integration[i].generation = run[r].generation)
    <2>1. UNCHANGED <<integration, interview, sources>>
      BY <1>6, <1>i DEF MarkReauth
    <2>2. ASSUME NEW k \in Interviewers PROVE JobOK(k)' /\ ServiceOK(k)'
      <3>1. CASE HasLock(r, k)
        <4>1. JobOK(k) /\ run[r].queued /\ run[r].member = k
          BY <3>1, <1>i DEF CalendarInv, JobOK
        <4>2. \A q \in Runs : HasLock(q, k)' => q = r
          BY <1>0, <3>1 DEF HasLock
        <4>3. JobOK(k)'
          BY <1>i, <1>0, <1>1, <1>2, <2>1, <4>1, <4>2 DEF JobOK
        <4>4. ServiceOK(k)'
          BY <1>2, <1>3, <4>2 DEF ServiceOK
        <4> QED BY <4>3, <4>4
      <3>2. CASE ~HasLock(r, k)
        <4>1. \A q \in Runs : HasLock(q, k) => q \notin {r}
          BY <3>2
        <4> QED BY <1>0, <1>g, <1>1, <2>1, <4>1, BystandersOK
      <3> QED BY <3>1, <3>2
    <2>3. SourcesAreConnected'
      BY <2>1 DEF CalendarInv, SourcesAreConnected, Connected
    <2> QED BY <1>0, <1>g, <1>1, <1>4, <2>1, <2>2, <2>3, RunLeaves
  <1> QED BY <1>5, <1>6

LEMMA UnlockedJob ==
  ASSUME NEW j \in SyncJobs
  PROVE  /\ FreedJob(j) \in SyncJobs /\ FreedJob(j).lock = "free"
         /\ FreedJob(j).generation = j.generation /\ FreedJob(j).requested = j.requested
  BY DEF FreedJob, SyncJobs

\* The end of a run: its job, if it still has it, is unlocked or deleted.
LEMMA EndsInv ==
  ASSUME CalendarInv, NEW r \in Runs, CompleteSyncJob(r) \/ FailSyncJob(r)
  PROVE  CalendarInv'
  <1>i. PICK i \in Interviewers : i = run[r].member
    BY RowTypes DEF CompleteSyncJob, FailSyncJob, CalendarInv, Resting
  <1>g. {r} \in SUBSET Runs /\ r \in {r}
    OBVIOUS
  <1>0. /\ run[r] # Resting /\ i \in Interviewers /\ run' = [run EXCEPT ![r] = Resting] /\ begun' = Without({r})
        /\ UNCHANGED <<now, google, integration, flow, interview, sources>>
    BY <1>i DEF CompleteSyncJob, FailSyncJob, Stops, Resting
  <1>1. /\ job \in [Interviewers -> SyncJobs \union {NoJob}] /\ run \in [Runs -> Claims \union Begun \union {Resting}]
        /\ \A p \in Runs : p # r => run'[p] = run[p]
    BY <1>0 DEF CalendarInv, CalendarTypeOK
  <1>2. HoldsJob(r) <=> run[r].queued /\ HasLock(r, i)
    BY <1>i DEF HoldsJob, HasLock
  <1>3. CASE HoldsJob(r)
    <2>1. job[i] \in SyncJobs
      BY <1>0, <1>1, <1>2, <1>3 DEF HasLock
    <2>2. PICK j \in {NoJob, FreedJob(job[i])} : job' = [job EXCEPT ![i] = j]
      BY <1>0, <1>i, <1>1, <1>3 DEF CompleteSyncJob, FailSyncJob
    <2>3. /\ j \in SyncJobs \union {NoJob}
          /\ j # NoJob => j.lock = "free" /\ j.generation = job[i].generation /\ j.requested = job[i].requested
      BY <2>1, UnlockedJob
    <2>4. /\ job' \in [Interviewers -> SyncJobs \union {NoJob}]
          /\ \A k \in Interviewers : job'[k] = IF k = i THEN j ELSE job[k]
      BY <1>1, <2>2, <2>3
    <2>5. JobOK(i)' /\ ServiceOK(i)'
      <3>1. job[i] # NoJob /\ JobOK(i)
        BY <1>0, <1>2, <1>3 DEF HasLock, CalendarInv
      <3>2. \A q \in Runs : ~HasLock(q, i)'
        BY <1>0, <2>3, <2>4, RunsAssumption DEF HasLock
      <3>3. job'[i] # NoJob => job'[i].generation <= integration'[i].generation /\ job'[i].requested <= now'
        BY <1>0, <2>3, <2>4, <3>1 DEF JobOK
      <3> QED BY <3>2, <3>3 DEF JobOK, ServiceOK
    <2>6. ASSUME NEW k \in Interviewers, k # i PROVE JobOK(k)' /\ ServiceOK(k)'
      <3>1. \A q \in Runs : HasLock(q, k) => q \notin {r}
        BY <1>i, <2>6 DEF CalendarInv, JobOK
      <3>2. job'[k] = job[k]
        BY <2>4, <2>6
      <3> QED BY <1>0, <1>g, <1>1, <3>1, <3>2, BystandersOK
    <2>7. SourcesAreConnected'
      BY <1>0 DEF CalendarInv, SourcesAreConnected, Connected
    <2>8. \A k \in Interviewers : JobOK(k)' /\ ServiceOK(k)'
      BY <2>5, <2>6
    <2> QED BY <1>0, <1>g, <1>1, <2>4, <2>7, <2>8, RunLeaves DEF CalendarInv, CalendarTypeOK
  <1>4. CASE ~HoldsJob(r)
    <2>1. job' = job
      BY <1>4 DEF CompleteSyncJob, FailSyncJob
    <2>2. ASSUME NEW k \in Interviewers PROVE JobOK(k)' /\ ServiceOK(k)'
      <3>1. \A q \in Runs : HasLock(q, k) => q \notin {r}
        BY <1>i, <1>2, <1>4 DEF CalendarInv, JobOK
      <3> QED BY <1>0, <1>g, <1>1, <2>1, <3>1, BystandersOK
    <2>3. SourcesAreConnected'
      BY <1>0 DEF CalendarInv, SourcesAreConnected, Connected
    <2> QED BY <1>0, <1>g, <1>1, <2>1, <2>2, <2>3, RunLeaves DEF CalendarInv, CalendarTypeOK
  <1> QED BY <1>3, <1>4

\* A claim: the job is in new hands.
LEMMA ClaimedInv ==
  ASSUME CalendarInv, NEW r \in Runs, NEW i \in Interviewers, ClaimJob(r, i)
  PROVE  CalendarInv'
  <1> DEFINE h == [step |-> "claimed", member |-> i, queued |-> TRUE]
             mine == [job[i] EXCEPT !.lock = r]
             j == [mine EXCEPT !.again = FALSE]
  <1>0. /\ run[r] = Resting /\ job[i] # NoJob /\ job[i] \in SyncJobs
        /\ UNCHANGED <<now, google, integration, begun, flow, interview, sources>>
        /\ job \in [Interviewers -> SyncJobs \union {NoJob}] /\ run \in [Runs -> Claims \union Begun \union {Resting}]
    BY RowTypes DEF ClaimJob, CalendarInv, CalendarTypeOK
  <1>1. run' = [run EXCEPT ![r] = h] /\ h \in Claims /\ h # Resting
    BY DEF ClaimJob, Claims, Resting
  <1>2. job' = [job EXCEPT ![i] = j]
    BY <1>0 DEF ClaimJob, SyncJobs
  <1>3. mine \in SyncJobs /\ mine.lock = r /\ mine.generation = job[i].generation /\ mine.requested = job[i].requested
    BY <1>0 DEF SyncJobs
  <1> HIDE DEF mine
  <1>4. j \in SyncJobs /\ j.lock = r /\ j.generation = job[i].generation /\ j.requested = job[i].requested
    BY <1>3 DEF SyncJobs
  <1> HIDE DEF j
  <1>5. /\ job' \in [Interviewers -> SyncJobs \union {NoJob}]
        /\ \A k \in Interviewers : job'[k] = IF k = i THEN j ELSE job[k]
    BY <1>0, <1>2, <1>4
  <1>6. /\ run' \in [Runs -> Claims \union Begun \union {Resting}]
        /\ \A p \in Runs : run'[p] = IF p = r THEN h ELSE run[p]
    BY <1>0, <1>1
  <1>7. ~Busy(r) /\ ~Busy(r)' /\ r \notin Applicable
    BY <1>0, <1>6 DEF Busy, Resting, CalendarInv, OrderOK
  <1>8. Applicable' = Applicable /\ \A p \in Applicable : p # r /\ run'[p] = run[p]
    BY <1>0, <1>6, <1>7 DEF Applicable
  <1>9. CalendarTypeOK'
    BY <1>0, <1>5, <1>6 DEF CalendarInv, CalendarTypeOK
  <1>10. OrderOK'
    BY <1>0, <1>8 DEF CalendarInv, OrderOK, Busy
  <1>11. ASSUME NEW p \in Runs PROVE RunOK(p)'
    <2>1. CASE p = r
      BY <1>7, <2>1 DEF RunOK
    <2>2. CASE p # r
      BY <1>0, <1>6, <2>2 DEF CalendarInv, RunOK, Busy
    <2> QED BY <2>1, <2>2
  <1>12. ASSUME NEW k \in Interviewers PROVE JobOK(k)' /\ ServiceOK(k)'
    <2>1. CASE k = i
      <3>1. \A q \in Runs : HasLock(q, i)' => q = r
        BY <1>4, <1>5 DEF HasLock
      <3>2. job[i].generation <= integration[i].generation /\ job[i].requested <= now
        BY <1>0 DEF CalendarInv, JobOK
      <3>3. run'[r] # Resting /\ run'[r].queued /\ run'[r].member = i /\ run'[r].step = "claimed"
        BY <1>1, <1>6
      <3>4. JobOK(i)'
        BY <1>0, <1>4, <1>5, <1>7, <3>1, <3>2, <3>3 DEF JobOK
      <3>5. ServiceOK(i)'
        BY <1>7, <3>1, <3>3 DEF ServiceOK
      <3> QED BY <2>1, <3>4, <3>5
    <2>2. CASE k # i
      <3>1. \A q \in Runs : HasLock(q, k)' => q # r /\ HasLock(q, k) /\ run'[q] = run[q]
        BY <1>0, <1>5, <1>6, <2>2 DEF HasLock, CalendarInv, JobOK
      <3>2. JobOK(k) /\ ServiceOK(k) /\ job'[k] = job[k]
        BY <1>5, <2>2 DEF CalendarInv
      <3>3. JobOK(k)'
        BY <1>0, <3>1, <3>2 DEF JobOK, Busy
      <3>4. Ended(k)' = Ended(k) /\ Served(k)' = Served(k)
        BY <1>0, <1>8, <3>2 DEF Ended, Served
      <3>5. ServiceOK(k)'
        BY <1>8, <3>1, <3>2, <3>4 DEF ServiceOK, Busy
      <3> QED BY <3>3, <3>5
    <2> QED BY <2>1, <2>2
  <1>13. SourcesAreConnected'
    BY <1>0 DEF CalendarInv, SourcesAreConnected, Connected
  <1> QED BY <1>9, <1>10, <1>11, <1>12, <1>13 DEF CalendarInv

\* A beginning: later than all that may still be applied, and than every request.
LEMMA BeginsInv ==
  ASSUME CalendarInv, NEW r \in Runs, NEW i \in Interviewers, NEW queued \in BOOLEAN, Begins(r, i, queued),
         ~Busy(r), run[r].step # "complete",
         \A k \in Interviewers : HasLock(r, k) => k = i /\ queued
  PROVE  CalendarInv'
  <1> DEFINE h == [step |-> "list", member |-> i, queued |-> queued,
                   generation |-> integration[i].generation, calendar |-> integration[i].calendar,
                   token |-> integration[i].token, started |-> now, copy |-> Absent, listed |-> 0]
  <1>0. /\ UNCHANGED <<now, google, integration, job, flow, interview, sources>>
        /\ run' = [run EXCEPT ![r] = h] /\ begun' = begun \union {<<q, r>> : q \in Applicable \union {r}}
        /\ run \in [Runs -> Claims \union Begun \union {Resting}] /\ begun \subseteq Runs \X Runs
        /\ now \in Nat /\ now \in Times
    BY JobTypes DEF Begins, CalendarInv, CalendarTypeOK
  <1>1. /\ h \in Begun /\ h.step = "list" /\ h.member = i /\ h.queued = queued /\ h # Resting
        /\ h.generation = integration[i].generation /\ h.calendar = integration[i].calendar
        /\ h.started = now
    <2>1. /\ integration[i].generation \in Nat /\ integration[i].token \in Times
          /\ integration[i].calendar \in {"first", "second"} /\ 0 \in Times
      BY JobTypes, CalendarBoundsAssumption DEF CalendarInv, Times
    <2>2. Absent \in Copies
      BY <2>1 DEF Absent, Copies
    <2> QED BY <1>0, <2>1, <2>2 DEF Begun, Resting
  <1> HIDE DEF h
  <1>2. /\ run' \in [Runs -> Claims \union Begun \union {Resting}]
        /\ \A p \in Runs : run'[p] = IF p = r THEN h ELSE run[p]
    BY <1>0, <1>1
  <1>3. r \notin Applicable /\ \A p \in Applicable : p \in Runs /\ p # r /\ run'[p] = run[p] /\ Busy(p)
    BY <1>2 DEF CalendarInv, OrderOK, Applicable
  <1>4. \A p, q \in Runs : <<p, q>> \in begun' <=> <<p, q>> \in begun \/ (q = r /\ (p = r \/ p \in Applicable))
    BY <1>0
  <1>5. Applicable' = Applicable \union {r}
    BY <1>3, <1>4 DEF Applicable
  <1>6. CalendarTypeOK'
    <2>1. begun' \subseteq Runs \X Runs
      BY <1>0, <1>3
    <2> QED BY <1>0, <1>2, <2>1 DEF CalendarInv, CalendarTypeOK
  <1>7. Busy(r)' /\ run'[r] = h
    BY <1>1, <1>2 DEF Busy
  <1>8. OrderOK'
    <2>1. \A p \in Applicable' : Busy(p)'
      BY <1>3, <1>5, <1>7 DEF Busy
    <2>2. ASSUME NEW p \in Runs, NEW q \in Runs, <<p, q>> \in begun'
          PROVE  p \in Applicable' /\ q \in Applicable' /\ run'[p].started <= run'[q].started
      <3>1. CASE <<p, q>> \in begun
        <4>1. p \in Applicable /\ q \in Applicable /\ run[p].started <= run[q].started
          BY <3>1 DEF CalendarInv, OrderOK
        <4> QED BY <1>3, <1>5, <4>1
      <3>2. CASE q = r /\ p = r
        BY <1>0, <1>1, <1>5, <1>7, <3>2
      <3>3. CASE q = r /\ p \in Applicable
        <4>1. run[p].started <= now
          BY <1>3, <3>3 DEF CalendarInv, RunOK
        <4> QED BY <1>1, <1>3, <1>5, <1>7, <3>3, <4>1
      <3> QED BY <1>4, <2>2, <3>1, <3>2, <3>3
    <2>3. \A p, q \in Applicable' : <<p, q>> \in begun' \/ <<q, p>> \in begun'
      BY <1>3, <1>4, <1>5 DEF CalendarInv, OrderOK
    <2> QED BY <2>1, <2>2, <2>3 DEF OrderOK
  <1>9. ASSUME NEW p \in Runs PROVE RunOK(p)'
    <2>1. CASE p = r
      <3>1. integration[i].generation \in Nat
        BY JobTypes DEF CalendarInv
      <3> QED BY <1>0, <1>1, <1>7, <2>1, <3>1 DEF RunOK
    <2>2. CASE p # r
      BY <1>0, <1>2, <2>2 DEF CalendarInv, RunOK, Busy
    <2> QED BY <2>1, <2>2
  <1>10. ASSUME NEW k \in Interviewers, job[k] # NoJob PROVE job[k].requested <= now /\ job[k].generation <= integration[k].generation
    BY <1>10 DEF CalendarInv, JobOK
  <1>11. ASSUME NEW k \in Interviewers PROVE JobOK(k)'
    <2>1. ASSUME NEW q \in Runs, HasLock(q, k)
          PROVE  /\ run'[q] # Resting /\ run'[q].queued /\ run'[q].member = k
                 /\ Busy(q)' => job[k].generation <= run'[q].generation
      <3>1. CASE q = r
        <4>1. k = i /\ queued /\ job[k] # NoJob
          BY <2>1, <3>1 DEF HasLock
        <4> QED BY <1>1, <1>7, <1>10, <3>1, <4>1
      <3>2. CASE q # r
        BY <1>2, <2>1, <3>2 DEF CalendarInv, JobOK, Busy
      <3> QED BY <3>1, <3>2
    <2> QED BY <1>0, <1>10, <2>1 DEF JobOK, HasLock
  <1>12. ASSUME NEW k \in Interviewers PROVE ServiceOK(k)'
    <2> SUFFICES ASSUME NEW q \in Runs, HasLock(q, k), ~job[k].again
                 PROVE  /\ Busy(q)' => job[k].requested <= run'[q].started
                        /\ (Busy(q)' /\ q \notin Applicable') \/ run'[q].step = "complete"
                               => Ended(k)' \/ Served(k)'
      BY <1>0 DEF ServiceOK, HasLock
    <2>1. job[k] # NoJob /\ job[k].requested <= now
      BY <1>10 DEF HasLock
    <2>2. CASE q = r
      BY <1>1, <1>5, <1>7, <2>1, <2>2
    <2>3. CASE q # r
      <3>1. Busy(q)' => job[k].requested <= run'[q].started
        BY <1>2, <2>3 DEF CalendarInv, ServiceOK, Busy
      <3>2. ASSUME (Busy(q)' /\ q \notin Applicable') \/ run'[q].step = "complete" PROVE Ended(k)' \/ Served(k)'
        <4>1. (Busy(q) /\ q \notin Applicable) \/ run[q].step = "complete"
          BY <1>2, <1>5, <2>3, <3>2 DEF Busy
        <4>2. Ended(k) \/ Served(k)
          BY <4>1 DEF CalendarInv, ServiceOK
        <4>3. \A p \in Applicable' : p \in Applicable \/ p = r
          BY <1>5
        <4> QED BY <1>0, <1>1, <1>3, <1>7, <2>1, <4>2, <4>3 DEF Ended, Served
      <3> QED BY <3>1, <3>2
    <2> QED BY <2>2, <2>3
  <1>13. SourcesAreConnected'
    BY <1>0 DEF CalendarInv, SourcesAreConnected, Connected
  <1> QED BY <1>6, <1>8, <1>9, <1>11, <1>12, <1>13 DEF CalendarInv

\* A run reports that it is through, without having changed anything: its request
\* was served by others, or is for a connection that has been given up.
LEMMA CompletesInv ==
  ASSUME CalendarInv, NEW r \in Runs, run[r] # Resting, Proceeds(r, "complete"), begun' = Without({r}),
         UNCHANGED <<now, google, integration, job, flow, interview, sources>>,
         \A k \in Interviewers : HasLock(r, k) /\ ~job[k].again => Ended(k) \/ Served(k)
  PROVE  CalendarInv'
  <1> DEFINE h == Reporting(r, "complete")
  <1>g. {r} \in SUBSET Runs /\ r \in {r}
    OBVIOUS
  <1>1. /\ run' = [run EXCEPT ![r] = h] /\ h \in Claims \union {Resting}
        /\ run[r].queued => h # Resting /\ h.queued /\ h.member = run[r].member /\ h.step = "complete"
        /\ \A p \in Runs : p # r => run'[p] = run[p]
    BY GoesOn
  <1> HIDE DEF h
  <1>2. Applicable' = Applicable \ {r} /\ run'[r] = h /\ ~Busy(r)'
    BY <1>g, <1>1, Retires
  <1>3. ASSUME NEW k \in Interviewers PROVE JobOK(k)' /\ ServiceOK(k)'
    <2>1. CASE HasLock(r, k)
      <3>1. JobOK(k) /\ run[r].queued /\ run[r].member = k
        BY <2>1 DEF CalendarInv, JobOK
      <3>2. \A q \in Runs : HasLock(q, k)' => q = r /\ HasLock(r, k)
        BY <2>1 DEF HasLock
      <3>3. JobOK(k)'
        BY <1>1, <1>2, <3>1, <3>2 DEF JobOK
      <3>4. ~job[k].again => (Ended(k) \/ Served(k))'
        <4>1. \A p \in Applicable' : p \in Runs /\ p \in Applicable /\ run'[p] = run[p]
          BY <1>1, <1>2 DEF Applicable
        <4> QED BY <2>1, <4>1 DEF Ended, Served
      <3>5. ServiceOK(k)'
        BY <1>2, <3>2, <3>4 DEF ServiceOK
      <3> QED BY <3>3, <3>5
    <2>2. CASE ~HasLock(r, k)
      <3>1. \A q \in Runs : HasLock(q, k) => q \notin {r}
        BY <2>2
      <3> QED BY <1>g, <1>1, <3>1, BystandersOK
    <2> QED BY <2>1, <2>2
  <1>4. SourcesAreConnected'
    BY DEF CalendarInv, SourcesAreConnected, Connected
  <1>5. /\ integration' \in [Interviewers -> Integrations] /\ job' \in [Interviewers -> SyncJobs \union {NoJob}]
        /\ interview' \in InterviewRows
        /\ sources' \subseteq Interviewers \union Colleagues
    BY DEF CalendarInv, CalendarTypeOK
  <1> QED BY <1>g, <1>1, <1>3, <1>4, <1>5, RunLeaves

LEMMA StartsInv ==
  ASSUME CalendarInv, NEW r \in Runs, RunSyncJob(r) \/ \E i \in Interviewers : Sync(r, i)
  PROVE  CalendarInv'
  <1>1. ASSUME NEW i \in Interviewers, Sync(r, i) PROVE CalendarInv'
    <2>1. run[r] = Resting /\ Begins(r, i, FALSE)
      BY <1>1 DEF Sync
    <2>2. ~Busy(r) /\ run[r].step # "complete"
      BY <2>1 DEF Busy, Resting
    <2>3. \A k \in Interviewers : ~HasLock(r, k)
      BY <2>1 DEF CalendarInv, JobOK
    <2>4. FALSE \in BOOLEAN
      OBVIOUS
    <2> QED BY <2>1, <2>2, <2>3, <2>4, BeginsInv
  <1>2. ASSUME RunSyncJob(r) PROVE CalendarInv'
    <2>1. run[r].step = "claimed" /\ run[r] \in Claims /\ run[r] # Resting
      BY <1>2, RowTypes DEF RunSyncJob, CalendarInv, Resting
    <2>i. PICK i \in Interviewers : i = run[r].member
      BY <2>1 DEF Claims
    <2>2. ~Busy(r) /\ run[r].step # "complete"
      BY <2>1 DEF Busy
    <2>3. \A k \in Interviewers : HasLock(r, k) => k = i /\ TRUE
      BY <2>i DEF CalendarInv, JobOK
    <2>4. CASE Begins(r, i, TRUE)
      <3>1. TRUE \in BOOLEAN
        OBVIOUS
      <3> QED BY <2>2, <2>3, <2>4, <3>1, BeginsInv
    <2>5. CASE /\ ~Connected(i) /\ Proceeds(r, "complete") /\ UNCHANGED begun
               /\ UNCHANGED <<now, google, integration, job, flow, interview, sources>>
      <3>1. begun' = Without({r})
        <4>1. r \notin Applicable
          BY <2>2 DEF CalendarInv, OrderOK
        <4>2. \A pair \in begun : /\ pair[1] \in Runs /\ pair[2] \in Runs /\ pair = <<pair[1], pair[2]>>
          BY DEF CalendarInv, CalendarTypeOK
        <4>3. \A pair \in begun : pair[1] \in Applicable /\ pair[2] \in Applicable
          BY <4>2 DEF CalendarInv, OrderOK
        <4> QED BY <2>5, <4>1, <4>3 DEF Without
      <3>2. \A k \in Interviewers : HasLock(r, k) => Ended(k)
        BY <2>3, <2>5 DEF Ended, Connected
      <3> QED BY <2>1, <2>5, <3>1, <3>2, CompletesInv
    <2> QED BY <1>2, <2>i, <2>4, <2>5 DEF RunSyncJob
  <1> QED BY <1>1, <1>2

Listed(h, token, copy, listed) ==
    [h EXCEPT !.step = "apply", !.token = token, !.copy = copy, !.listed = listed]

LEMMA ListedRun ==
  ASSUME NEW h \in Begun, NEW token \in Times, NEW copy \in Copies, NEW listed \in Times
  PROVE  \E g \in Begun :
            /\ g = Listed(h, token, copy, listed)
            /\ g.step = "apply" /\ g.copy = copy /\ g.listed = listed
            /\ g.member = h.member /\ g.queued = h.queued /\ g.generation = h.generation
            /\ g.calendar = h.calendar /\ g.started = h.started
  <1> DEFINE h1 == [h EXCEPT !.step = "apply"]
             h2 == [h1 EXCEPT !.token = token]
             h3 == [h2 EXCEPT !.copy = copy]
             g == Listed(h, token, copy, listed)
  <1>1. g = [h3 EXCEPT !.listed = listed]
    BY DEF Begun, Listed
  <1>2. /\ h1 \in Begun /\ h1.step = "apply" /\ h1.member = h.member /\ h1.queued = h.queued
        /\ h1.generation = h.generation /\ h1.calendar = h.calendar /\ h1.started = h.started
    BY DEF Begun
  <1> HIDE DEF h1
  <1>3. /\ h2 \in Begun /\ h2.step = "apply" /\ h2.member = h.member /\ h2.queued = h.queued
        /\ h2.generation = h.generation /\ h2.calendar = h.calendar /\ h2.started = h.started
    BY <1>2 DEF Begun
  <1> HIDE DEF h2
  <1>4. /\ h3 \in Begun /\ h3.step = "apply" /\ h3.member = h.member /\ h3.queued = h.queued
        /\ h3.generation = h.generation /\ h3.calendar = h.calendar /\ h3.started = h.started
        /\ h3.copy = copy
    BY <1>3 DEF Begun
  <1> HIDE DEF h3
  <1> QED BY <1>1, <1>4 DEF Begun

\* A list: drawn up now, and of the connection's calendar.
LEMMA ListEventsInv ==
  ASSUME CalendarInv, NEW r \in Runs, ListEvents(r)
  PROVE  CalendarInv'
  <1>0. /\ run[r].step = "list" /\ Busy(r) /\ run[r] \in Begun /\ run[r].token \in Times
        /\ run[r].member \in Interviewers /\ run[r].started \in Nat
        /\ now \in Times /\ now \in Nat /\ 0 \in Times
        /\ UNCHANGED <<now, google, integration, job, begun, flow, interview, sources>>
        /\ run \in [Runs -> Claims \union Begun \union {Resting}] /\ google \in [Interviewers -> Copies]
    BY BegunTypes, TimesAreNat, CalendarBoundsAssumption DEF ListEvents, Busy, CalendarInv, CalendarTypeOK, Times
  <1> DEFINE copy == IF run[r].calendar = "first" THEN google[run[r].member] ELSE Absent
  <1>1. PICK token \in Usable(r) :
            \E seen \in IF token > 0 THEN {IF copy.at > token THEN copy ELSE Absent}
                        ELSE IF copy.state = "cancelled" THEN {copy, Absent} ELSE {copy} :
                run' = [run EXCEPT ![r].step = "apply", ![r].token = token, ![r].copy = seen, ![r].listed = now]
    BY DEF ListEvents
  <1> HIDE DEF copy
  <1>2. PICK seen \in {copy, Absent} :
            run' = [run EXCEPT ![r].step = "apply", ![r].token = token, ![r].copy = seen, ![r].listed = now]
    <2>1. CASE token > 0
      BY <1>1, <2>1
    <2>2. CASE ~(token > 0)
      BY <1>1, <2>2
    <2> QED BY <2>1, <2>2
  <1>4. seen \in Copies /\ (seen.state = "eligible" => run[r].calendar = "first")
    <2>1. Absent \in Copies /\ Absent.state = "absent"
      BY <1>0 DEF Absent, Copies
    <2>2. copy \in Copies
      BY <1>0, <2>1 DEF copy
    <2> QED BY <2>1, <2>2 DEF copy
  <1>5. token \in Times
    BY <1>0 DEF Usable
  <1>6. PICK g \in Begun :
            /\ g = Listed(run[r], token, seen, now)
            /\ g.step = "apply" /\ g.copy = seen /\ g.listed = now
            /\ g.member = run[r].member /\ g.queued = run[r].queued /\ g.generation = run[r].generation
            /\ g.calendar = run[r].calendar /\ g.started = run[r].started
    BY <1>0, <1>4, <1>5, ListedRun
  <1>3. run' = [run EXCEPT ![r] = g]
    BY <1>0, <1>2, <1>6 DEF Listed
  <1>7. /\ run' \in [Runs -> Claims \union Begun \union {Resting}]
        /\ \A p \in Runs : run'[p] = IF p = r THEN g ELSE run[p]
    BY <1>0, <1>3, <1>6
  <1>8. /\ Applicable' = Applicable
        /\ \A p \in Runs : /\ Busy(p)' <=> Busy(p)
                           /\ run'[p].step = "complete" <=> run[p].step = "complete"
                           /\ run[p] # Resting => run'[p] # Resting
                           /\ Busy(p) => run'[p].started = run[p].started /\ run'[p].generation = run[p].generation
                           /\ run[p] # Resting => run'[p].member = run[p].member /\ run'[p].queued = run[p].queued
    <2>1. Applicable' = Applicable
      BY <1>0 DEF Applicable
    <2>2. \A p \in Runs : p # r => run'[p] = run[p]
      BY <1>7
    <2>3. /\ run'[r] = g /\ g # Resting /\ Busy(r) /\ Busy(r)' /\ g.step # "complete" /\ run[r].step # "complete"
      BY <1>0, <1>6, <1>7 DEF Busy, Resting
    <2>4. ASSUME NEW p \in Runs, p # r PROVE Busy(p)' <=> Busy(p)
      BY <2>2, <2>4 DEF Busy
    <2> QED BY <1>6, <2>1, <2>2, <2>3, <2>4
  <1>9. CalendarTypeOK'
    BY <1>0, <1>7 DEF CalendarInv, CalendarTypeOK
  <1>10. \A p \in Applicable : p \in Runs /\ Busy(p)
    BY DEF CalendarInv, OrderOK, Applicable
  <1>11. OrderOK'
    <2>1. OrderOK
      BY DEF CalendarInv
    <2> QED BY <1>0, <1>8, <1>10, <2>1 DEF OrderOK
  <1>12. ASSUME NEW p \in Runs PROVE RunOK(p)'
    <2>1. CASE p = r
      <3>1. RunOK(r) /\ run'[r] = g
        BY <1>7 DEF CalendarInv
      <3> QED BY <1>0, <1>4, <1>6, <2>1, <3>1 DEF RunOK
    <2>2. CASE p # r
      BY <1>0, <1>7, <2>2 DEF CalendarInv, RunOK, Busy
    <2> QED BY <2>1, <2>2
  <1>13. ASSUME NEW k \in Interviewers PROVE JobOK(k)' /\ ServiceOK(k)'
    <2>1. JobOK(k) /\ ServiceOK(k) /\ job'[k] = job[k]
      BY <1>0 DEF CalendarInv
    <2>2. \A q \in Runs : HasLock(q, k)' <=> HasLock(q, k)
      BY <2>1 DEF HasLock
    <2>3. JobOK(k)'
      BY <1>0, <1>8, <2>1, <2>2 DEF JobOK
    <2>4. Ended(k) \/ Served(k) => Ended(k)' \/ Served(k)'
      <3>1. \A p \in Applicable : run[p] # Resting
        BY <1>10 DEF Busy, Resting
      <3> QED BY <1>0, <1>8, <1>10, <3>1 DEF Ended, Served
    <2>5. ServiceOK(k)'
      BY <1>8, <2>1, <2>2, <2>4 DEF ServiceOK
    <2> QED BY <2>3, <2>5
  <1>14. SourcesAreConnected'
    BY <1>0 DEF CalendarInv, SourcesAreConnected, Connected
  <1> QED BY <1>9, <1>11, <1>12, <1>13, <1>14 DEF CalendarInv

\* A list that may not be applied: others have served its request, or the connection
\* that it was drawn up for is no more.
LEMMA VoidInv ==
  ASSUME CalendarInv, NEW r \in Runs, ApplySync(r), ~Applies(r)
  PROVE  CalendarInv'
  <1>0. /\ run[r].step = "apply" /\ Busy(r) /\ run[r] # Resting /\ Proceeds(r, "complete") /\ begun' = Without({r})
        /\ UNCHANGED <<now, google, integration, job, flow, interview, sources>>
    BY DEF ApplySync, Busy, Resting
  <1>1. ASSUME NEW k \in Interviewers, HasLock(r, k), ~job[k].again PROVE Ended(k) \/ Served(k)
    <2>1. /\ run[r].member = k /\ job[k].generation <= run[r].generation
          /\ RunOK(r) /\ run[r].generation \in Nat
          /\ job[k].generation \in Nat /\ integration[k].generation \in Nat
      BY <1>0, <1>1, BegunTypes, JobTypes DEF CalendarInv, JobOK, HasLock
    <2>2. /\ run[r].generation <= integration[k].generation
          /\ run[r].generation = integration[k].generation => run[r].calendar = integration[k].calendar
      BY <1>0, <2>1 DEF RunOK
    <2>3. CASE r \notin Applicable
      BY <1>0, <1>1, <2>3 DEF CalendarInv, ServiceOK
    <2>4. CASE r \in Applicable
      <3>1. integration[k].status # "ACTIVE" \/ integration[k].generation # run[r].generation
        BY <2>1, <2>2, <2>4 DEF Applies, Connected
      <3> QED BY <2>1, <2>2, <3>1 DEF Ended
    <2> QED BY <2>3, <2>4
  <1> QED BY <1>0, <1>1, CompletesInv

LEMMA FoundInterview ==
  ASSUME interview \in InterviewRows, NEW i \in Interviewers \union Colleagues, NEW at \in Times,
         Found(i, at)
  PROVE  interview' \in InterviewRows
  <1>1. [status |-> "live", at |-> at, origin |-> i] \in InterviewRows
    BY DEF InterviewRows
  <1>2. [interview EXCEPT !.status = "live", !.at = at] \in InterviewRows
    BY DEF InterviewRows
  <1> QED BY <1>1, <1>2 DEF Found

LEMMA FoundIsLive ==
  ASSUME interview \in InterviewRows, NEW i, NEW at, Found(i, at), interview.status = "live"
  PROVE  interview'.status = "live"
  BY DEF Found, InterviewRows

\* The calendar of a colleague is none of those that are synchronized here.
LEMMA ColleagueInv ==
  ASSUME CalendarInv, NEW k \in Colleagues, FoundByColleague(k)
  PROVE  CalendarInv'
  <1>1. /\ UNCHANGED <<now, google, integration, job, run, begun, flow>>
        /\ sources' = sources \union {k}
        /\ interview' \in InterviewRows
    <2>1. interview \in InterviewRows /\ interview.at \in Times
      BY DEF CalendarInv, CalendarTypeOK, InterviewRows
    <2> QED BY <2>1, FoundInterview DEF FoundByColleague, Found
  <1>2. CalendarTypeOK'
    BY <1>1 DEF CalendarInv, CalendarTypeOK
  <1>3. OrderOK' /\ \A r \in Runs : RunOK(r)'
    BY <1>1 DEF CalendarInv, OrderOK, RunOK, Applicable, Busy
  <1>4. \A i \in Interviewers : JobOK(i)' /\ ServiceOK(i)'
    BY <1>1 DEF CalendarInv, JobOK, ServiceOK, HasLock, Busy, Ended, Served, Applicable
  <1>5. SourcesAreConnected'
    <2>1. k \notin Interviewers
      BY ColleaguesAssumption
    <2> QED BY <1>1, <2>1 DEF CalendarInv, SourcesAreConnected, Connected
  <1> QED BY <1>2, <1>3, <1>4, <1>5 DEF CalendarInv

\* What the interview and its sources become.
LEMMA AppliedInterview ==
  ASSUME CalendarInv, NEW r \in Runs, ApplySync(r), Applies(r)
  PROVE  /\ interview' \in InterviewRows
         /\ sources' \subseteq sources \union {run[r].member}
         /\ run[r].member \in sources' => run[r].member \in sources \/ run[r].copy.state = "eligible"
  <1>0. /\ Busy(r) /\ run[r].copy \in Copies /\ interview \in InterviewRows
    BY BegunTypes DEF ApplySync, Busy, CalendarInv, CalendarTypeOK
  <1>1. run[r].copy.at \in Times
    BY <1>0 DEF Copies
  <1>2. /\ Withdrawn \in InterviewRows
        /\ [interview EXCEPT !.status = "withdrawn", !.at = run[r].copy.at] \in InterviewRows
    BY <1>0, <1>1 DEF Withdrawn, InterviewRows
  <1>3. \/ run[r].copy.state = "eligible" /\ Upsert(r)
        \/ Removed(r)
        \/ Missing(r)
        \/ UNCHANGED <<interview, sources>>
    <2>1. CASE run[r].copy.state = "eligible"
      BY <2>1 DEF ApplySync
    <2>2. CASE run[r].copy.state = "cancelled"
      BY <2>2 DEF ApplySync
    <2>3. CASE run[r].copy.state = "absent" /\ run[r].token = 0
      BY <2>3 DEF ApplySync
    <2>4. CASE run[r].copy.state \notin {"eligible", "cancelled"} /\ ~(run[r].copy.state = "absent" /\ run[r].token = 0)
      BY <2>4 DEF ApplySync
    <2> QED BY <2>1, <2>2, <2>3, <2>4
  <1>4. CASE run[r].copy.state = "eligible" /\ Upsert(r)
    <2>1. run[r].member \in Interviewers
      BY <1>0, BegunTypes DEF CalendarInv
    <2> QED BY <1>0, <1>1, <1>4, <2>1, FoundInterview DEF Upsert, Found
  <1>5. CASE Removed(r)
    BY <1>0, <1>2, <1>5 DEF Removed
  <1>6. CASE Missing(r)
    BY <1>0, <1>2, <1>6 DEF Missing
  <1>7. CASE UNCHANGED <<interview, sources>>
    BY <1>0, <1>7
  <1> QED BY <1>3, <1>4, <1>5, <1>6, <1>7

\* A list is applied: it serves the requests made before it started, and those
\* that began before it are overtaken.
LEMMA AppliedInv ==
  ASSUME CalendarInv, NEW r \in Runs, ApplySync(r), Applies(r)
  PROVE  CalendarInv'
  <1> DEFINE h == Reporting(r, "complete")
             gone == Overtaken(r)
  <1>i. PICK i \in Interviewers : i = run[r].member
    BY BegunTypes DEF ApplySync, Busy, CalendarInv
  <1>0. /\ run[r].step = "apply" /\ Busy(r) /\ run[r] # Resting /\ Proceeds(r, "complete") /\ begun' = Without(gone)
        /\ UNCHANGED <<now, google, job, flow>>
        /\ r \in Applicable /\ Connected(i) /\ integration[i].calendar = run[r].calendar
        /\ integration' = [integration EXCEPT ![i].token = run[r].listed]
        /\ integration[i].generation = run[r].generation
    BY <1>i DEF ApplySync, Busy, Resting, Applies
  <1>1. /\ run' = [run EXCEPT ![r] = h] /\ h \in Claims \union {Resting}
        /\ run[r].queued => h # Resting /\ h.queued /\ h.member = i /\ h.step = "complete"
        /\ \A p \in Runs : p # r => run'[p] = run[p]
    BY <1>0, <1>i, GoesOn
  <1> HIDE DEF h
  <1>2. /\ gone \in SUBSET Runs /\ r \in gone
        /\ \A p \in Runs : p \in gone <=> <<p, r>> \in begun /\ run[p].member = i
    BY <1>i, <1>0 DEF Overtaken, Applicable
  <1> HIDE DEF gone
  <1>3. Applicable' = Applicable \ gone /\ run'[r] = h /\ ~Busy(r)'
    BY <1>0, <1>1, <1>2, Retires
  <1> DEFINE c == [integration[i] EXCEPT !.token = run[r].listed]
  <1>4. /\ RunOK(r) /\ run[r].listed \in Times /\ run[r].listed \in Nat /\ run[r].started \in Nat
        /\ run[r].started <= run[r].listed
        /\ run[r].copy.state = "eligible" => run[r].calendar = "first"
        /\ integration[i] \in Integrations /\ integration \in [Interviewers -> Integrations]
        /\ sources \subseteq Interviewers \union Colleagues
    BY <1>0, BegunTypes, JobTypes DEF CalendarInv, RunOK, CalendarTypeOK
  <1>5. /\ integration' = [integration EXCEPT ![i] = c] /\ c \in Integrations
        /\ c.token = run[r].listed /\ c.status = integration[i].status
        /\ c.generation = integration[i].generation /\ c.calendar = integration[i].calendar
    BY <1>0, <1>4 DEF Integrations
  <1> HIDE DEF c
  <1>6. /\ integration' \in [Interviewers -> Integrations]
        /\ \A k \in Interviewers : integration'[k] = IF k = i THEN c ELSE integration[k]
    BY <1>4, <1>5
  <1>7. ASSUME NEW k \in Interviewers, k # i PROVE JobOK(k)' /\ ServiceOK(k)'
    <2>1. \A q \in Runs : HasLock(q, k) => q \notin gone
      BY <1>2, <1>7 DEF CalendarInv, JobOK
    <2>2. job'[k] = job[k] /\ integration'[k] = integration[k] /\ now' = now
      BY <1>0, <1>6, <1>7
    <2> QED BY <1>0, <1>1, <1>2, <2>1, <2>2, BystandersOK
  <1>8. JobOK(i)'
    <2>1. job[i] # NoJob => job[i].generation <= integration[i].generation /\ job[i].requested <= now
      BY DEF CalendarInv, JobOK
    <2>2. ASSUME NEW q \in Runs, HasLock(q, i)
          PROVE  /\ run'[q] # Resting /\ run'[q].queued /\ run'[q].member = i
                 /\ Busy(q)' => job[i].generation <= run'[q].generation
      <3>1. /\ run[q] # Resting /\ run[q].queued /\ run[q].member = i
            /\ Busy(q) => job[i].generation <= run[q].generation
        BY <2>2 DEF CalendarInv, JobOK
      <3>2. CASE q = r
        BY <1>1, <1>3, <3>1, <3>2
      <3>3. CASE q # r
        BY <1>1, <3>1, <3>3 DEF Busy
      <3> QED BY <3>2, <3>3
    <2> QED BY <1>0, <1>5, <1>6, <2>1, <2>2 DEF JobOK, HasLock
  <1>9. ServiceOK(i)'
    <2> SUFFICES ASSUME NEW q \in Runs, HasLock(q, i), ~job[i].again
                 PROVE  /\ Busy(q)' => job[i].requested <= run'[q].started
                        /\ (Busy(q)' /\ q \notin Applicable') \/ run'[q].step = "complete"
                               => Ended(i)' \/ Served(i)'
      BY <1>0 DEF ServiceOK, HasLock
    <2>1. /\ ServiceOK(i) /\ JobOK(i) /\ job[i] # NoJob /\ job[i].requested \in Nat
          /\ run[q].member = i
          /\ Busy(q) => job[i].requested <= run[q].started /\ run[q].started \in Nat
      BY JobTypes, BegunTypes DEF CalendarInv, ServiceOK, JobOK, HasLock
    <2>2. Busy(q)' => job[i].requested <= run'[q].started
      <3>1. Busy(q)' => Busy(q) /\ run'[q] = run[q]
        BY <1>1, <1>3 DEF Busy
      <3> QED BY <2>1, <3>1
    <2>3. ASSUME (Busy(q)' /\ q \notin Applicable') \/ run'[q].step = "complete" PROVE Ended(i)' \/ Served(i)'
      <3>1. (Ended(i) \/ Served(i)) \/ job[i].requested <= run[r].started
        <4>1. CASE q = r
          BY <1>0, <2>1, <4>1
        <4>2. CASE q # r
          <5>1. run'[q] = run[q] /\ ((Busy(q) /\ (q \notin Applicable \/ q \in gone)) \/ run[q].step = "complete")
            BY <1>1, <1>3, <2>3, <4>2 DEF Busy
          <5>2. CASE (Busy(q) /\ q \notin Applicable) \/ run[q].step = "complete"
            BY <2>1, <5>2 DEF ServiceOK
          <5>3. CASE Busy(q) /\ q \in gone
            <6>1. run[q].started <= run[r].started
              BY <1>2, <5>3 DEF CalendarInv, OrderOK
            <6> QED BY <1>4, <2>1, <5>3, <6>1
          <5> QED BY <5>1, <5>2, <5>3
        <4> QED BY <4>1, <4>2
      <3>2. CASE Ended(i)
        BY <1>0, <1>5, <1>6, <3>2 DEF Ended
      <3>3. Served(i) => job[i].requested <= run[r].started
        BY <1>i, <1>0 DEF Served
      <3>4. CASE job[i].requested <= run[r].started
        <4>1. job[i].requested <= integration'[i].token
          BY <1>4, <1>5, <1>6, <2>1, <3>4
        <4>2. ASSUME NEW p \in Applicable', run'[p].member = i PROVE job[i].requested <= run'[p].started
          <5>1. p \in Runs /\ p \in Applicable /\ p \notin gone /\ p # r /\ run'[p] = run[p]
            BY <1>1, <1>2, <1>3, <4>2 DEF Applicable
          <5>2. <<p, r>> \notin begun
            BY <1>2, <4>2, <5>1
          <5>3. run[r].started <= run[p].started /\ run[p].started \in Nat
            BY <1>0, <5>1, <5>2, BegunTypes DEF CalendarInv, OrderOK
          <5> QED BY <1>4, <2>1, <3>4, <5>1, <5>3
        <4> QED BY <1>0, <4>1, <4>2 DEF Served
      <3> QED BY <3>1, <3>2, <3>3, <3>4
    <2> QED BY <2>2, <2>3
  <1>10. /\ interview' \in InterviewRows
         /\ sources' \subseteq sources \union {i}
         /\ i \in sources' => i \in sources \/ run[r].copy.state = "eligible"
    BY <1>i, AppliedInterview
  <1>11. SourcesAreConnected'
    <2> SUFFICES ASSUME NEW k \in sources' \intersect Interviewers
                 PROVE  integration'[k].status = "ACTIVE" /\ integration'[k].calendar = "first"
      BY DEF SourcesAreConnected, Connected
    <2>1. integration'[k].status = integration[k].status /\ integration'[k].calendar = integration[k].calendar
      BY <1>5, <1>6
    <2>2. CASE k \in sources
      BY <2>1, <2>2 DEF CalendarInv, SourcesAreConnected, Connected
    <2>3. CASE k \notin sources
      BY <1>0, <1>4, <1>10, <2>1, <2>3 DEF Connected
    <2> QED BY <2>2, <2>3
  <1>12. \A k \in Interviewers : /\ integration'[k].status = integration[k].status
                            /\ integration'[k].generation = integration[k].generation
                            /\ integration'[k].calendar = integration[k].calendar
    BY <1>5, <1>6
  <1>13. /\ job' \in [Interviewers -> SyncJobs \union {NoJob}] /\ sources' \subseteq Interviewers \union Colleagues
         /\ UNCHANGED <<now, google, flow>> /\ \A k \in Interviewers : JobOK(k)' /\ ServiceOK(k)'
    BY <1>0, <1>4, <1>7, <1>8, <1>9, <1>10 DEF CalendarInv, CalendarTypeOK
  <1> QED BY <1>0, <1>1, <1>2, <1>6, <1>10, <1>11, <1>12, <1>13, RunLeaves

-----------------------------------------------------------------------------
(* The whole system *)

LEMMA CalendarInvInit == CalendarInit => CalendarInv
  <1> SUFFICES ASSUME CalendarInit PROVE CalendarInv
    OBVIOUS
  <1>1. 0 \in Times /\ 1 \in Times /\ 0 \in Nat
    BY CalendarBoundsAssumption DEF Times
  <1>2. CalendarTypeOK
    BY <1>1 DEF CalendarInit, CalendarTypeOK, Copies, Absent, Integrations, InterviewRows
  <1>3. (\A r \in Runs : run[r] = Resting /\ ~Busy(r)) /\ Applicable = {}
    BY DEF CalendarInit, Busy, Resting, Applicable
  <1>4. \A i \in Interviewers : job[i] = NoJob
    BY DEF CalendarInit
  <1>5. OrderOK /\ (\A r \in Runs : RunOK(r)) /\ \A i \in Interviewers : JobOK(i) /\ ServiceOK(i)
    BY <1>3, <1>4 DEF CalendarInit, OrderOK, RunOK, JobOK, ServiceOK, HasLock
  <1>6. SourcesAreConnected
    <2>1. CASE sources \intersect Interviewers = {}
      BY <2>1 DEF SourcesAreConnected
    <2> QED BY <2>1, ColleaguesAssumption DEF CalendarInit
  <1> QED BY <1>2, <1>5, <1>6 DEF CalendarInv

LEMMA CalendarInvNext == CalendarInv /\ [CalendarNext]_calendarVars => CalendarInv'
  <1> SUFFICES ASSUME CalendarInv, [CalendarNext]_calendarVars PROVE CalendarInv'
    OBVIOUS
  <1>1. CASE UNCHANGED calendarVars
    BY <1>1, ZenonT(30) DEF calendarVars, CalendarInv, CalendarTypeOK, OrderOK, RunOK, JobOK, ServiceOK, HasLock, Busy, Ended, Served,
                Applicable, SourcesAreConnected, Connected
  <1>2. ASSUME NEW copies \in SUBSET Interviewers, CalendarChanges(copies) PROVE CalendarInv'
    BY <1>2, ChangesInv
  <1>3. ASSUME NEW i \in Interviewers, EnqueueChannel(i) \/ EnqueueStale(i) \/ Finish(i) PROVE CalendarInv'
    BY <1>3, RequestsInv
  <1>4. ASSUME NEW i \in Interviewers,
               \/ Disconnect(i) \/ TouchChannel(i)
               \/ \E calendar \in {"first", "second"} : UpsertIntegration(i, calendar)
        PROVE  CalendarInv'
    BY <1>4, ConnectionsInv
  <1>5. ASSUME NEW r \in Runs, NEW i \in Interviewers, ClaimJob(r, i) PROVE CalendarInv'
    BY <1>5, ClaimedInv
  <1>6. ASSUME NEW r \in Runs, RunSyncJob(r) \/ \E i \in Interviewers : Sync(r, i) PROVE CalendarInv'
    BY <1>6, StartsInv
  <1>7. ASSUME NEW r \in Runs, MarkReauth(r) PROVE CalendarInv'
    BY <1>7, ReauthInv
  <1>8. ASSUME NEW r \in Runs, ListEvents(r) PROVE CalendarInv'
    BY <1>8, ListEventsInv
  <1>9. ASSUME NEW r \in Runs, ApplySync(r) PROVE CalendarInv'
    BY <1>9, VoidInv, AppliedInv
  <1>10. ASSUME NEW r \in Runs, CompleteSyncJob(r) \/ FailSyncJob(r) PROVE CalendarInv'
    BY <1>10, EndsInv
  <1>11. ASSUME NEW k \in Colleagues, FoundByColleague(k) PROVE CalendarInv'
    BY <1>11, ColleagueInv
  <1> QED BY <1>1, <1>2, <1>3, <1>4, <1>5, <1>6, <1>7, <1>8, <1>9, <1>10, <1>11 DEF CalendarNext

\* Every reachable state satisfies the inductive invariant: the order of the
\* synchronizations, what they, their jobs and their connections know of one another.
THEOREM CalendarInvariance == CalendarSpec => []CalendarInv
  <1>1. CalendarInit => CalendarInv
    BY CalendarInvInit
  <1>2. CalendarInv /\ [CalendarNext]_calendarVars => CalendarInv'
    BY CalendarInvNext
  <1> QED BY <1>1, <1>2, PTL DEF CalendarSpec

\* The meeting is known only through calendars that are connected now: what an old
\* synchronization brings home after a disconnection or a change of calendar is
\* not applied (google-calendar.service.ts, applySync).
THEOREM NothingOutlivesItsConnection == CalendarSpec => []SourcesAreConnected
  <1>1. CalendarInv => SourcesAreConnected
    BY DEF CalendarInv
  <1> QED BY <1>1, CalendarInvariance, PTL

-----------------------------------------------------------------------------
(* What a step may never do *)

\* A job goes away with its connection, or when a run completes it that still has
\* it and was not asked again.
LEMMA JobsAreServed ==
  ASSUME CalendarInv, CalendarNext, NEW i \in Interviewers, job[i] # NoJob, job'[i] = NoJob,
         integration'[i].status = "ACTIVE", integration'[i].generation = job[i].generation
  PROVE  integration[i].token >= job[i].requested
  <1>0. /\ job \in [Interviewers -> SyncJobs \union {NoJob}] /\ integration \in [Interviewers -> Integrations]
        /\ integration[i].generation \in Nat /\ integration[i] \in Integrations
        /\ job[i] \in SyncJobs /\ job[i].generation \in Nat /\ job[i].requested \in Nat
        /\ integration[i].token \in Nat /\ job[i].generation <= integration[i].generation
    BY JobTypes DEF CalendarInv, CalendarTypeOK, JobOK
  <1>1. \A j \in SyncJobs : j # NoJob
    BY FreeLock
  <1>2. ASSUME UNCHANGED job PROVE FALSE
    BY <1>2
  <1>3. ASSUME NEW k \in Interviewers, EnqueueChannel(k) \/ EnqueueStale(k) \/ Finish(k) PROVE FALSE
    <2>1. UNCHANGED job \/ \E j \in SyncJobs : job' = [job EXCEPT ![k] = j]
      <3> DEFINE g == integration[k].generation
      <3>0. g \in Nat
        BY JobTypes DEF CalendarInv
      <3>1. Asked(k, g) \in SyncJobs
        BY <3>0, AskedJob
      <3>2. CASE EnqueueChannel(k) \/ EnqueueStale(k)
        BY <3>1, <3>2 DEF EnqueueChannel, EnqueueStale
      <3>3. CASE Finish(k)
        <4> DEFINE asked == Asked(k, g)
                   mine == [asked EXCEPT !.generation = g]
                   freed == [mine EXCEPT !.lock = IF job[k] # NoJob /\ job[k].generation = g
                                                  THEN asked.lock ELSE "free"]
                   j == [freed EXCEPT !.again = asked.again /\ job[k].generation = g]
        <4>1. UNCHANGED job \/ job' = [job EXCEPT ![k] = j]
          BY <3>1, <3>3 DEF Finish, EnqueueById, SyncJobs
        <4> HIDE DEF asked
        <4>2. mine \in SyncJobs /\ asked.lock \in Runs \union {"free"} /\ asked.again \in BOOLEAN
          BY <3>0, <3>1 DEF SyncJobs, asked
        <4> HIDE DEF mine
        <4>3. freed \in SyncJobs
          BY <4>2 DEF SyncJobs
        <4> HIDE DEF freed
        <4>4. j \in SyncJobs
          BY <4>2, <4>3 DEF SyncJobs
        <4> HIDE DEF j
        <4> QED BY <4>1, <4>4
      <3> QED BY <1>3, <3>2, <3>3
    <2> QED BY <1>0, <1>1, <2>1
  <1>4. ASSUME NEW k \in Interviewers, Disconnect(k) PROVE FALSE
    <2>1. k = i
      BY <1>0, <1>4 DEF Disconnect
    <2>2. integration'[i].status = "NOT_CONNECTED"
      BY <1>0, <1>4, <2>1 DEF Disconnect, Integrations
    <2> QED BY <2>2
  <1>5. ASSUME NEW k \in Interviewers, NEW calendar \in {"first", "second"}, UpsertIntegration(k, calendar) PROVE FALSE
    <2>1. k = i
      BY <1>0, <1>5 DEF UpsertIntegration
    <2>2. integration'[i].generation = integration[i].generation + 1
      <3>1. integration'[i] = Reconnected(i, calendar)
        BY <1>0, <1>5, <2>1 DEF UpsertIntegration
      <3> QED BY <3>1, StoredConnection
    <2> QED BY <1>0, <2>2
  <1>6. ASSUME NEW r \in Runs, NEW k \in Interviewers, ClaimJob(r, k) PROVE FALSE
    <2>1. job[k] \in SyncJobs
      BY <1>6, JobTypes DEF ClaimJob, CalendarInv
    <2>2. [job[k] EXCEPT !.lock = r] \in SyncJobs
      BY <2>1 DEF SyncJobs
    <2> DEFINE mine == [job[k] EXCEPT !.lock = r]
               j == [mine EXCEPT !.again = FALSE]
    <2>3. job' = [job EXCEPT ![k] = j]
      BY <1>0, <1>6, <2>1 DEF ClaimJob, SyncJobs
    <2> HIDE DEF mine
    <2>4. j \in SyncJobs
      BY <2>2 DEF SyncJobs, mine
    <2> HIDE DEF j
    <2> QED BY <1>0, <1>1, <2>3, <2>4
  <1>7. ASSUME NEW r \in Runs, FailSyncJob(r) PROVE FALSE
    <2>1. \/ UNCHANGED job
          \/ HoldsJob(r) /\ job' = [job EXCEPT ![run[r].member] = FreedJob(job[run[r].member])]
      BY <1>7 DEF FailSyncJob
    <2>2. HoldsJob(r) => run[r].member \in Interviewers /\ job[run[r].member] \in SyncJobs
      <3>1. run[r].member \in Interviewers
        BY <1>7, RowTypes DEF FailSyncJob, CalendarInv
      <3> QED BY <3>1, JobTypes DEF HoldsJob, CalendarInv
    <2>3. HoldsJob(r) => FreedJob(job[run[r].member]) \in SyncJobs
      BY <2>2, UnlockedJob
    <2> QED BY <1>0, <1>1, <2>1, <2>2, <2>3
  <1>8. ASSUME NEW r \in Runs, CompleteSyncJob(r) PROVE integration[i].token >= job[i].requested
    <2>1. run[r].member \in Interviewers
      BY <1>8, RowTypes DEF CompleteSyncJob, CalendarInv, Resting
    <2>2. UNCHANGED integration /\ run[r].step = "complete"
      BY <1>8 DEF CompleteSyncJob
    <2>3. HoldsJob(r)
      BY <1>2, <1>8 DEF CompleteSyncJob
    <2>4. job[run[r].member] \in SyncJobs
      BY <2>1, <2>3, JobTypes DEF HoldsJob, CalendarInv
    <2>5. job' = [job EXCEPT ![run[r].member] = IF job[run[r].member].again
                                                THEN FreedJob(job[run[r].member]) ELSE NoJob]
      BY <1>8, <2>3 DEF CompleteSyncJob
    <2>6. run[r].member = i
      BY <1>0, <2>1, <2>5
    <2>7. ~job[i].again
      <3>1. FreedJob(job[i]) # NoJob
        BY <1>0, <1>1, UnlockedJob
      <3> QED BY <1>0, <2>5, <2>6, <3>1
    <2>8. HasLock(r, i)
      BY <2>3, <2>6 DEF HoldsJob, HasLock
    <2>9. Ended(i) \/ Served(i)
      BY <2>2, <2>7, <2>8 DEF CalendarInv, ServiceOK
    <2> QED BY <1>0, <2>2, <2>9 DEF Ended, Served
  <1>9. ASSUME NEW r \in Runs, NEW k \in Interviewers, Sync(r, k) PROVE FALSE
    BY <1>2, <1>9 DEF Sync, Begins
  <1>10. ASSUME NEW r \in Runs, RunSyncJob(r) \/ MarkReauth(r) \/ ListEvents(r) \/ ApplySync(r) PROVE FALSE
    BY <1>2, <1>10 DEF RunSyncJob, Begins, MarkReauth, ListEvents, ApplySync
  <1>11. ASSUME NEW copies \in SUBSET Interviewers, CalendarChanges(copies) PROVE FALSE
    BY <1>2, <1>11 DEF CalendarChanges
  <1>12. ASSUME NEW k \in Interviewers, TouchChannel(k) PROVE FALSE
    BY <1>2, <1>12 DEF TouchChannel
  <1>13. ASSUME NEW k \in Colleagues, FoundByColleague(k) PROVE FALSE
    BY <1>2, <1>13 DEF FoundByColleague
  <1> QED BY <1>3, <1>4, <1>5, <1>6, <1>7, <1>8, <1>9, <1>10, <1>11, <1>12, <1>13 DEF CalendarNext

\* A request for a synchronization goes away only once a list drawn up after it has
\* been applied, or with its connection: locks that run out, runs that overtake one
\* another and requests in the middle of a run lose none (complete_google_calendar_sync_job).
THEOREM NoRequestIsLost == CalendarSpec => RequestsAreServed
  <1>1. CalendarInv /\ [CalendarNext]_calendarVars =>
          [\A i \in Interviewers :
              (job[i] # NoJob /\ job'[i] = NoJob /\ integration'[i].status = "ACTIVE"
                  /\ integration'[i].generation = job[i].generation)
              => integration[i].token >= job[i].requested]_calendarVars
    BY JobsAreServed
  <1> QED BY <1>1, CalendarInvariance, PTL DEF CalendarSpec, RequestsAreServed

\* While somebody still has the meeting, its interview is withdrawn only with the
\* connection in whose calendar it was first found: by no list and no cancellation
\* (authenti8_apply_calendar_sync), and with nobody else's connection
\* (authenti8_cleanup_replaced_google_calendar).
THEOREM SharedInterviewsStay == CalendarSpec => SharedInterviewStays
  <1> DEFINE Withdraws == interview.status = "live" /\ interview'.status = "withdrawn" /\ sources' # {}
             First(i) == Connected(i) /\ integration[i].calendar = "first"
             Loses(i) == i \in Interviewers /\ First(i) /\ (integration'[i].status # "ACTIVE" \/ integration'[i].calendar = "second")
  <1>1. ASSUME CalendarInv, CalendarNext, Withdraws PROVE Loses(interview.origin)
    <2>0. /\ UNCHANGED interview => FALSE
          /\ integration \in [Interviewers -> Integrations]
          /\ interview \in InterviewRows
      BY <1>1 DEF CalendarInv, CalendarTypeOK
    <2>1. ASSUME NEW i \in Interviewers, DropSource(i)
          PROVE  interview.origin = i /\ integration[i].calendar = "first"
      BY <1>1, <2>0, <2>1 DEF DropSource
    <2>2. ASSUME NEW r \in Runs, ApplySync(r) PROVE FALSE
      <3>1. \/ Upsert(r)
            \/ Removed(r)
            \/ Missing(r)
        <4>1. CASE run[r].copy.state = "eligible"
          BY <2>0, <2>2, <4>1 DEF ApplySync
        <4>2. CASE run[r].copy.state = "cancelled"
          BY <2>0, <2>2, <4>2 DEF ApplySync
        <4>3. CASE run[r].copy.state = "absent" /\ run[r].token = 0
          BY <2>0, <2>2, <4>3 DEF ApplySync
        <4>4. CASE run[r].copy.state \notin {"eligible", "cancelled"} /\ ~(run[r].copy.state = "absent" /\ run[r].token = 0)
          BY <2>0, <2>2, <4>4 DEF ApplySync
        <4> QED BY <4>1, <4>2, <4>3, <4>4
      <3>2. ~Upsert(r)
        BY <1>1, <2>0, FoundIsLive DEF Upsert
      <3>3. ~Removed(r)
        BY <1>1, <2>0 DEF Removed
      <3>4. ~Missing(r)
        BY <1>1, <2>0 DEF Missing
      <3> QED BY <3>1, <3>2, <3>3, <3>4
    <2>3. ASSUME NEW i \in Interviewers, Connected(i), AccessRefused(i) PROVE Loses(interview.origin)
      <3>1. integration'[i].status = "REAUTH_REQUIRED"
        BY <2>0, <2>3 DEF AccessRefused, Integrations
      <3> QED BY <2>1, <2>3, <3>1 DEF AccessRefused, Connected
    <2>4. ASSUME NEW r \in Runs, MarkReauth(r) PROVE Loses(interview.origin)
      <3>1. run[r].member \in Interviewers
        BY <1>1, <2>4, BegunTypes DEF MarkReauth, Busy, CalendarInv
      <3> QED BY <2>0, <2>3, <2>4, <3>1 DEF MarkReauth
    <2>5. ASSUME NEW i \in Interviewers, Disconnect(i) PROVE Loses(interview.origin)
      <3>1. integration'[i].status = "NOT_CONNECTED"
        BY <2>0, <2>5 DEF Disconnect, Integrations
      <3>2. Connected(i) /\ DropSource(i)
        BY <2>0, <2>5 DEF Disconnect
      <3> QED BY <2>1, <3>1, <3>2 DEF Connected
    <2>6. ASSUME NEW i \in Interviewers, TouchChannel(i) PROVE Loses(interview.origin)
      BY <2>3, <2>6 DEF TouchChannel
    <2>7. ASSUME NEW i \in Interviewers, NEW calendar \in {"first", "second"}, UpsertIntegration(i, calendar)
          PROVE  Loses(interview.origin)
      <3>1. Changes(i, calendar) /\ Connected(i) /\ DropSource(i)
        BY <2>0, <2>7 DEF UpsertIntegration
      <3>2. integration'[i].calendar = calendar
        BY <2>0, <2>7 DEF UpsertIntegration, Reconnected
      <3> QED BY <2>1, <3>1, <3>2 DEF Changes
    <2>8. ASSUME NEW i \in Interviewers, EnqueueChannel(i) \/ EnqueueStale(i) \/ Finish(i) PROVE FALSE
      BY <2>0, <2>8 DEF EnqueueChannel, EnqueueStale, Finish
    <2>9. ASSUME NEW r \in Runs, \/ \E i \in Interviewers : ClaimJob(r, i) \/ Sync(r, i)
                                 \/ RunSyncJob(r) \/ ListEvents(r) \/ CompleteSyncJob(r) \/ FailSyncJob(r)
          PROVE  FALSE
      BY <2>0, <2>9 DEF ClaimJob, Sync, Begins, RunSyncJob, ListEvents, CompleteSyncJob, FailSyncJob
    <2>10. ASSUME NEW copies \in SUBSET Interviewers, CalendarChanges(copies) PROVE FALSE
      BY <2>0, <2>10 DEF CalendarChanges
    <2>11. ASSUME NEW k \in Colleagues, FoundByColleague(k) PROVE FALSE
      BY <1>1, <2>0, <2>11, FoundIsLive DEF FoundByColleague
    <2> QED BY <1>1, <2>2, <2>4, <2>5, <2>6, <2>7, <2>8, <2>9, <2>10, <2>11 DEF CalendarNext
  <1>2. CalendarInv /\ [CalendarNext]_calendarVars => [Withdraws => Loses(interview.origin)]_calendarVars
    BY <1>1
  <1> QED BY <1>2, CalendarInvariance, PTL DEF CalendarSpec, SharedInterviewStays
=============================================================================
