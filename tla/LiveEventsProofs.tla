-------------------------- MODULE LiveEventsProofs --------------------------
(***************************************************************************)
(* The live log, for any panels, writers, sequences and faults; the decisions *)
(* on detections, for any rules, packs, times and signals; and the update of   *)
(* the verifier, for any manifests, failures and interruptions.              *)
(***************************************************************************)
EXTENDS Detections, LiveLogs, SequenceTheorems, FiniteSetTheorems, WellFoundedInduction, TLAPS

-----------------------------------------------------------------------------
(* The live log: the inductive invariant *)

\* What an open transaction inserts is above the log, and there is one at most.
Written ==
    /\ \A s \in log : s < nextId
    /\ \A w \in Writers : \A o \in open[w] : o < nextId /\ \A s \in log : s < o
    /\ \A v, w \in Writers : open[v] # {} /\ open[w] # {} => v = w

\* A panel streams while it is subscribed, and only then is something on its way to it.
Streams(p) ==
    /\ p \in DOMAIN feed.cursors => phase[p] = "stream"
    /\ channel[p] # {} => p \in DOMAIN feed.cursors
    /\ shown[p] \subseteq log /\ channel[p] \subseteq log

\* A panel shows the log up to its cursor.
Shows(p) == \A s \in log : s <= Cursor(p) => s \in shown[p]

\* The rest up to the cursor that the feed keeps for it is on its way, in this order.
InStep(p) ==
    /\ \A s \in channel[p] : Cursor(p) < s /\ s <= feed.cursors[p]
    /\ p \in DOMAIN feed.cursors =>
         /\ feed.cursors[p] \in log \union {0}
         /\ Cursor(p) <= feed.cursors[p]
         /\ \A s \in log : s <= feed.cursors[p] => s \in shown[p] \union channel[p]

\* A poll reads from a cursor that none of its participants is behind.
Polls ==
    /\ feed.poll # "none" => DOMAIN feed.cursors # {}
    /\ feed.poll = "reading" => \A p \in feed.participants : feed.after <= feed.cursors[p]

Follows(p) == Streams(p) /\ Shows(p) /\ InStep(p)

LogInv == LogTypeOK /\ Written /\ Polls /\ \A p \in Panels : Follows(p)

-----------------------------------------------------------------------------
(* The least and the greatest of some sequences, and a page of the log *)

LEMMA LeastIsLeast ==
  ASSUME NEW S, S \subseteq Nat, S # {}
  PROVE  Min(S) \in S /\ \A x \in S : Min(S) <= x
  <1>1. PICK m \in S : \A y \in S : ~ (<<y, m>> \in OpToRel(<, Nat))
    BY WFMin, NatLessThanWellFounded
  <1>2. \A y \in S : m <= y
    <2> TAKE y \in S
    <2>1. m \in Nat /\ y \in Nat
      OBVIOUS
    <2>2. y < m => <<y, m>> \in OpToRel(<, Nat)
      BY <2>1, Zenon DEF OpToRel
    <2>3. ~ (y < m)
      BY <1>1, <2>2, Zenon
    <2> QED BY <2>1, <2>3
  <1> QED BY <1>2 DEF Min

LEMMA GreatestIsGreatest ==
  ASSUME NEW n \in Nat, NEW S, S \subseteq 0 .. n, S # {}
  PROVE  Max(S) \in S /\ \A x \in S : x <= Max(S)
  <1> DEFINE R == {n - x : x \in S}
  <1>1. R \subseteq Nat /\ R # {}
    <2>1. \A x \in S : n - x \in Nat
      OBVIOUS
    <2> QED BY <2>1
  <1>2. Min(R) \in R /\ \A y \in R : Min(R) <= y
    BY <1>1, LeastIsLeast
  <1>3. PICK m \in S : Min(R) = n - m
    BY <1>2
  <1>4. \A x \in S : n - m <= n - x
    BY <1>2, <1>3
  <1>5. \A x \in S : x <= m
    <2> TAKE x \in S
    <2>1. n - m <= n - x
      BY <1>4
    <2>2. m \in Int /\ x \in Int /\ n \in Int
      OBVIOUS
    <2> QED BY <2>1, <2>2
  <1>6. \A x \in S : m >= x
    BY <1>5
  <1> QED BY <1>5, <1>6 DEF Max

\* A page misses nothing up to its last event.
LEMMA PageIsPrefix ==
  ASSUME log \subseteq Sequence, MaxSequence \in Nat, PageLimit \in Nat \ {0}, NEW after \in Nat
  PROVE  /\ Page(after) \subseteq log
         /\ \A s \in Page(after) : s > after
         /\ \A s \in Page(after) : \A t \in log : t > after /\ t <= s => t \in Page(after)
  <1>1. Page(after) \subseteq log /\ \A s \in Page(after) : s > after
    BY DEF Page
  <1>2. ASSUME NEW s \in Page(after), NEW t \in log, t > after, t <= s
        PROVE  t \in Page(after)
    <2> DEFINE Below(u) == {v \in log : v > after /\ v < u}
    <2>1. s \in log /\ Cardinality(Below(s)) < PageLimit
      BY <1>2 DEF Page
    <2>2. IsFiniteSet(log)
      <3>1. IsFiniteSet(1 .. MaxSequence)
        BY FS_Interval
      <3>2. log \in SUBSET (1 .. MaxSequence)
        BY DEF Sequence
      <3> QED BY <3>1, <3>2, FS_Subset
    <2>3. IsFiniteSet(Below(s))
      BY <2>2, FS_Subset
    <2>4. Below(t) \subseteq Below(s)
      <3> SUFFICES ASSUME NEW v \in log, v > after, v < t
                   PROVE  v < s
        BY DEF Below
      <3>1. {v, s, t} \subseteq Nat
        BY <1>2, <2>1 DEF Sequence
      <3> QED BY <1>2, <3>1
    <2>5. IsFiniteSet(Below(t)) /\ Cardinality(Below(t)) <= Cardinality(Below(s))
      BY <2>3, <2>4, FS_Subset
    <2>6. Cardinality(Below(s)) \in Nat /\ Cardinality(Below(t)) \in Nat
      BY <2>3, <2>5, FS_CardinalityType
    <2>7. Cardinality(Below(t)) < PageLimit
      BY <2>1, <2>5, <2>6
    <2> QED BY <1>2, <2>7 DEF Page
  <1> QED BY <1>1, <1>2

LEMMA CursorOf ==
  ASSUME NEW S, S \subseteq Sequence
  PROVE  /\ Max(S \union {0}) \in 0 .. MaxSequence /\ Max(S \union {0}) \in S \union {0}
         /\ \A s \in S : s <= Max(S \union {0})
  <1>1. MaxSequence \in Nat
    BY BoundsAssumption
  <1>2. S \union {0} \subseteq 0 .. MaxSequence /\ S \union {0} # {}
    BY <1>1 DEF Sequence
  <1> QED BY <1>1, <1>2, GreatestIsGreatest

-----------------------------------------------------------------------------
(* The record of the feed *)

LEMMA FeedIsTyped ==
  ASSUME LogTypeOK
  PROVE  /\ feed = [poll |-> feed.poll, after |-> feed.after, cursors |-> feed.cursors,
                    participants |-> feed.participants]
         /\ feed.poll \in {"none", "scheduled", "reading"} /\ feed.after \in 0 .. MaxSequence
         /\ DOMAIN feed.cursors \subseteq Panels
         /\ feed.cursors \in [DOMAIN feed.cursors -> 0 .. MaxSequence]
         /\ feed.participants \subseteq DOMAIN feed.cursors
  <1> DEFINE Tables == UNION {[tabs -> 0 .. MaxSequence] : tabs \in SUBSET Panels}
  <1>1. /\ feed \in [poll : {"none", "scheduled", "reading"}, after : 0 .. MaxSequence,
                     cursors : Tables, participants : SUBSET Panels]
        /\ feed.participants \subseteq DOMAIN feed.cursors
    BY DEF LogTypeOK
  <1>2. feed.cursors \in Tables
    <2> HIDE DEF Tables
    <2> QED BY <1>1
  <1>3. PICK tabs \in SUBSET Panels : feed.cursors \in [tabs -> 0 .. MaxSequence]
    BY <1>2
  <1>4. DOMAIN feed.cursors = tabs
    BY <1>3
  <1>5. DOMAIN feed.cursors \subseteq Panels /\ feed.cursors \in [DOMAIN feed.cursors -> 0 .. MaxSequence]
    BY <1>3, <1>4
  <1>6. /\ feed = [poll |-> feed.poll, after |-> feed.after, cursors |-> feed.cursors,
                    participants |-> feed.participants]
        /\ feed.poll \in {"none", "scheduled", "reading"} /\ feed.after \in 0 .. MaxSequence
    <2> HIDE DEF Tables
    <2> QED BY <1>1
  <1> QED BY <1>1, <1>5, <1>6

\* What has these fields is typed.
LEMMA FeedIsMade ==
  ASSUME NEW tabs \in SUBSET Panels, NEW cursors \in [tabs -> 0 .. MaxSequence],
         NEW poll \in {"none", "scheduled", "reading"}, NEW after \in 0 .. MaxSequence,
         NEW participants \in SUBSET tabs
  PROVE  [poll |-> poll, after |-> after, cursors |-> cursors, participants |-> participants]
         \in [poll : {"none", "scheduled", "reading"}, after : 0 .. MaxSequence,
              cursors : UNION {[u -> 0 .. MaxSequence] : u \in SUBSET Panels},
              participants : SUBSET Panels]
  OBVIOUS

-----------------------------------------------------------------------------
(* Every step preserves the invariant *)

LEMMA LogInitially == LogInit => LogInv
  <1> SUFFICES ASSUME LogInit PROVE LogInv
    OBVIOUS
  <1> USE DEF LogInit
  <1>1. MaxSequence \in Nat /\ MaxFaults \in Nat
    BY BoundsAssumption
  <1>2. NoCursors \in [{} -> 0 .. MaxSequence] /\ DOMAIN NoCursors = {}
    BY DEF NoCursors
  <1>3. feed \in [poll : {"none", "scheduled", "reading"}, after : 0 .. MaxSequence,
                 cursors : UNION {[u -> 0 .. MaxSequence] : u \in SUBSET Panels},
                 participants : SUBSET Panels]
    <2>1. 0 \in 0 .. MaxSequence /\ {} \in SUBSET Panels /\ {} \in SUBSET {}
      BY <1>1
    <2> QED BY <1>2, <2>1, FeedIsMade DEF NoFeed
  <1>4. LogTypeOK
    <2>1. nextId \in 1 .. (MaxSequence + 1) /\ faults \in 0 .. MaxFaults /\ log \subseteq Sequence
      BY <1>1
    <2>2. /\ open \in [Writers -> SUBSET Sequence] /\ shown \in [Panels -> SUBSET Sequence]
          /\ channel \in [Panels -> SUBSET Sequence]
          /\ phase \in [Panels -> {"discover", "load", "connect", "stream"}]
      OBVIOUS
    <2>3. feed.participants \subseteq DOMAIN feed.cursors
      BY DEF NoFeed
    <2> QED BY <1>3, <2>1, <2>2, <2>3 DEF LogTypeOK
  <1>5. Written /\ Polls
    BY <1>2 DEF Written, Polls, NoFeed
  <1>6. \A p \in Panels : Follows(p)
    BY <1>2 DEF Follows, Streams, Shows, InStep, NoFeed
  <1> QED BY <1>4, <1>5, <1>6 DEF LogInv

\* What a step does not do to a panel.
LEMMA PanelUntouched ==
  ASSUME NEW p \in Panels, Follows(p), log' = log, phase'[p] = phase[p], shown'[p] = shown[p],
         channel'[p] = channel[p], p \in DOMAIN feed'.cursors <=> p \in DOMAIN feed.cursors,
         p \in DOMAIN feed.cursors => feed'.cursors[p] = feed.cursors[p]
  PROVE  Follows(p)'
  BY DEF Follows, Streams, Shows, InStep, Cursor

\* What is subscribed to nothing has nothing on its way.
LEMMA Detached ==
  ASSUME NEW p \in Panels, Follows(p), phase[p] # "stream"
  PROVE  p \notin DOMAIN feed.cursors /\ channel[p] = {}
  BY DEF Follows, Streams

LEMMA WriteEventsStep ==
  ASSUME LogInv, NEW w \in Writers, WriteEvents(w)
  PROVE  LogInv'
  <1> USE DEF WriteEvents
  <1>1. PICK n \in 1 .. 2 : /\ nextId + n <= MaxSequence + 1
                            /\ open' = [open EXCEPT ![w] = nextId .. (nextId + n - 1)]
                            /\ nextId' = nextId + n
    OBVIOUS
  <1>2. LogTypeOK /\ MaxSequence \in Nat
    BY BoundsAssumption DEF LogInv
  <1>3. nextId \in 1 .. (MaxSequence + 1) /\ open \in [Writers -> SUBSET Sequence] /\ log \subseteq Nat
    BY <1>2 DEF LogTypeOK, Sequence
  <1>4. nextId \in Nat /\ nextId' \in 1 .. (MaxSequence + 1) /\ nextId < nextId'
    BY <1>1, <1>2, <1>3
  <1>5. nextId .. (nextId + n - 1) \in SUBSET Sequence
    BY <1>1, <1>2, <1>3 DEF Sequence
  <1>6. open' \in [Writers -> SUBSET Sequence]
    BY <1>1, <1>3, <1>5
  <1>7. LogTypeOK'
    BY <1>2, <1>4, <1>6 DEF LogTypeOK, panelVars
  <1>8. Written'
    <2>1. \A s \in log' : s < nextId'
      <3> TAKE s \in log'
      <3>1. s < nextId /\ s \in Nat
        BY <1>3 DEF LogInv, Written
      <3> QED BY <1>3, <1>4, <3>1
    <2>2. \A v \in Writers : open'[v] = IF v = w THEN nextId .. (nextId + n - 1) ELSE {}
      BY <1>1, <1>3 DEF SessionUnlocked
    <2>3. \A v \in Writers : \A o \in open'[v] : o < nextId' /\ \A s \in log' : s < o
      <3> SUFFICES ASSUME NEW o \in nextId .. (nextId + n - 1), NEW s \in log
                   PROVE  o < nextId' /\ s < o
        BY <2>2, <1>1, <1>4
      <3>1. o < nextId' /\ nextId <= o /\ o \in Nat
        BY <1>1, <1>4
      <3>2. s < nextId /\ s \in Nat
        BY <1>3 DEF LogInv, Written
      <3> QED BY <1>4, <3>1, <3>2
    <2>4. \A u, v \in Writers : open'[u] # {} /\ open'[v] # {} => u = v
      BY <2>2
    <2> QED BY <2>1, <2>3, <2>4 DEF Written
  <1>9. Polls' /\ \A p \in Panels : Follows(p)'
    BY PanelUntouched DEF LogInv, Polls, panelVars
  <1> QED BY <1>7, <1>8, <1>9 DEF LogInv

LEMMA CommitStep ==
  ASSUME LogInv, NEW w \in Writers, Commit(w)
  PROVE  LogInv'
  <1> USE DEF Commit
  <1>1. LogTypeOK /\ Written /\ MaxSequence \in Nat
    BY BoundsAssumption DEF LogInv
  <1>2. open \in [Writers -> SUBSET Sequence] /\ log \subseteq Sequence
    BY <1>1 DEF LogTypeOK
  <1>3. open' \in [Writers -> SUBSET Sequence] /\ log' \subseteq Sequence
    BY <1>2
  <1>4. LogTypeOK'
    BY <1>1, <1>3 DEF LogTypeOK, panelVars
  <1>5. \A v \in Writers : open'[v] = {}
    BY <1>1, <1>2 DEF Written
  <1>6. Written'
    BY <1>1, <1>2, <1>5 DEF Written
  <1>7. Polls'
    BY DEF LogInv, Polls
  <1>8. \A c \in log \union {0} : \A s \in open[w] : ~ (s <= c)
    <2> TAKE c \in log \union {0}
    <2> TAKE s \in open[w]
    <2>1. s \in Nat \ {0} /\ c \in Nat
      BY <1>2 DEF Sequence
    <2>2. c < s
      BY <1>1, <2>1 DEF Written
    <2> QED BY <2>1, <2>2
  <1>9. ASSUME NEW p \in Panels
        PROVE  Follows(p)'
    <2>1. Follows(p) /\ shown[p] \subseteq log
      BY DEF LogInv, Follows, Streams
    <2>2. Cursor(p) \in log \union {0}
      BY <1>2, <2>1, CursorOf DEF Cursor
    <2>3. Cursor(p)' = Cursor(p)
      BY DEF Cursor, panelVars
    <2>4. Streams(p)'
      BY <2>1 DEF Follows, Streams, panelVars
    <2>5. Shows(p)'
      <3> SUFFICES ASSUME NEW s \in log', s <= Cursor(p)
                   PROVE  s \in shown[p]
        BY <2>3 DEF Shows, panelVars
      <3>1. s \in log
        BY <1>8, <2>2
      <3> QED BY <2>1, <3>1 DEF Follows, Shows
    <2>6. InStep(p)'
      <3>1. \A s \in channel'[p] : Cursor(p)' < s /\ s <= feed'.cursors[p]
        BY <2>1, <2>3 DEF Follows, InStep
      <3>2. ASSUME p \in DOMAIN feed'.cursors
            PROVE  /\ feed'.cursors[p] \in log' \union {0}
                   /\ Cursor(p)' <= feed'.cursors[p]
                   /\ \A s \in log' : s <= feed'.cursors[p] => s \in shown'[p] \union channel'[p]
        <4>1. feed.cursors[p] \in log \union {0} /\ Cursor(p) <= feed.cursors[p]
          BY <2>1, <3>2 DEF Follows, InStep
        <4>2. ASSUME NEW s \in log', s <= feed.cursors[p]
              PROVE  s \in shown[p] \union channel[p]
          <5>1. s \in log
            BY <1>8, <4>1, <4>2
          <5> QED BY <2>1, <3>2, <4>2, <5>1 DEF Follows, InStep
        <4> QED BY <2>3, <4>1, <4>2 DEF panelVars
      <3> QED BY <3>1, <3>2 DEF InStep
    <2> QED BY <2>4, <2>5, <2>6 DEF Follows
  <1> QED BY <1>4, <1>6, <1>7, <1>9 DEF LogInv

LEMMA AbortStep ==
  ASSUME LogInv, NEW w \in Writers, Abort(w)
  PROVE  LogInv'
  <1> USE DEF Abort
  <1>1. LogTypeOK /\ Written
    BY DEF LogInv
  <1>2. open \in [Writers -> SUBSET Sequence] /\ open' \in [Writers -> SUBSET Sequence]
    BY <1>1 DEF LogTypeOK
  <1>3. LogTypeOK'
    BY <1>1, <1>2 DEF LogTypeOK, panelVars
  <1>4. \A v \in Writers : open'[v] \subseteq open[v]
    BY <1>2
  <1>5. Written'
    BY <1>1, <1>4 DEF Written
  <1>6. Polls' /\ \A p \in Panels : Follows(p)'
    BY PanelUntouched DEF LogInv, Polls, panelVars
  <1> QED BY <1>3, <1>5, <1>6 DEF LogInv

LEMMA TokenStep ==
  ASSUME LogInv, TokenLost \/ Provision
  PROVE  LogInv'
  <1> USE DEF TokenLost, Provision
  <1>1. UNCHANGED <<dbVars, panelVars, feed, channel>> /\ token' \in {"accepted", "rejected"}
    OBVIOUS
  <1>2. faults' \in 0 .. MaxFaults
    BY BoundsAssumption DEF LogInv, LogTypeOK, Fault
  <1>3. LogTypeOK'
    BY <1>1, <1>2 DEF LogInv, LogTypeOK, dbVars, panelVars
  <1>4. Written' /\ Polls'
    BY <1>1 DEF LogInv, Written, Polls, dbVars
  <1>5. \A p \in Panels : Follows(p)'
    BY <1>1, PanelUntouched DEF LogInv, dbVars, panelVars
  <1> QED BY <1>3, <1>4, <1>5 DEF LogInv

\* A step that changes nothing but the feed, a panel and what is on its way.
LEMMA TypedStep ==
  ASSUME LogTypeOK, UNCHANGED <<dbVars, token>>, faults' \in {faults, faults + 1}, faults' <= MaxFaults,
         phase' \in [Panels -> {"discover", "load", "connect", "stream"}],
         shown' \in [Panels -> SUBSET Sequence], channel' \in [Panels -> SUBSET Sequence],
         NEW tabs \in SUBSET Panels, NEW cursors \in [tabs -> 0 .. MaxSequence],
         NEW poll \in {"none", "scheduled", "reading"}, NEW after \in 0 .. MaxSequence,
         NEW participants \in SUBSET tabs,
         feed' = [poll |-> poll, after |-> after, cursors |-> cursors, participants |-> participants]
  PROVE  LogTypeOK'
  <1>1. feed' \in [poll : {"none", "scheduled", "reading"}, after : 0 .. MaxSequence,
              cursors : UNION {[u -> 0 .. MaxSequence] : u \in SUBSET Panels},
              participants : SUBSET Panels]
    BY FeedIsMade
  <1>2. feed'.participants \subseteq DOMAIN feed'.cursors
    OBVIOUS
  <1>3. faults' \in 0 .. MaxFaults
    BY BoundsAssumption DEF LogTypeOK
  <1> QED BY <1>1, <1>2, <1>3 DEF LogTypeOK, dbVars

LEMMA BeginPollStep ==
  ASSUME LogInv, BeginPoll
  PROVE  LogInv'
  <1> DEFINE starts == {feed.cursors[p] : p \in DOMAIN feed.cursors}
  <1>1. LogTypeOK /\ MaxSequence \in Nat
    BY BoundsAssumption DEF LogInv
  <1>2. /\ feed.poll = "scheduled" /\ DOMAIN feed.cursors # {}
        /\ DOMAIN feed.cursors \subseteq Panels
        /\ feed.cursors \in [DOMAIN feed.cursors -> 0 .. MaxSequence]
    BY <1>1, FeedIsTyped DEF LogInv, Polls, BeginPoll
  <1>3. starts \subseteq 0 .. MaxSequence /\ starts # {} /\ starts \subseteq Nat
    <2>1. \A p \in DOMAIN feed.cursors : feed.cursors[p] \in 0 .. MaxSequence
      BY <1>2
    <2>2. starts \subseteq 0 .. MaxSequence
      BY <2>1
    <2> QED BY <1>1, <1>2, <2>2
  <1>4. Min(starts) \in starts /\ \A c \in starts : Min(starts) <= c
    BY <1>3, LeastIsLeast
  <1>5. feed' = [poll |-> "reading", after |-> Min(starts), cursors |-> feed.cursors,
                 participants |-> DOMAIN feed.cursors]
    BY <1>1, FeedIsTyped DEF BeginPoll
  <1>6. Min(starts) \in 0 .. MaxSequence /\ \A p \in DOMAIN feed.cursors : Min(starts) <= feed.cursors[p]
    BY <1>3, <1>4
  <1> HIDE DEF starts
  <1>7. LogTypeOK'
    <2>1. faults' <= MaxFaults /\ faults' = faults
      BY <1>1 DEF LogTypeOK, BeginPoll
    <2>2. /\ phase' \in [Panels -> {"discover", "load", "connect", "stream"}]
          /\ shown' \in [Panels -> SUBSET Sequence] /\ channel' \in [Panels -> SUBSET Sequence]
      BY <1>1 DEF LogTypeOK, BeginPoll, panelVars
    <2>3. UNCHANGED <<dbVars, token>>
      BY DEF BeginPoll
    <2> QED BY <1>1, <1>2, <1>5, <1>6, <2>1, <2>2, <2>3, TypedStep
  <1>8. Written'
    BY DEF LogInv, Written, BeginPoll, dbVars
  <1>9. Polls'
    BY <1>2, <1>5, <1>6 DEF Polls
  <1>10. \A p \in Panels : Follows(p)'
    BY <1>5, PanelUntouched DEF LogInv, BeginPoll, dbVars, panelVars
  <1> QED BY <1>7, <1>8, <1>9, <1>10 DEF LogInv

\* One subscriber of a poll that publishes some of its page.
LEMMA PublishedTo ==
  ASSUME NEW p \in Panels, LogTypeOK, Follows(p), p \in DOMAIN feed.cursors, feed.poll = "reading", Polls,
         NEW to, \/ to = {}
                 \/ p \in feed.participants /\ to = NewTo(p, Page(feed.after)),
         NEW c, c = Max(to \union {feed.cursors[p]}),
         log' = log, phase'[p] = phase[p], shown'[p] = shown[p], channel'[p] = channel[p] \union to,
         p \in DOMAIN feed'.cursors, feed'.cursors[p] = c
  PROVE  Follows(p)' /\ c \in 0 .. MaxSequence
  <1>1. /\ MaxSequence \in Nat /\ PageLimit \in Nat \ {0} /\ log \subseteq Sequence
        /\ feed.after \in Nat /\ feed.cursors[p] \in 0 .. MaxSequence
    BY BoundsAssumption, FeedIsTyped DEF LogTypeOK
  <1>2. /\ Page(feed.after) \subseteq log
        /\ \A s \in Page(feed.after) : \A t \in log : t > feed.after /\ t <= s => t \in Page(feed.after)
    BY <1>1, PageIsPrefix
  <1>3. to \subseteq log /\ to \subseteq Page(feed.after) /\ \A s \in to : s > feed.cursors[p]
    BY <1>2 DEF NewTo
  <1>4. to \union {feed.cursors[p]} \subseteq 0 .. MaxSequence
    <2>1. \A s \in log : s \in 0 .. MaxSequence
      BY <1>1 DEF Sequence
    <2> QED BY <1>1, <1>3, <2>1
  <1>5. /\ c \in to \union {feed.cursors[p]} /\ c \in 0 .. MaxSequence
        /\ \A s \in to : s <= c
        /\ feed.cursors[p] <= c
    BY <1>1, <1>4, GreatestIsGreatest
  <1>6. /\ shown[p] \subseteq log /\ channel[p] \subseteq log /\ phase[p] = "stream"
        /\ \A s \in channel[p] : Cursor(p) < s /\ s <= feed.cursors[p]
        /\ feed.cursors[p] \in log \union {0} /\ Cursor(p) <= feed.cursors[p]
        /\ \A s \in log : s <= feed.cursors[p] => s \in shown[p] \union channel[p]
    BY DEF Follows, Streams, InStep
  <1>7. Cursor(p)' = Cursor(p) /\ Cursor(p) \in 0 .. MaxSequence
    <2>1. shown[p] \subseteq Sequence
      BY <1>1, <1>6
    <2> QED BY <2>1, CursorOf DEF Cursor
  <1>8. ASSUME NEW s \in log, s <= c
        PROVE  s \in shown[p] \union (channel[p] \union to)
    <2>1. CASE s <= feed.cursors[p]
      BY <1>6, <2>1
    <2>2. CASE ~ (s <= feed.cursors[p])
      <3>1. s \in Nat /\ c \in Nat /\ feed.cursors[p] \in Nat /\ feed.after \in Nat
        BY <1>1, <1>5 DEF Sequence
      <3>2. feed.cursors[p] < s
        BY <2>2, <3>1
      <3>3. c # feed.cursors[p]
        BY <1>8, <3>1, <3>2
      <3>4. c \in to /\ to # {} /\ to = NewTo(p, Page(feed.after)) /\ p \in feed.participants
        BY <1>5, <3>3
      <3>5. feed.after <= feed.cursors[p]
        BY <3>4 DEF Polls
      <3>6. s > feed.after
        BY <3>1, <3>2, <3>5
      <3>7. s \in Page(feed.after)
        BY <1>2, <1>3, <1>8, <3>4, <3>6
      <3> QED BY <2>2, <3>1, <3>2, <3>4, <3>7 DEF NewTo
    <2> QED BY <2>1, <2>2
  <1>9. \A s \in channel[p] \union to : Cursor(p) < s /\ s <= c
    <2> TAKE s \in channel[p] \union to
    <2>1. s \in Nat /\ c \in Nat /\ feed.cursors[p] \in Nat /\ Cursor(p) \in Nat
      <3>1. s \in log
        BY <1>3, <1>6
      <3>2. s \in Nat
        BY <1>1, <3>1 DEF Sequence
      <3> QED BY <1>1, <1>5, <1>7, <3>2
    <2>2. CASE s \in channel[p]
      BY <1>5, <1>6, <2>1, <2>2
    <2>3. CASE s \in to
      BY <1>3, <1>5, <1>6, <2>1, <2>3
    <2> QED BY <2>2, <2>3
  <1>10. Cursor(p) <= c
    BY <1>1, <1>5, <1>6, <1>7
  <1>11. c \in log \union {0}
    BY <1>3, <1>5, <1>6
  <1>12. Streams(p)'
    BY <1>3, <1>6 DEF Streams
  <1>13. Shows(p)'
    BY <1>7 DEF Follows, Shows
  <1>14. InStep(p)'
    BY <1>7, <1>8, <1>9, <1>10, <1>11 DEF InStep
  <1> QED BY <1>5, <1>12, <1>13, <1>14 DEF Follows

LEMMA PollSucceedsStep ==
  ASSUME LogInv, PollSucceeds
  PROVE  LogInv'
  <1> DEFINE page == Page(feed.after)
             to(p) == IF p \in Audience THEN NewTo(p, page) ELSE {}
             cursors == [p \in DOMAIN feed.cursors |-> Max(to(p) \union {feed.cursors[p]})]
  <1>1. LogTypeOK /\ MaxSequence \in Nat /\ Polls /\ \A p \in Panels : Follows(p)
    BY BoundsAssumption DEF LogInv
  <1>2. /\ feed.poll = "reading" /\ DOMAIN feed.cursors \subseteq Panels
        /\ feed.participants \subseteq DOMAIN feed.cursors /\ feed.after \in 0 .. MaxSequence
    BY <1>1, FeedIsTyped DEF PollSucceeds
  <1>3. feed' = [poll |-> "scheduled", after |-> feed.after, cursors |-> cursors, participants |-> {}]
    BY <1>1, FeedIsTyped DEF PollSucceeds
  <1>4. channel' = [p \in Panels |-> channel[p] \union to(p)]
    BY DEF PollSucceeds
  <1>5. UNCHANGED <<dbVars, token, panelVars, faults>>
    BY DEF PollSucceeds
  <1>6. \A p \in Panels : to(p) = {} \/ (p \in feed.participants /\ to(p) = NewTo(p, page))
    BY DEF Audience
  <1>7. ASSUME NEW p \in Panels
        PROVE  /\ Follows(p)'
               /\ p \in DOMAIN feed.cursors => cursors[p] \in 0 .. MaxSequence
    <2>1. CASE p \in DOMAIN feed.cursors
      <3> DEFINE t == to(p)
                 c == cursors[p]
      <3>1. t = {} \/ (p \in feed.participants /\ t = NewTo(p, Page(feed.after)))
        BY <1>6
      <3>2. c = Max(t \union {feed.cursors[p]})
        BY <2>1
      <3>3. /\ channel'[p] = channel[p] \union t
            /\ p \in DOMAIN feed'.cursors /\ feed'.cursors[p] = c
        BY <1>3, <1>4, <2>1
      <3>4. log' = log /\ phase'[p] = phase[p] /\ shown'[p] = shown[p]
        BY <1>5 DEF dbVars, panelVars
      <3> HIDE DEF t, c
      <3>5. Follows(p)' /\ c \in 0 .. MaxSequence
        BY <1>1, <1>2, <2>1, <3>1, <3>2, <3>3, <3>4, PublishedTo
      <3> QED BY <3>5 DEF c
    <2>2. CASE p \notin DOMAIN feed.cursors
      <3>1. to(p) = {}
        BY <1>2, <1>6, <2>2
      <3>2. channel'[p] = channel[p]
        BY <1>4, <3>1
      <3>3. p \notin DOMAIN feed'.cursors
        BY <1>3, <2>2
      <3>4. log' = log /\ phase'[p] = phase[p] /\ shown'[p] = shown[p]
        BY <1>5 DEF dbVars, panelVars
      <3> QED BY <1>1, <2>2, <3>2, <3>3, <3>4, PanelUntouched
    <2> QED BY <2>1, <2>2
  <1>8. \A p \in Panels : to(p) \subseteq Sequence
    <2>1. page \subseteq log /\ log \subseteq Sequence
      BY <1>1 DEF Page, LogTypeOK
    <2> QED BY <2>1 DEF NewTo
  <1>9. channel' \in [Panels -> SUBSET Sequence]
    <2>1. channel \in [Panels -> SUBSET Sequence]
      BY <1>1 DEF LogTypeOK
    <2> HIDE DEF to
    <2> QED BY <1>4, <1>8, <2>1
  <1>10. cursors \in [DOMAIN feed.cursors -> 0 .. MaxSequence]
    BY <1>2, <1>7
  <1> HIDE DEF cursors, to, page
  <1>11. LogTypeOK'
    <2>1. faults' <= MaxFaults /\ faults' = faults
      BY <1>1, <1>5 DEF LogTypeOK
    <2>2. /\ phase' \in [Panels -> {"discover", "load", "connect", "stream"}]
          /\ shown' \in [Panels -> SUBSET Sequence]
      BY <1>1, <1>5 DEF LogTypeOK, panelVars
    <2> QED BY <1>1, <1>2, <1>3, <1>5, <1>9, <1>10, <2>1, <2>2, TypedStep
  <1>12. Written'
    BY <1>5 DEF LogInv, Written, dbVars
  <1>13. DOMAIN feed.cursors # {}
    BY <1>1, <1>2 DEF Polls
  <1>14. Polls'
    BY <1>3, <1>13, <1>10 DEF Polls
  <1> QED BY <1>7, <1>11, <1>12, <1>14 DEF LogInv

LEMMA PollFailsStep ==
  ASSUME LogInv, PollFails
  PROVE  LogInv'
  <1> USE DEF PollFails
  <1>1. LogTypeOK /\ MaxSequence \in Nat /\ MaxFaults \in Nat
    BY BoundsAssumption DEF LogInv
  <1>2. NoCursors \in [{} -> 0 .. MaxSequence] /\ DOMAIN NoCursors = {}
    BY DEF NoCursors
  <1>3. feed' = [poll |-> "none", after |-> 0, cursors |-> NoCursors, participants |-> {}]
    BY DEF NoFeed
  <1>4. LogTypeOK'
    <2>1. faults' <= MaxFaults /\ faults' = faults + 1
      BY <1>1 DEF LogTypeOK, Fault
    <2>2. /\ phase' \in [Panels -> {"discover", "load", "connect", "stream"}]
          /\ shown' \in [Panels -> SUBSET Sequence] /\ channel' \in [Panels -> SUBSET Sequence]
      BY <1>1 DEF LogTypeOK
    <2>3. 0 \in 0 .. MaxSequence /\ {} \in SUBSET Panels /\ {} \in SUBSET {}
      BY <1>1
    <2>4. UNCHANGED <<dbVars, token>>
      OBVIOUS
    <2> HIDE DEF PollFails
    <2> QED BY <1>1, <1>2, <1>3, <2>1, <2>2, <2>3, <2>4, TypedStep
  <1>5. Written' /\ Polls'
    BY <1>2, <1>3 DEF LogInv, Written, Polls, dbVars
  <1>6. ASSUME NEW p \in Panels
        PROVE  Follows(p)'
    <2>1. p \notin DOMAIN feed'.cursors /\ channel'[p] = {}
      BY <1>2, <1>3
    <2>2. Cursor(p)' = Cursor(p)
      BY DEF Cursor
    <2> QED BY <2>1, <2>2 DEF LogInv, Follows, Streams, Shows, InStep, dbVars
  <1> QED BY <1>4, <1>5, <1>6 DEF LogInv

\* A panel that changes its phase, and the events it shows, while it is not subscribed.
LEMMA DetachedStep ==
  ASSUME LogInv, NEW p \in Panels, UNCHANGED <<dbVars, token, feed, channel, faults>>,
         phase[p] # "stream",
         NEW to \in {"discover", "load", "connect"}, phase' = [phase EXCEPT ![p] = to],
         NEW S, S \subseteq log, shown' = [shown EXCEPT ![p] = S],
         \A s \in log : s <= Max(S \union {0}) => s \in S
  PROVE  LogInv'
  <1>1. LogTypeOK /\ \A q \in Panels : Follows(q)
    BY DEF LogInv
  <1>2. /\ phase \in [Panels -> {"discover", "load", "connect", "stream"}]
        /\ shown \in [Panels -> SUBSET Sequence] /\ log \subseteq Sequence
    BY <1>1 DEF LogTypeOK
  <1>3. /\ phase' \in [Panels -> {"discover", "load", "connect", "stream"}]
        /\ shown' \in [Panels -> SUBSET Sequence]
    BY <1>2
  <1>4. LogTypeOK' /\ Written' /\ Polls'
    BY <1>3 DEF LogInv, LogTypeOK, Written, Polls, dbVars
  <1>5. Follows(p)'
    <2>1. p \notin DOMAIN feed.cursors /\ channel[p] = {}
      BY <1>1, Detached
    <2>2. shown'[p] = S
      BY <1>2
    <2> QED BY <2>1, <2>2 DEF Follows, Streams, Shows, InStep, Cursor, dbVars
  <1>6. \A q \in Panels \ {p} : Follows(q)'
    <2> TAKE q \in Panels \ {p}
    <2>1. phase'[q] = phase[q] /\ shown'[q] = shown[q]
      BY <1>2
    <2> QED BY <1>1, <2>1, PanelUntouched DEF dbVars
  <1> QED BY <1>4, <1>5, <1>6 DEF LogInv

LEMMA DiscoverStep ==
  ASSUME LogInv, NEW p \in Panels, Discover(p)
  PROVE  LogInv'
  <1>1. shown \in [Panels -> SUBSET Sequence]
    BY DEF LogInv, LogTypeOK
  <1>2. shown' = [shown EXCEPT ![p] = shown[p]]
    BY <1>1 DEF Discover
  <1>3. shown[p] \subseteq log /\ \A s \in log : s <= Max(shown[p] \union {0}) => s \in shown[p]
    BY DEF LogInv, Follows, Streams, Shows, Cursor
  <1> QED BY <1>2, <1>3, DetachedStep DEF Discover, Become

LEMMA DeniedStep ==
  ASSUME LogInv, NEW p \in Panels, Denied(p)
  PROVE  LogInv'
  <1>1. Max({} \union {0}) = 0
    BY CursorOf
  <1>2. \A s \in log : ~ (s <= 0)
    BY DEF LogInv, LogTypeOK, Sequence
  <1> QED BY <1>1, <1>2, DetachedStep DEF Denied, Become, Clear

LEMMA LoadStep ==
  ASSUME LogInv, NEW p \in Panels, Load(p)
  PROVE  LogInv'
  <1> DEFINE page == Page(Cursor(p))
             S == shown[p] \union page
             c == Max(S \union {0})
  <1>1. /\ log \subseteq Sequence /\ shown[p] \subseteq log
        /\ MaxSequence \in Nat /\ PageLimit \in Nat \ {0}
    BY BoundsAssumption DEF LogInv, LogTypeOK, Follows, Streams
  <1>2. Cursor(p) \in 0 .. MaxSequence /\ Cursor(p) \in shown[p] \union {0}
    BY <1>1, CursorOf DEF Cursor
  <1>3. /\ page \subseteq log
        /\ \A s \in page : \A t \in log : t > Cursor(p) /\ t <= s => t \in page
    BY <1>1, <1>2, PageIsPrefix
  <1>4. S \subseteq log
    BY <1>1, <1>3
  <1>5. c \in 0 .. MaxSequence /\ c \in S \union {0}
    BY <1>1, <1>4, CursorOf
  <1>6. ASSUME NEW s \in log, s <= c
        PROVE  s \in S
    <2>1. \A t \in log : t <= Cursor(p) => t \in shown[p]
      BY DEF LogInv, Follows, Shows
    <2>2. s \in Nat /\ Cursor(p) \in Nat /\ c \in Nat
      BY <1>1, <1>2, <1>5 DEF Sequence
    <2>3. CASE s <= Cursor(p)
      BY <2>1, <2>3
    <2>4. CASE s > Cursor(p)
      <3>1. c > Cursor(p) /\ c # 0
        BY <1>6, <2>2, <2>4
      <3>2. \A t \in shown[p] : t <= Cursor(p)
        BY <1>1, CursorOf DEF Cursor
      <3>3. c \in page
        <4>1. ~ (c <= Cursor(p))
          BY <2>2, <3>1
        <4> QED BY <1>5, <3>1, <3>2, <4>1
      <3> QED BY <1>3, <1>6, <2>4, <3>3
    <2> QED BY <2>2, <2>3, <2>4
  <1>7. shown' = [shown EXCEPT ![p] = S]
    BY DEF Load
  <1> HIDE DEF S
  <1> QED BY <1>4, <1>6, <1>7, DetachedStep DEF Load, Become

LEMMA ConnectStep ==
  ASSUME LogInv, NEW p \in Panels, Connect(p)
  PROVE  LogInv'
  <1> DEFINE tabs == DOMAIN feed.cursors \union {p}
             cursors == [q \in tabs |-> IF q = p THEN Cursor(p) ELSE feed.cursors[q]]
             poll == IF feed.poll = "none" THEN "scheduled" ELSE feed.poll
  <1>1. LogTypeOK /\ \A q \in Panels : Follows(q)
    BY DEF LogInv
  <1>2. /\ feed.poll \in {"none", "scheduled", "reading"} /\ feed.after \in 0 .. MaxSequence
        /\ DOMAIN feed.cursors \subseteq Panels
        /\ feed.cursors \in [DOMAIN feed.cursors -> 0 .. MaxSequence]
        /\ feed.participants \subseteq DOMAIN feed.cursors
    BY <1>1, FeedIsTyped
  <1>3. feed' = [poll |-> poll, after |-> feed.after, cursors |-> cursors,
                 participants |-> feed.participants]
    BY <1>1, FeedIsTyped DEF Connect, Subscribed
  <1>4. /\ phase \in [Panels -> {"discover", "load", "connect", "stream"}]
        /\ shown \in [Panels -> SUBSET Sequence] /\ log \subseteq Sequence
    BY <1>1 DEF LogTypeOK
  <1>5. phase[p] = "connect" /\ phase' = [phase EXCEPT ![p] = "stream"]
        /\ UNCHANGED <<dbVars, token, shown, channel, faults>>
    BY DEF Connect, Become
  <1>6. p \notin DOMAIN feed.cursors /\ channel[p] = {}
    BY <1>1, <1>5, Detached
  <1>7. shown[p] \subseteq log /\ Cursor(p) \in 0 .. MaxSequence /\ Cursor(p) \in shown[p] \union {0}
    <2>1. shown[p] \subseteq log /\ shown[p] \subseteq Sequence
      BY <1>1, <1>4 DEF Follows, Streams
    <2> QED BY <2>1, CursorOf DEF Cursor
  <1>8. cursors \in [tabs -> 0 .. MaxSequence] /\ tabs \in SUBSET Panels
        /\ poll \in {"none", "scheduled", "reading"} /\ feed.participants \in SUBSET tabs
    BY <1>2, <1>7
  <1>9. /\ cursors[p] = Cursor(p) /\ p \in tabs
        /\ \A q \in DOMAIN feed.cursors : q # p /\ cursors[q] = feed.cursors[q]
        /\ \A q \in Panels \ {p} : q \in tabs <=> q \in DOMAIN feed.cursors
        /\ DOMAIN cursors = tabs /\ (poll = "reading" => feed.poll = "reading")
    BY <1>6
  <1> HIDE DEF cursors, tabs, poll
  <1>10. LogTypeOK'
    <2>1. faults' <= MaxFaults /\ faults' = faults
      BY <1>1, <1>5, BoundsAssumption DEF LogTypeOK
    <2>2. /\ phase' \in [Panels -> {"discover", "load", "connect", "stream"}]
          /\ shown' \in [Panels -> SUBSET Sequence] /\ channel' \in [Panels -> SUBSET Sequence]
      BY <1>1, <1>4, <1>5 DEF LogTypeOK
    <2> QED BY <1>1, <1>2, <1>3, <1>5, <1>8, <2>1, <2>2, TypedStep
  <1>11. Written'
    BY <1>5 DEF LogInv, Written, dbVars
  <1>12. Polls'
    BY <1>2, <1>3, <1>9 DEF LogInv, Polls
  <1>13. Follows(p)'
    <2>1. Cursor(p)' = Cursor(p)
      BY <1>5 DEF Cursor
    <2>2. Cursor(p) \in log \union {0} /\ Cursor(p) <= Cursor(p)
      BY <1>7
    <2>3. /\ shown' = shown /\ channel'[p] = {} /\ log' = log /\ phase'[p] = "stream"
          /\ p \in DOMAIN feed'.cursors /\ feed'.cursors[p] = Cursor(p)
      BY <1>3, <1>4, <1>5, <1>6, <1>9 DEF dbVars
    <2>4. Shows(p)
      BY <1>1 DEF Follows
    <2> QED BY <1>7, <2>1, <2>2, <2>3, <2>4 DEF Follows, Streams, Shows, InStep
  <1>14. \A q \in Panels \ {p} : Follows(q)'
    <2> TAKE q \in Panels \ {p}
    <2>1. phase'[q] = phase[q] /\ shown'[q] = shown[q] /\ channel'[q] = channel[q] /\ log' = log
      BY <1>4, <1>5 DEF dbVars
    <2>2. /\ q \in DOMAIN feed'.cursors <=> q \in DOMAIN feed.cursors
          /\ q \in DOMAIN feed.cursors => feed'.cursors[q] = feed.cursors[q]
      BY <1>3, <1>9
    <2> QED BY <1>1, <2>1, <2>2, PanelUntouched
  <1> QED BY <1>10, <1>11, <1>12, <1>13, <1>14 DEF LogInv

LEMMA ReceiveStep ==
  ASSUME LogInv, NEW p \in Panels, Receive(p)
  PROVE  LogInv'
  <1>1. PICK s \in channel[p] : /\ \A t \in channel[p] : s <= t
                                /\ shown' = [shown EXCEPT ![p] = shown[p] \union {s}]
                                /\ channel' = [channel EXCEPT ![p] = channel[p] \ {s}]
    BY DEF Receive
  <1>2. UNCHANGED <<dbVars, token, phase, feed, faults>>
    BY DEF Receive
  <1>3. LogTypeOK /\ \A q \in Panels : Follows(q)
    BY DEF LogInv
  <1>4. /\ log \subseteq Sequence /\ shown \in [Panels -> SUBSET Sequence]
        /\ channel \in [Panels -> SUBSET Sequence]
    BY <1>3 DEF LogTypeOK
  <1>5. /\ shown[p] \subseteq log /\ channel[p] \subseteq log /\ p \in DOMAIN feed.cursors
        /\ phase[p] = "stream" /\ Shows(p)
        /\ \A t \in channel[p] : Cursor(p) < t /\ t <= feed.cursors[p]
        /\ \A t \in log : t <= feed.cursors[p] => t \in shown[p] \union channel[p]
        /\ feed.cursors[p] \in log \union {0}
    BY <1>1, <1>3 DEF Follows, Streams, InStep
  <1>6. /\ shown'[p] = shown[p] \union {s} /\ channel'[p] = channel[p] \ {s}
        /\ shown' \in [Panels -> SUBSET Sequence] /\ channel' \in [Panels -> SUBSET Sequence]
    BY <1>1, <1>4
  <1>7. LogTypeOK' /\ Written' /\ Polls'
    BY <1>2, <1>6 DEF LogInv, LogTypeOK, Written, Polls, dbVars
  <1>8. Cursor(p)' = s
    <2> DEFINE c == Max(shown'[p] \union {0})
    <2>1. shown'[p] \subseteq Sequence /\ shown[p] \subseteq Sequence /\ s \in log
      BY <1>4, <1>5, <1>6
    <2>2. c \in shown'[p] \union {0} /\ \A t \in shown'[p] : t <= c
      BY <2>1, CursorOf
    <2>3. Cursor(p) \in Nat /\ \A t \in shown[p] : t <= Cursor(p)
      <3>1. Cursor(p) \in 0 .. MaxSequence /\ \A t \in shown[p] : t <= Cursor(p)
        BY <2>1, CursorOf DEF Cursor
      <3> QED BY <3>1
    <2>4. s \in Nat \ {0} /\ Cursor(p) < s /\ s <= c
      <3>1. s \in 1 .. MaxSequence /\ s \in shown'[p]
        BY <1>4, <1>6, <2>1 DEF Sequence
      <3>2. s \in Nat \ {0}
        BY <3>1
      <3> QED BY <1>5, <2>2, <3>1, <3>2
    <2>5. \A t \in shown[p] \union {0} : t \in Nat /\ t < s
      <3>1. \A t \in shown[p] : t \in Nat /\ t <= Cursor(p)
        BY <2>1, <2>3 DEF Sequence
      <3> QED BY <2>3, <2>4, <3>1
    <2>6. c \in shown[p] \union {0} => FALSE
      <3> SUFFICES ASSUME c \in shown[p] \union {0} PROVE FALSE
        OBVIOUS
      <3>1. c \in Nat /\ c < s
        BY <2>5
      <3> QED BY <2>4, <3>1
    <2>7. c = s
      BY <1>6, <2>2, <2>6
    <2> QED BY <2>7 DEF Cursor
  <1>9. Follows(p)'
    <2>1. s \in Nat /\ s <= feed.cursors[p] /\ feed.cursors[p] \in Nat
      <3>1. s \in log /\ \A t \in log : t \in Nat
        BY <1>4, <1>5 DEF Sequence
      <3> QED BY <1>5, <3>1
    <2>2. Streams(p)'
      BY <1>2, <1>5, <1>6 DEF Streams, dbVars
    <2>3. ASSUME NEW t \in log, t <= s
          PROVE  t \in shown[p] \union {s}
      <3>1. t \in Nat
        BY <1>4 DEF Sequence
      <3>2. t <= feed.cursors[p]
        BY <2>1, <2>3, <3>1
      <3>3. CASE t \in channel[p]
        BY <1>1, <2>1, <2>3, <3>1, <3>3
      <3> QED BY <1>5, <3>2, <3>3
    <2>4. Shows(p)'
      BY <1>2, <1>6, <1>8, <2>3 DEF Shows, dbVars
    <2>5. \A t \in channel[p] \ {s} : s < t /\ t <= feed.cursors[p]
      <3> TAKE t \in channel[p] \ {s}
      <3>1. t \in Nat /\ s <= t
        BY <1>1, <1>4, <1>5 DEF Sequence
      <3> QED BY <1>5, <2>1, <3>1
    <2>6. InStep(p)'
      BY <1>2, <1>5, <1>6, <1>8, <2>1, <2>5 DEF InStep, dbVars
    <2> QED BY <2>2, <2>4, <2>6 DEF Follows
  <1>10. \A q \in Panels \ {p} : Follows(q)'
    <2> TAKE q \in Panels \ {p}
    <2>1. shown'[q] = shown[q] /\ channel'[q] = channel[q]
      BY <1>1, <1>4
    <2> QED BY <1>2, <1>3, <2>1, PanelUntouched DEF dbVars
  <1> QED BY <1>7, <1>9, <1>10 DEF LogInv

\* What is left of the feed without one of its subscribers.
LEMMA FeedWithout ==
  ASSUME LogTypeOK, Polls, NEW p \in Panels
  PROVE  \E poll \in {"none", "scheduled", "reading"}, after \in 0 .. MaxSequence,
            participants \in SUBSET (DOMAIN feed.cursors \ {p}),
            cursors \in [DOMAIN feed.cursors \ {p} -> 0 .. MaxSequence] :
           /\ Without(p) = [poll |-> poll, after |-> after, cursors |-> cursors,
                            participants |-> participants]
           /\ \A q \in DOMAIN feed.cursors \ {p} : cursors[q] = feed.cursors[q]
           /\ poll # "none" => DOMAIN feed.cursors \ {p} # {}
           /\ poll = "reading" => \A q \in participants : after <= cursors[q]
  <1> DEFINE rest == DOMAIN feed.cursors \ {p}
             left == [q \in rest |-> feed.cursors[q]]
  <1>1. MaxSequence \in Nat
    BY BoundsAssumption
  <1>2. /\ feed = [poll |-> feed.poll, after |-> feed.after, cursors |-> feed.cursors,
                    participants |-> feed.participants]
        /\ feed.poll \in {"none", "scheduled", "reading"} /\ feed.after \in 0 .. MaxSequence
        /\ feed.cursors \in [DOMAIN feed.cursors -> 0 .. MaxSequence]
        /\ feed.participants \subseteq DOMAIN feed.cursors
    BY FeedIsTyped
  <1>3. left \in [rest -> 0 .. MaxSequence] /\ DOMAIN left = rest
        /\ \A q \in rest : left[q] = feed.cursors[q]
    BY <1>2
  <1>4. CASE rest = {}
    <2>1. Without(p) = NoFeed
      BY <1>4 DEF Without
    <2>2. NoCursors \in [rest -> 0 .. MaxSequence]
      BY <1>4 DEF NoCursors
    <2>3. 0 \in 0 .. MaxSequence /\ {} \in SUBSET rest
      BY <1>1
    <2> QED BY <1>4, <2>1, <2>2, <2>3 DEF NoFeed
  <1>5. CASE rest # {}
    <2>1. Without(p) = [feed EXCEPT !.cursors = left, !.participants = feed.participants \ {p}]
      BY <1>3, <1>5 DEF Without
    <2> HIDE DEF left
    <2>2. Without(p) = [poll |-> feed.poll, after |-> feed.after, cursors |-> left,
                        participants |-> feed.participants \ {p}]
      BY <1>2, <2>1
    <2>3. feed.participants \ {p} \in SUBSET rest
      BY <1>2
    <2>4. feed.poll = "reading" => \A q \in feed.participants \ {p} : feed.after <= left[q]
      BY <1>2, <1>3 DEF Polls
    <2> QED BY <1>2, <1>3, <1>5, <2>2, <2>3, <2>4
  <1> QED BY <1>4, <1>5

\* A panel that leaves its feed, if it was in it, and loses what was on its way.
LEMMA LeavingStep ==
  ASSUME LogInv, NEW p \in Panels, UNCHANGED <<dbVars, token>>, Fault,
         feed' = Without(p), channel' = [channel EXCEPT ![p] = {}],
         NEW to \in {"discover", "load"}, phase' = [phase EXCEPT ![p] = to],
         NEW S, S \subseteq log, shown' = [shown EXCEPT ![p] = S],
         \A s \in log : s <= Max(S \union {0}) => s \in S
  PROVE  LogInv'
  <1>1. LogTypeOK /\ Polls /\ \A q \in Panels : Follows(q)
    BY DEF LogInv
  <1> DEFINE rest == DOMAIN feed.cursors \ {p}
  <1>2. PICK poll \in {"none", "scheduled", "reading"}, after \in 0 .. MaxSequence,
             participants \in SUBSET rest, cursors \in [rest -> 0 .. MaxSequence] :
           /\ Without(p) = [poll |-> poll, after |-> after, cursors |-> cursors,
                            participants |-> participants]
           /\ \A q \in rest : cursors[q] = feed.cursors[q]
           /\ poll # "none" => rest # {}
           /\ poll = "reading" => \A q \in participants : after <= cursors[q]
    BY <1>1, FeedWithout
  <1>3. feed' = [poll |-> poll, after |-> after, cursors |-> cursors, participants |-> participants]
        /\ DOMAIN cursors = rest
    BY <1>2
  <1>4. /\ phase \in [Panels -> {"discover", "load", "connect", "stream"}]
        /\ shown \in [Panels -> SUBSET Sequence] /\ channel \in [Panels -> SUBSET Sequence]
        /\ log \subseteq Sequence
    BY <1>1 DEF LogTypeOK
  <1>5. rest \in SUBSET Panels
    BY <1>1, FeedIsTyped
  <1>6. LogTypeOK'
    <2>1. faults' <= MaxFaults /\ faults' = faults + 1
      BY <1>1, BoundsAssumption DEF LogTypeOK, Fault
    <2>2. /\ phase' \in [Panels -> {"discover", "load", "connect", "stream"}]
          /\ shown' \in [Panels -> SUBSET Sequence] /\ channel' \in [Panels -> SUBSET Sequence]
      BY <1>4
    <2> HIDE DEF rest
    <2> QED BY <1>1, <1>3, <1>5, <2>1, <2>2, TypedStep
  <1>7. Written' /\ Polls'
    BY <1>2, <1>3 DEF LogInv, Written, Polls, dbVars
  <1>8. Follows(p)'
    <2>1. p \notin DOMAIN feed'.cursors /\ channel'[p] = {} /\ shown'[p] = S
      BY <1>3, <1>4
    <2> QED BY <2>1 DEF Follows, Streams, Shows, InStep, Cursor, dbVars
  <1>9. \A q \in Panels \ {p} : Follows(q)'
    <2> TAKE q \in Panels \ {p}
    <2>1. phase'[q] = phase[q] /\ shown'[q] = shown[q] /\ channel'[q] = channel[q] /\ log' = log
      BY <1>4 DEF dbVars
    <2>2. /\ q \in DOMAIN feed'.cursors <=> q \in DOMAIN feed.cursors
          /\ q \in DOMAIN feed.cursors => feed'.cursors[q] = feed.cursors[q]
      BY <1>2, <1>3
    <2> QED BY <1>1, <2>1, <2>2, PanelUntouched
  <1> QED BY <1>6, <1>7, <1>8, <1>9 DEF LogInv

LEMMA StreamBreaksStep ==
  ASSUME LogInv, NEW p \in Panels, StreamBreaks(p)
  PROVE  LogInv'
  <1>1. shown \in [Panels -> SUBSET Sequence]
    BY DEF LogInv, LogTypeOK
  <1>2. shown' = [shown EXCEPT ![p] = shown[p]]
    BY <1>1 DEF StreamBreaks
  <1>3. shown[p] \subseteq log /\ \A s \in log : s <= Max(shown[p] \union {0}) => s \in shown[p]
    BY DEF LogInv, Follows, Streams, Shows, Cursor
  <1> QED BY <1>2, <1>3, LeavingStep DEF StreamBreaks, Become

LEMMA NavigateStep ==
  ASSUME LogInv, NEW p \in Panels, Navigate(p)
  PROVE  LogInv'
  <1>1. Max({} \union {0}) = 0
    BY CursorOf
  <1>2. \A s \in log : ~ (s <= 0)
    BY DEF LogInv, LogTypeOK, Sequence
  <1> QED BY <1>1, <1>2, LeavingStep DEF Navigate, Become, Clear

\* The live log keeps its invariant: the log grows at its end, and what a panel was
\* not yet shown below the cursor that the feed keeps for it is on its way, in order.
THEOREM LogInvariance == LogSpec => []LogInv
  <1>1. ASSUME LogInv, [LogNext]_logVars
        PROVE  LogInv'
    <2>1. CASE UNCHANGED logVars
      <3>1. LogTypeOK' /\ Written' /\ Polls'
        BY <1>1, <2>1 DEF LogInv, LogTypeOK, Written, Polls, logVars
      <3>2. \A p \in Panels : Follows(p)'
        BY <1>1, <2>1, PanelUntouched DEF LogInv, logVars
      <3> QED BY <3>1, <3>2 DEF LogInv
    <2>2. CASE \E w \in Writers : WriteEvents(w) \/ Commit(w) \/ Abort(w)
      BY <1>1, <2>2, WriteEventsStep, CommitStep, AbortStep
    <2>3. CASE TokenLost \/ Provision
      BY <1>1, <2>3, TokenStep
    <2>4. CASE BeginPoll
      BY <1>1, <2>4, BeginPollStep
    <2>5. CASE PollSucceeds
      BY <1>1, <2>5, PollSucceedsStep
    <2>6. CASE PollFails
      BY <1>1, <2>6, PollFailsStep
    <2>7. ASSUME NEW p \in Panels,
                 \/ Discover(p) \/ Load(p) \/ Connect(p) \/ Denied(p)
                 \/ Receive(p) \/ StreamBreaks(p) \/ Navigate(p)
          PROVE  LogInv'
      <3>1. CASE Discover(p)
        BY <1>1, <3>1, DiscoverStep
      <3>2. CASE Load(p)
        BY <1>1, <3>2, LoadStep
      <3>3. CASE Connect(p)
        BY <1>1, <3>3, ConnectStep
      <3>4. CASE Denied(p)
        BY <1>1, <3>4, DeniedStep
      <3>5. CASE Receive(p)
        BY <1>1, <3>5, ReceiveStep
      <3>6. CASE StreamBreaks(p)
        BY <1>1, <3>6, StreamBreaksStep
      <3>7. CASE Navigate(p)
        BY <1>1, <3>7, NavigateStep
      <3> QED BY <2>7, <3>1, <3>2, <3>3, <3>4, <3>5, <3>6, <3>7
    <2> QED BY <1>1, <2>1, <2>2, <2>3, <2>4, <2>5, <2>6, <2>7 DEF LogNext
  <1> QED BY LogInitially, <1>1, PTL DEF LogSpec

\* A panel never passes over an event, whatever transactions, polls, other tabs of
\* its feed and broken streams do (live-logs.service.ts, interview-panel.ts).
THEOREM PanelsMissNothing == LogSpec => []PanelMissesNothing
  <1>1. LogInv => PanelMissesNothing
    BY DEF LogInv, Follows, Shows, PanelMissesNothing
  <1> QED BY LogInvariance, <1>1, PTL

-----------------------------------------------------------------------------
(* The decisions: the inductive invariant *)

DecisionTypes ==
    /\ time \in 0 .. MaxTime
    /\ status \in [Keys -> {"DRAFT", "APPROVED", "PUBLISHED", "DISABLED"}]
    /\ disabledAt \in [Keys -> 0 .. MaxTime] /\ packs \in Seq(Packs)
    /\ held \in 0 .. Len(packs) /\ browser \in 0 .. Len(packs)
    /\ seen \in [Keys -> SUBSET Uses]
    /\ queue \in Seq(Signals) /\ stored \in Seq(Signals)

\* A pack was published before now, is in force or was withdrawn before now, and
\* holds rules of its kind that left the draft; they are all published as long as it
\* is in force.
Issued(i) ==
    /\ packs[i].from \in 1 .. time
    /\ packs[i].until = Never \/ packs[i].until < time
    /\ \A r \in packs[i].rules : /\ status[r] \in {"PUBLISHED", "DISABLED"}
                                 /\ packs[i].until = Never => status[r] = "PUBLISHED"

\* A rule is in one pack at most.
Apart == \A i, j \in DOMAIN packs : packs[i].rules \intersect packs[j].rules # {} => i = j

\* A signal was made with a published pack, and the server finds out of it what was
\* true of the pack and the rule when it was made.
Made(e) ==
    /\ e.pack \in DOMAIN packs /\ e.rule \in packs[e.pack].rules
    /\ e.at \in packs[e.pack].from .. time
    /\ e.valid <=> Matched(e)

\* Of what is remembered of the use of a tool there is a signal.
Told(r) ==
    \A use \in seen[r] : \/ use = {}
                         \/ (\E i \in DOMAIN queue : queue[i].rule = r /\ queue[i].use # {})
                         \/ \E i \in DOMAIN stored : stored[i].rule = r /\ stored[i].use # {}

DecisionInv ==
    /\ DecisionTypes /\ Apart
    /\ \A i \in DOMAIN packs : Issued(i)
    /\ \A i \in DOMAIN queue : Made(queue[i])
    /\ \A i \in DOMAIN stored : Made(stored[i])
    /\ \A r \in Keys : Told(r)
    /\ incidents = {i \in DOMAIN stored : Confirmed(i, stored)}

-----------------------------------------------------------------------------
(* Sequences of signals and of packs *)

LEMMA SignalsAppended ==
  ASSUME NEW q \in Seq(Signals), NEW e \in Signals
  PROVE  /\ Append(q, e) \in Seq(Signals) /\ Len(Append(q, e)) = Len(q) + 1
         /\ DOMAIN Append(q, e) = DOMAIN q \union {Len(q) + 1} /\ Len(q) + 1 \notin DOMAIN q
         /\ \A i \in DOMAIN q : Append(q, e)[i] = q[i]
         /\ Append(q, e)[Len(q) + 1] = e
  OBVIOUS

LEMMA SignalsTaken ==
  ASSUME NEW q \in Seq(Signals), q # <<>>
  PROVE  /\ Head(q) \in Signals /\ Tail(q) \in Seq(Signals)
         /\ 1 \in DOMAIN q /\ q[1] = Head(q)
         /\ \A i \in DOMAIN Tail(q) : i + 1 \in DOMAIN q /\ Tail(q)[i] = q[i + 1]
         /\ \A i \in DOMAIN q : i = 1 \/ (i - 1 \in DOMAIN Tail(q) /\ Tail(q)[i - 1] = q[i])
  OBVIOUS

LEMMA PacksAppended ==
  ASSUME NEW q \in Seq(Packs), NEW e \in Packs
  PROVE  /\ Append(q, e) \in Seq(Packs) /\ Len(Append(q, e)) = Len(q) + 1
         /\ DOMAIN Append(q, e) = DOMAIN q \union {Len(q) + 1} /\ Len(q) + 1 \notin DOMAIN q
         /\ \A i \in DOMAIN q : Append(q, e)[i] = q[i]
         /\ Append(q, e)[Len(q) + 1] = e
  OBVIOUS

LEMMA BoundsAreNatural ==
  MaxTime \in Nat /\ Never \in Nat /\ Never = MaxTime + 1
  BY DetectionAssumption DEF Never

\* A withdrawal changes nothing but the end of packs that were in force.
LEMMA PacksWithdrawn ==
  ASSUME DecisionTypes, NEW which
  PROVE  /\ Withdrawn(which) \in Seq(Packs) /\ Len(Withdrawn(which)) = Len(packs)
         /\ DOMAIN Withdrawn(which) = DOMAIN packs
         /\ \A i \in DOMAIN packs :
              /\ Withdrawn(which)[i].rules = packs[i].rules
              /\ Withdrawn(which)[i].from = packs[i].from
              /\ Withdrawn(which)[i].until =
                   IF packs[i].until = Never /\ i \in which THEN time ELSE packs[i].until
  <1>1. packs \in Seq(Packs) /\ time \in Nat
    BY BoundsAreNatural DEF DecisionTypes
  <1>2. DOMAIN packs = 1 .. Len(packs) /\ Len(packs) \in Nat
    BY <1>1
  <1>3. ASSUME NEW i \in DOMAIN packs
        PROVE  /\ Withdrawn(which)[i] \in Packs
               /\ Withdrawn(which)[i].rules = packs[i].rules
               /\ Withdrawn(which)[i].from = packs[i].from
               /\ Withdrawn(which)[i].until =
                    IF packs[i].until = Never /\ i \in which THEN time ELSE packs[i].until
    <2>1. packs[i] \in Packs
      BY <1>1
    <2>2. Withdrawn(which)[i] = IF packs[i].until = Never /\ i \in which
                                THEN [packs[i] EXCEPT !.until = time] ELSE packs[i]
      BY DEF Withdrawn
    <2> QED BY <1>1, <2>1, <2>2 DEF Packs
  <1>4. DOMAIN Withdrawn(which) = 1 .. Len(packs)
    BY <1>2 DEF Withdrawn
  <1>5. Withdrawn(which) \in [1 .. Len(packs) -> Packs]
    <2>1. Withdrawn(which) = [i \in 1 .. Len(packs) |-> Withdrawn(which)[i]]
      BY <1>2 DEF Withdrawn
    <2> QED BY <1>2, <1>3, <2>1
  <1> QED BY <1>2, <1>3, <1>4, <1>5

-----------------------------------------------------------------------------
(* Every step preserves the invariant *)

LEMMA DecisionInitially == Init => DecisionInv
  <1> SUFFICES ASSUME Init PROVE DecisionInv
    OBVIOUS
  <1> USE DEF Init
  <1>1. MaxTime \in Nat
    BY BoundsAreNatural
  <1>2. seen \in [Keys -> SUBSET Uses]
    BY DEF Nothing
  <1>3. DecisionTypes
    BY <1>1, <1>2 DEF DecisionTypes, Fallback
  <1>4. DOMAIN packs = {} /\ DOMAIN queue = {} /\ DOMAIN stored = {}
    OBVIOUS
  <1>5. \A r \in Keys : Told(r)
    BY DEF Told, Nothing
  <1>6. incidents = {i \in DOMAIN stored : Confirmed(i, stored)}
    BY <1>4
  <1> QED BY <1>3, <1>4, <1>5, <1>6 DEF DecisionInv, Apart

\* The server finds the same out of signals that it finds the same in one by one.
LEMMA ConfirmedStays ==
  ASSUME stored' = stored, platform' = platform,
         \A i \in DOMAIN stored : Matched(stored[i])' <=> Matched(stored[i]),
         NEW i \in DOMAIN stored
  PROVE  Confirmed(i, stored)' <=> Confirmed(i, stored)
  <1>1. \A key : \A j \in DOMAIN stored : Supports(stored[j], key)' <=> Supports(stored[j], key)
    BY DEF Supports, Identified, Browser
  <1>2. ActiveUse(stored[i])' <=> ActiveUse(stored[i])
    BY DEF ActiveUse, Browser
  <1>3. Matched(stored[i])' <=> Matched(stored[i])
    OBVIOUS
  <1>4. Identified(stored[i])' <=> Identified(stored[i])
    BY DEF Identified, Browser
  <1>5. \A key : (\E j \in DOMAIN stored \ {i} : Supports(stored[j], key))'
                 <=> \E j \in DOMAIN stored \ {i} : Supports(stored[j], key)
    BY <1>1, Zenon
  <1> QED BY <1>2, <1>3, <1>4, <1>5, Zenon DEF Confirmed

\* A step of the verifier or the browser that makes no signal.
LEMMA SilentStep ==
  ASSUME DecisionInv, UNCHANGED <<serverVars, signalVars, platform>>,
         held' \in 0 .. Len(packs), browser' \in 0 .. Len(packs), seen' \in [Keys -> SUBSET Uses],
         \A r \in Keys : seen'[r] \subseteq seen[r]
  PROVE  DecisionInv'
  <1> USE DEF serverVars, signalVars
  <1>1. DecisionTypes'
    BY DEF DecisionInv, DecisionTypes
  <1>2. Apart' /\ \A i \in DOMAIN packs' : Issued(i)'
    BY DEF DecisionInv, Apart, Issued
  <1>3. \A e : Matched(e)' <=> Matched(e)
    BY DEF Matched
  <1>4. \A e : Made(e)' <=> Made(e)
    BY <1>3 DEF Made
  <1>5. /\ \A i \in DOMAIN queue' : Made(queue[i])'
        /\ \A i \in DOMAIN stored' : Made(stored[i])'
    BY <1>4 DEF DecisionInv, Made, Matched
  <1>6. \A r \in Keys : Told(r)'
    BY DEF DecisionInv, Told
  <1>7. incidents' = {i \in DOMAIN stored' : Confirmed(i, stored)'}
    <2>1. \A i \in DOMAIN stored : Matched(stored[i])' <=> Matched(stored[i])
      BY DEF Matched
    <2>2. \A i \in DOMAIN stored : Confirmed(i, stored)' <=> Confirmed(i, stored)
      BY <2>1, ConfirmedStays
    <2> QED BY <2>2 DEF DecisionInv
  <1> QED BY <1>1, <1>2, <1>5, <1>6, <1>7 DEF DecisionInv

LEMMA UpdateKeepsThePlatform ==
  UpdateNext \/ StartWork \/ Ends \/ Interrupted => platform' = platform
  BY DEF UpdateNext, Redeploy, Launch, Recover, InstallUpdate, Help, HelperFails, StartWork, Ends, Interrupted

\* What the server serves is a published pack, or that of the configuration.
LEMMA ServedPacks ==
  ASSUME DecisionTypes, NEW kind, NEW p \in Served(kind)
  PROVE  p \in 0 .. Len(packs)
  <1>1. DOMAIN packs = 1 .. Len(packs) /\ Len(packs) \in Nat
    BY DEF DecisionTypes
  <1> QED BY <1>1 DEF Served, Active, Fallback

LEMMA RulesAreTyped ==
  ASSUME NEW r \in Keys
  PROVE  /\ Rules[r].pack \in {"NATIVE", "CHROME"} /\ Rules[r].confidence \in {"HIGH", "MEDIUM", "LOW"}
         /\ Rules[r].requires \subseteq Keys
         /\ SUBSET Rules[r].signs \subseteq Uses
  BY DetectionAssumption DEF Uses

LEMMA NewSignalIsMade ==
  ASSUME DecisionInv, NEW r \in Keys, NEW use \in SUBSET Rules[r].signs,
         NEW p \in DOMAIN packs, r \in packs[p].rules
  PROVE  /\ Signal(r, use, p) \in Signals /\ Made(Signal(r, use, p))
         /\ Signal(r, use, p).rule = r /\ Signal(r, use, p).use = use
  <1> DEFINE b == InForce(p) /\ status[r] = "PUBLISHED"
             e == Signal(r, use, p)
  <1>1. b \in BOOLEAN
    BY Zenon
  <1>2. e = [rule |-> r, pack |-> p, at |-> time, use |-> use, valid |-> b]
    BY Zenon DEF Signal
  <1>3. /\ packs \in Seq(Packs) /\ time \in 0 .. MaxTime /\ Issued(p) /\ MaxTime \in Nat
        /\ Never \in Nat /\ Never = MaxTime + 1 /\ use \in Uses
    BY BoundsAreNatural, RulesAreTyped DEF DecisionInv, DecisionTypes
  <1>4. p \in Nat \ {0} /\ time \in Nat /\ packs[p].until \in Nat /\ packs[p].from \in Nat
    <2>1. DOMAIN packs = 1 .. Len(packs) /\ Len(packs) \in Nat /\ packs[p] \in Packs
      BY <1>3
    <2> QED BY <1>3, <2>1 DEF Packs
  <1>13. packs[p].until = Never => status[r] = "PUBLISHED"
    BY <1>3, Zenon DEF Issued
  <1>5. b <=> packs[p].until = Never
    <2>1. p # 0
      BY <1>4
    <2> QED BY <1>13, <2>1, Zenon DEF InForce, Fallback
  <1> HIDE DEF b, e
  <1>6. e.rule = r /\ e.pack = p /\ e.at = time /\ e.use = use
    BY <1>2
  <1>7. e.valid = b
    BY <1>2
  <1>8. e \in Signals
    BY <1>1, <1>2, <1>3, <1>4 DEF Signals
  <1>9. Matched(e) <=> packs[p].until = Never
    <2>1. packs[p].from <= time
      BY <1>3, <1>4 DEF Issued
    <2>2. CASE packs[p].until = Never
      <3>1. status[r] = "PUBLISHED"
        BY <1>13, <2>2
      <3>2. time \in packs[p].from .. packs[p].until
        BY <1>3, <1>4, <2>1, <2>2
      <3> QED BY <1>4, <1>6, <2>2, <3>1, <3>2 DEF Matched, Fallback
    <2>3. CASE packs[p].until # Never
      <3>1. packs[p].until < time
        BY <1>3, <2>3 DEF Issued
      <3>2. time \notin packs[p].from .. packs[p].until
        BY <1>4, <3>1
      <3> QED BY <1>6, <2>3, <3>2 DEF Matched
    <2> QED BY <2>2, <2>3
  <1>10. e.valid <=> Matched(e)
    <2>1. CASE b
      <3>1. b = TRUE
        BY <1>1, <2>1
      <3>2. e.valid
        BY <1>7, <3>1
      <3> QED BY <1>5, <1>9, <2>1, <3>2
    <2>2. CASE ~b
      <3>1. b = FALSE
        BY <1>1, <2>2
      <3>2. ~e.valid
        BY <1>7, <3>1
      <3> QED BY <1>5, <1>9, <2>2, <3>2
    <2> QED BY <2>1, <2>2
  <1>11. time \in packs[p].from .. time
    BY <1>3, <1>4 DEF Issued
  <1>12. Made(e)
    BY <1>6, <1>10, <1>11 DEF Made
  <1> QED BY <1>6, <1>8, <1>12 DEF e

\* A step that makes a signal.
LEMMA SignalStep ==
  ASSUME DecisionInv, UNCHANGED <<serverVars, stored, incidents, platform>>,
         held' \in 0 .. Len(packs), browser' \in 0 .. Len(packs), seen' \in [Keys -> SUBSET Uses],
         NEW e \in Signals, Made(e), queue' = Append(queue, e),
         \A r \in Keys : \A use \in seen'[r] : use \in seen[r] \/ (e.rule = r /\ e.use = use)
  PROVE  DecisionInv'
  <1> USE DEF serverVars
  <1>0. queue \in Seq(Signals)
    BY DEF DecisionInv, DecisionTypes
  <1>1. /\ queue' \in Seq(Signals) /\ DOMAIN queue' = DOMAIN queue \union {Len(queue) + 1}
        /\ \A i \in DOMAIN queue : queue'[i] = queue[i]
        /\ queue'[Len(queue) + 1] = e
    BY <1>0, SignalsAppended
  <1>2. DecisionTypes'
    BY <1>1 DEF DecisionInv, DecisionTypes
  <1>3. Apart' /\ \A i \in DOMAIN packs' : Issued(i)'
    BY DEF DecisionInv, Apart, Issued
  <1>4. \A i \in DOMAIN queue' : Made(queue[i])'
    <2> TAKE i \in DOMAIN queue'
    <2>1. Made(queue'[i])
      BY <1>1 DEF DecisionInv
    <2> QED BY <2>1 DEF Made, Matched
  <1>5. \A i \in DOMAIN stored' : Made(stored[i])'
    BY DEF DecisionInv, Made, Matched
  <1>6. ASSUME NEW r \in Keys, NEW use \in seen'[r]
        PROVE  \/ use = {}
               \/ (\E i \in DOMAIN queue' : queue'[i].rule = r /\ queue'[i].use # {})
               \/ \E i \in DOMAIN stored' : stored'[i].rule = r /\ stored'[i].use # {}
    <2>1. CASE use \in seen[r]
      <3>1. \/ use = {}
            \/ (\E i \in DOMAIN queue : queue[i].rule = r /\ queue[i].use # {})
            \/ \E i \in DOMAIN stored : stored[i].rule = r /\ stored[i].use # {}
        BY <2>1 DEF DecisionInv, Told
      <3>2. CASE \E i \in DOMAIN queue : queue[i].rule = r /\ queue[i].use # {}
        <4>1. PICK i \in DOMAIN queue : queue[i].rule = r /\ queue[i].use # {}
          BY <3>2
        <4>2. i \in DOMAIN queue' /\ queue'[i] = queue[i]
          BY <1>1
        <4> QED BY <4>1, <4>2
      <3> QED BY <3>1, <3>2
    <2>2. CASE e.rule = r /\ e.use = use
      <3>1. Len(queue) + 1 \in DOMAIN queue' /\ queue'[Len(queue) + 1] = e
        BY <1>1
      <3> QED BY <2>2, <3>1
    <2> QED BY <1>6, <2>1, <2>2
  <1>7. \A r \in Keys : Told(r)'
    BY <1>6 DEF Told
  <1>8. incidents' = {i \in DOMAIN stored' : Confirmed(i, stored)'}
    <2>1. \A i \in DOMAIN stored : Matched(stored[i])' <=> Matched(stored[i])
      BY DEF Matched
    <2>2. \A i \in DOMAIN stored : Confirmed(i, stored)' <=> Confirmed(i, stored)
      BY <2>1, ConfirmedStays
    <2> QED BY <2>2 DEF DecisionInv
  <1> QED BY <1>2, <1>3, <1>4, <1>5, <1>7, <1>8 DEF DecisionInv

LEMMA ObserveStep ==
  ASSUME DecisionInv, NEW r \in Keys, NEW use \in SUBSET Rules[r].signs, Observe(r, use)
  PROVE  DecisionInv'
  <1>1. /\ UNCHANGED <<serverVars, stored, incidents, platform, held, browser>>
        /\ held # Fallback /\ r \in packs[held].rules
    BY DEF Observe, MatchSnapshot, updateVars
  <1>2. /\ held \in 0 .. Len(packs) /\ browser \in 0 .. Len(packs) /\ packs \in Seq(Packs)
        /\ seen \in [Keys -> SUBSET Uses]
    BY DEF DecisionInv, DecisionTypes
  <1>3. held \in DOMAIN packs /\ use \in Uses
    BY <1>1, <1>2, RulesAreTyped DEF Fallback
  <1>4. seen' = [seen EXCEPT ![r] = IF platform = "MACOS" THEN {use} ELSE seen[r] \union {use}]
    BY DEF Observe
  <1>5. /\ seen' \in [Keys -> SUBSET Uses] /\ seen'[r] \subseteq seen[r] \union {use}
        /\ \A s \in Keys \ {r} : seen'[s] = seen[s]
    BY <1>2, <1>3, <1>4
  <1>6. CASE use \notin seen[r]
    <2>1. queue' = Append(queue, Signal(r, use, held))
      BY <1>6 DEF Observe, News
    <2>2. /\ Signal(r, use, held) \in Signals /\ Made(Signal(r, use, held))
          /\ Signal(r, use, held).rule = r /\ Signal(r, use, held).use = use
      BY <1>1, <1>3, NewSignalIsMade
    <2>3. \A s \in Keys : \A u \in seen'[s] :
             u \in seen[s] \/ (Signal(r, use, held).rule = s /\ Signal(r, use, held).use = u)
      BY <1>5, <2>2
    <2> QED BY <1>1, <1>2, <1>5, <2>1, <2>2, <2>3, SignalStep
  <1>7. CASE use \in seen[r]
    <2>1. queue' = queue
      BY <1>7 DEF Observe, News
    <2>2. \A s \in Keys : seen'[s] \subseteq seen[s]
      BY <1>5, <1>7
    <2>3. UNCHANGED <<serverVars, signalVars, platform>>
      BY <1>1, <2>1 DEF signalVars
    <2> QED BY <1>1, <1>2, <1>5, <2>2, <2>3, SilentStep
  <1> QED BY <1>6, <1>7

LEMMA ReportExtensionStep ==
  ASSUME DecisionInv, NEW r \in Keys, NEW use \in SUBSET Rules[r].signs, ReportExtension(r, use)
  PROVE  DecisionInv'
  <1>1. PICK p \in LoadSignatures :
           /\ r \in packs[p].rules /\ browser' = p
           /\ queue' = Append(queue, Signal(r, use, p))
    BY DEF ReportExtension, MatchExtension
  <1>2. UNCHANGED <<serverVars, stored, incidents, platform, held, seen>>
    BY DEF ReportExtension, updateVars, agentVars
  <1>3. /\ held \in 0 .. Len(packs) /\ browser \in 0 .. Len(packs) /\ packs \in Seq(Packs)
        /\ seen \in [Keys -> SUBSET Uses] /\ DecisionTypes
    BY DEF DecisionInv, DecisionTypes
  <1>4. p \in 0 .. Len(packs) /\ p # 0
    BY <1>3, ServedPacks DEF LoadSignatures, Fallback
  <1>5. p \in DOMAIN packs
    BY <1>3, <1>4
  <1>6. Signal(r, use, p) \in Signals /\ Made(Signal(r, use, p))
    BY <1>1, <1>5, NewSignalIsMade
  <1>7. held' \in 0 .. Len(packs) /\ browser' \in 0 .. Len(packs) /\ seen' \in [Keys -> SUBSET Uses]
        /\ \A s \in Keys : \A u \in seen'[s] : u \in seen[s]
    BY <1>1, <1>2, <1>3, <1>4
  <1> QED BY <1>1, <1>2, <1>6, <1>7, SignalStep

LEMMA VerifierStep ==
  ASSUME DecisionInv, \/ UpdateNext /\ UNCHANGED <<serverVars, agentVars, browser, signalVars>>
                      \/ Work \/ RefreshRules \/ Stops
  PROVE  DecisionInv'
  <1>1. /\ held \in 0 .. Len(packs) /\ browser \in 0 .. Len(packs) /\ packs \in Seq(Packs)
        /\ seen \in [Keys -> SUBSET Uses] /\ DecisionTypes
    BY DEF DecisionInv, DecisionTypes
  <1>2. 0 \in 0 .. Len(packs)
    BY <1>1
  <1>3. UNCHANGED <<serverVars, signalVars, platform, browser>>
    <2>1. UNCHANGED <<serverVars, signalVars, browser>>
      BY DEF Work, RefreshRules, Stops
    <2>2. platform' = platform
      BY UpdateKeepsThePlatform DEF Work, RefreshRules, Stops, updateVars
    <2> QED BY <2>1, <2>2
  <1>4. held' \in 0 .. Len(packs)
    <2>1. CASE UpdateNext /\ UNCHANGED <<serverVars, agentVars, browser, signalVars>>
      BY <1>1, <2>1 DEF agentVars
    <2>2. CASE Work \/ RefreshRules
      BY <1>1, <2>2, ServedPacks DEF Work, RefreshRules
    <2>3. CASE Stops
      BY <1>2, <2>3 DEF Stops, Fallback
    <2> QED BY <2>1, <2>2, <2>3
  <1>5. seen' \in [Keys -> SUBSET Uses] /\ \A r \in Keys : seen'[r] \subseteq seen[r]
    <2>1. seen' = seen \/ seen' = Nothing
      BY DEF Work, RefreshRules, Stops, agentVars
    <2> QED BY <1>1, <2>1 DEF Nothing
  <1> QED BY <1>1, <1>3, <1>4, <1>5, SilentStep

\* What the server finds out of a signal stays as it was when the signal was made:
\* later publications, withdrawals and disabled rules do not change it.
LEMMA MatchedStays ==
  ASSUME DecisionTypes, NEW e \in Signals, Made(e), Issued(e.pack),
         time' \in {time, time + 1}, DOMAIN packs \subseteq DOMAIN packs',
         \A i \in DOMAIN packs :
            /\ packs'[i].rules = packs[i].rules /\ packs'[i].from = packs[i].from
            /\ \/ packs'[i].until = packs[i].until
               \/ packs[i].until = Never /\ packs'[i].until = time,
         \A i \in DOMAIN packs : \A r \in packs[i].rules :
            \/ status'[r] = status[r] /\ disabledAt'[r] = disabledAt[r]
            \/ status[r] = "PUBLISHED" /\ status'[r] = "DISABLED" /\ disabledAt'[r] = time
  PROVE  Made(e)' /\ (Matched(e)' <=> Matched(e))
  <1> DEFINE p == e.pack
             r == e.rule
  <1>1. /\ p \in DOMAIN packs /\ r \in packs[p].rules /\ e.at \in packs[p].from .. time
        /\ e.valid <=> Matched(e)
    BY DEF Made
  <1>2. /\ packs[p] \in Packs /\ time \in Nat /\ time < Never /\ Never \in Nat
        /\ DOMAIN packs = 1 .. Len(packs)
    BY <1>1, BoundsAreNatural DEF DecisionTypes
  <1>3. packs[p].from \in Nat /\ packs[p].until \in Nat /\ e.at \in Nat /\ p # 0
        /\ e.at <= time /\ packs[p].from <= e.at
    BY <1>1, <1>2 DEF Packs
  <1>4. r \in Keys
    BY DEF Signals
  <1>5. /\ packs'[p].rules = packs[p].rules /\ packs'[p].from = packs[p].from
        /\ packs'[p].until = packs[p].until \/ (packs[p].until = Never /\ packs'[p].until = time)
    BY <1>1
  <1>6. \/ status'[r] = status[r] /\ disabledAt'[r] = disabledAt[r]
        \/ status[r] = "PUBLISHED" /\ status'[r] = "DISABLED" /\ disabledAt'[r] = time
    BY <1>1
  <1>7. e.at \in packs'[p].from .. packs'[p].until <=> e.at \in packs[p].from .. packs[p].until
    BY <1>2, <1>3, <1>5
  <1>8. (\/ status'[r] = "PUBLISHED"
         \/ (status'[r] = "DISABLED" /\ e.at <= disabledAt'[r]))
        <=> (\/ status[r] = "PUBLISHED"
             \/ (status[r] = "DISABLED" /\ e.at <= disabledAt[r]))
    BY <1>3, <1>6
  <1>9. Matched(e)' <=> Matched(e)
    BY <1>1, <1>5, <1>7, <1>8, Zenon DEF Matched
  <1>10. e.at \in packs'[p].from .. time'
    BY <1>2, <1>3, <1>5
  <1>11. p \in DOMAIN packs' /\ r \in packs'[p].rules
    BY <1>1, <1>5
  <1>12. Made(e)'
    BY <1>1, <1>9, <1>10, <1>11, Zenon DEF Made
  <1> QED BY <1>9, <1>12

\* A step of the operators.
LEMMA ServerStep ==
  ASSUME DecisionInv, UNCHANGED <<held, seen, browser, queue, stored, incidents, platform>>,
         DecisionTypes', Apart', \A i \in DOMAIN packs' : Issued(i)',
         time' \in {time, time + 1}, DOMAIN packs \subseteq DOMAIN packs',
         \A i \in DOMAIN packs :
            /\ packs'[i].rules = packs[i].rules /\ packs'[i].from = packs[i].from
            /\ \/ packs'[i].until = packs[i].until
               \/ packs[i].until = Never /\ packs'[i].until = time,
         \A i \in DOMAIN packs : \A r \in packs[i].rules :
            \/ status'[r] = status[r] /\ disabledAt'[r] = disabledAt[r]
            \/ status[r] = "PUBLISHED" /\ status'[r] = "DISABLED" /\ disabledAt'[r] = time
  PROVE  DecisionInv'
  <1>1. DecisionTypes /\ \A i \in DOMAIN packs : Issued(i)
    BY DEF DecisionInv
  <1>2. \A e \in Signals : Made(e) => Made(e)' /\ (Matched(e)' <=> Matched(e))
    <2> SUFFICES ASSUME NEW e \in Signals, Made(e)
                 PROVE  Made(e)' /\ (Matched(e)' <=> Matched(e))
      OBVIOUS
    <2>1. Issued(e.pack)
      BY <1>1 DEF Made
    <2> QED BY <1>1, <2>1, MatchedStays
  <1>3. /\ \A i \in DOMAIN queue : queue[i] \in Signals /\ Made(queue[i])
        /\ \A i \in DOMAIN stored : stored[i] \in Signals /\ Made(stored[i])
    BY DEF DecisionInv, DecisionTypes
  <1>4. /\ \A i \in DOMAIN queue' : Made(queue[i])'
        /\ \A i \in DOMAIN stored' : Made(stored[i])' /\ (Matched(stored[i])' <=> Matched(stored[i]))
    <2>1. ASSUME NEW i \in DOMAIN queue
          PROVE  Made(queue[i])'
      BY <1>2, <1>3, <2>1 DEF Made, Matched
    <2>2. ASSUME NEW i \in DOMAIN stored
          PROVE  Made(stored[i])' /\ (Matched(stored[i])' <=> Matched(stored[i]))
      BY <1>2, <1>3, <2>2 DEF Made, Matched
    <2> QED BY <2>1, <2>2
  <1>5. \A r \in Keys : Told(r)'
    BY DEF DecisionInv, Told
  <1>6. incidents' = {i \in DOMAIN stored' : Confirmed(i, stored)'}
    <2>1. \A i \in DOMAIN stored : Confirmed(i, stored)' <=> Confirmed(i, stored)
      BY <1>4, ConfirmedStays
    <2> QED BY <2>1 DEF DecisionInv
  <1> QED BY <1>4, <1>5, <1>6 DEF DecisionInv

LEMMA ApproveStep ==
  ASSUME DecisionInv, UNCHANGED <<updateVars, agentVars, browser, signalVars>>,
         NEW r \in Keys, Approve(r)
  PROVE  DecisionInv'
  <1>1. UNCHANGED <<held, seen, browser, queue, stored, incidents, platform, time, disabledAt, packs>>
    BY DEF Approve, updateVars, agentVars, signalVars
  <1>2. DecisionTypes /\ Apart /\ \A i \in DOMAIN packs : Issued(i)
    BY DEF DecisionInv
  <1>3. status[r] = "DRAFT" /\ status' = [status EXCEPT ![r] = "APPROVED"]
    BY DEF Approve
  <1>4. status \in [Keys -> {"DRAFT", "APPROVED", "PUBLISHED", "DISABLED"}]
    BY <1>2 DEF DecisionTypes
  <1>5. status' \in [Keys -> {"DRAFT", "APPROVED", "PUBLISHED", "DISABLED"}]
        /\ \A s \in Keys : s # r => status'[s] = status[s]
    BY <1>3, <1>4
  <1>6. DecisionTypes' /\ Apart'
    BY <1>1, <1>2, <1>5 DEF DecisionTypes, Apart
  <1>7. ASSUME NEW i \in DOMAIN packs, NEW s \in packs[i].rules
        PROVE  status'[s] = status[s]
    <2>1. packs[i] \in Packs
      BY <1>2 DEF DecisionTypes
    <2>2. s \in Keys /\ status[s] \in {"PUBLISHED", "DISABLED"}
      BY <1>2, <2>1 DEF Issued, Packs
    <2> QED BY <1>3, <1>5, <2>2
  <1>8. \A i \in DOMAIN packs' : Issued(i)'
    BY <1>1, <1>2, <1>7 DEF Issued
  <1>9. time' \in {time, time + 1} /\ DOMAIN packs \subseteq DOMAIN packs'
    BY <1>1
  <1> QED BY <1>1, <1>6, <1>7, <1>8, <1>9, ServerStep

LEMMA DisableStep ==
  ASSUME DecisionInv, UNCHANGED <<updateVars, agentVars, browser, signalVars>>,
         NEW r \in Keys, Disable(r)
  PROVE  DecisionInv'
  <1> DEFINE which == {i \in DOMAIN packs : r \in packs[i].rules}
  <1>1. UNCHANGED <<held, seen, browser, queue, stored, incidents, platform>>
    BY DEF updateVars, agentVars, signalVars
  <1>2. DecisionTypes /\ Apart /\ \A i \in DOMAIN packs : Issued(i)
    BY DEF DecisionInv
  <1>3. /\ status[r] \in {"APPROVED", "PUBLISHED"} /\ time < MaxTime
        /\ status' = [status EXCEPT ![r] = "DISABLED"]
        /\ disabledAt' = [disabledAt EXCEPT ![r] = time]
        /\ packs' = Withdrawn(which) /\ time' = time + 1
    BY DEF Disable
  <1>4. /\ status \in [Keys -> {"DRAFT", "APPROVED", "PUBLISHED", "DISABLED"}]
        /\ disabledAt \in [Keys -> 0 .. MaxTime] /\ time \in 0 .. MaxTime /\ MaxTime \in Nat
        /\ packs \in Seq(Packs) /\ Never = MaxTime + 1
    BY <1>2, BoundsAreNatural DEF DecisionTypes
  <1>5. /\ status' \in [Keys -> {"DRAFT", "APPROVED", "PUBLISHED", "DISABLED"}]
        /\ disabledAt' \in [Keys -> 0 .. MaxTime] /\ time' \in 0 .. MaxTime
        /\ status'[r] = "DISABLED" /\ disabledAt'[r] = time
        /\ \A s \in Keys : s # r => status'[s] = status[s] /\ disabledAt'[s] = disabledAt[s]
    BY <1>3, <1>4
  <1>6. /\ packs' \in Seq(Packs) /\ Len(packs') = Len(packs) /\ DOMAIN packs' = DOMAIN packs
        /\ \A i \in DOMAIN packs :
              /\ packs'[i].rules = packs[i].rules /\ packs'[i].from = packs[i].from
              /\ packs'[i].until = IF packs[i].until = Never /\ i \in which THEN time ELSE packs[i].until
    BY <1>2, <1>3, PacksWithdrawn
  <1>7. DecisionTypes'
    BY <1>1, <1>2, <1>5, <1>6 DEF DecisionTypes
  <1>8. Apart'
    BY <1>2, <1>6 DEF Apart
  <1>9. ASSUME NEW i \in DOMAIN packs
        PROVE  /\ packs[i].rules \subseteq Keys /\ packs[i].from \in Nat /\ packs[i].until \in Nat
               /\ packs[i].from \in 1 .. time
               /\ packs[i].until = Never \/ packs[i].until < time
               /\ \A s \in packs[i].rules : status[s] \in {"PUBLISHED", "DISABLED"}
               /\ packs[i].until = Never => \A s \in packs[i].rules : status[s] = "PUBLISHED"
    <2>1. packs[i] \in Packs /\ Issued(i)
      BY <1>2, <1>4
    <2> QED BY <2>1 DEF Issued, Packs
  <1>10. ASSUME NEW i \in DOMAIN packs'
         PROVE  Issued(i)'
    <2>1. i \in DOMAIN packs /\ (i \in which <=> r \in packs[i].rules)
      BY <1>6
    <2>2. packs'[i].from \in 1 .. time' /\ (packs'[i].until = Never \/ packs'[i].until < time')
      BY <1>3, <1>4, <1>6, <1>9, <2>1
    <2>3. \A s \in packs'[i].rules : /\ status'[s] \in {"PUBLISHED", "DISABLED"}
                                     /\ packs'[i].until = Never => status'[s] = "PUBLISHED"
      <3> TAKE s \in packs'[i].rules
      <3>1. s \in packs[i].rules /\ s \in Keys
        BY <1>6, <1>9, <2>1
      <3>2. CASE s = r
        <4>1. i \in which
          BY <2>1, <3>1, <3>2
        <4>2. packs'[i].until # Never
          BY <1>4, <1>6, <2>1, <4>1
        <4> QED BY <1>5, <3>2, <4>2
      <3>3. CASE s # r
        <4>1. packs'[i].until = Never => packs[i].until = Never
          BY <1>4, <1>6, <2>1
        <4> QED BY <1>5, <1>9, <2>1, <3>1, <3>3, <4>1
      <3> QED BY <3>2, <3>3
    <2>4. Never' = Never
      BY DEF Never
    <2> QED BY <2>2, <2>3, <2>4 DEF Issued
  <1>11. \A i \in DOMAIN packs : \A s \in packs[i].rules :
            \/ status'[s] = status[s] /\ disabledAt'[s] = disabledAt[s]
            \/ status[s] = "PUBLISHED" /\ status'[s] = "DISABLED" /\ disabledAt'[s] = time
    <2> TAKE i \in DOMAIN packs
    <2> TAKE s \in packs[i].rules
    <2>1. s \in Keys /\ status[s] \in {"PUBLISHED", "DISABLED"}
      BY <1>9
    <2> QED BY <1>3, <1>5, <2>1
  <1>12. \A i \in DOMAIN packs :
            /\ packs'[i].rules = packs[i].rules /\ packs'[i].from = packs[i].from
            /\ \/ packs'[i].until = packs[i].until
               \/ packs[i].until = Never /\ packs'[i].until = time
    BY <1>6
  <1>13. time' \in {time, time + 1} /\ DOMAIN packs \subseteq DOMAIN packs'
    BY <1>3, <1>6
  <1> QED BY <1>1, <1>7, <1>8, <1>10, <1>11, <1>12, <1>13, ServerStep

LEMMA PublishStep ==
  ASSUME DecisionInv, UNCHANGED <<updateVars, agentVars, browser, signalVars>>,
         NEW kind \in {"NATIVE", "CHROME"}, NEW rules \in SUBSET Keys, Publish(kind, rules)
  PROVE  DecisionInv'
  <1> DEFINE same == {i \in DOMAIN packs : packs[i].pack = kind}
             new == [pack |-> kind, rules |-> rules, from |-> time + 1, until |-> Never]
             n == Len(packs) + 1
  <1>1. UNCHANGED <<held, seen, browser, queue, stored, incidents, platform>>
    BY DEF updateVars, agentVars, signalVars
  <1>2. DecisionTypes /\ Apart /\ \A i \in DOMAIN packs : Issued(i)
    BY DEF DecisionInv
  <1>3. /\ time < MaxTime /\ rules # {} /\ \A r \in rules : status[r] = "APPROVED"
        /\ packs' = Append(Withdrawn(same), new)
        /\ status' = [r \in Keys |-> IF r \in rules THEN "PUBLISHED" ELSE status[r]]
        /\ time' = time + 1 /\ disabledAt' = disabledAt
    BY DEF Publish
  <1>4. /\ status \in [Keys -> {"DRAFT", "APPROVED", "PUBLISHED", "DISABLED"}]
        /\ time \in 0 .. MaxTime /\ MaxTime \in Nat /\ packs \in Seq(Packs) /\ Never = MaxTime + 1
    BY <1>2, BoundsAreNatural DEF DecisionTypes
  <1>5. status' \in [Keys -> {"DRAFT", "APPROVED", "PUBLISHED", "DISABLED"}] /\ time' \in 0 .. MaxTime
    BY <1>3, <1>4
  <1>6. new \in Packs
    BY <1>4 DEF Packs
  <1>7. /\ Withdrawn(same) \in Seq(Packs) /\ Len(Withdrawn(same)) = Len(packs)
        /\ DOMAIN Withdrawn(same) = DOMAIN packs
        /\ \A i \in DOMAIN packs :
              /\ Withdrawn(same)[i].rules = packs[i].rules /\ Withdrawn(same)[i].from = packs[i].from
              /\ Withdrawn(same)[i].until =
                    IF packs[i].until = Never /\ i \in same THEN time ELSE packs[i].until
    BY <1>2, PacksWithdrawn
  <1> HIDE DEF new, same
  <1>8. /\ packs' \in Seq(Packs) /\ Len(packs') = n /\ DOMAIN packs' = DOMAIN packs \union {n}
        /\ n \notin DOMAIN packs /\ packs'[n] = new
        /\ \A i \in DOMAIN packs : packs'[i] = Withdrawn(same)[i]
    BY <1>3, <1>6, <1>7, PacksAppended
  <1>9. \A i \in DOMAIN packs :
            /\ packs'[i].rules = packs[i].rules /\ packs'[i].from = packs[i].from
            /\ \/ packs'[i].until = packs[i].until
               \/ packs[i].until = Never /\ packs'[i].until = time
    BY <1>7, <1>8
  <1>10. DecisionTypes'
    <2>1. held' \in 0 .. Len(packs') /\ browser' \in 0 .. Len(packs')
      BY <1>1, <1>2, <1>4, <1>8 DEF DecisionTypes
    <2> QED BY <1>1, <1>2, <1>3, <1>5, <1>8, <2>1 DEF DecisionTypes
  <1>11. ASSUME NEW i \in DOMAIN packs
         PROVE  /\ packs[i].rules \subseteq Keys /\ packs[i].from \in Nat /\ packs[i].until \in Nat
                /\ packs[i].from \in 1 .. time
                /\ packs[i].until = Never \/ packs[i].until < time
                /\ \A s \in packs[i].rules : status[s] \in {"PUBLISHED", "DISABLED"}
                /\ packs[i].until = Never => \A s \in packs[i].rules : status[s] = "PUBLISHED"
    <2>1. packs[i] \in Packs /\ Issued(i)
      BY <1>2, <1>4
    <2> QED BY <2>1 DEF Issued, Packs
  <1>12. ASSUME NEW i \in DOMAIN packs, NEW s \in packs[i].rules
         PROVE  s \notin rules /\ s \in Keys /\ status'[s] = status[s] /\ disabledAt'[s] = disabledAt[s]
    <2>1. s \in Keys /\ status[s] \in {"PUBLISHED", "DISABLED"}
      BY <1>11
    <2> QED BY <1>3, <2>1
  <1>13. packs'[n].rules = rules /\ packs'[n].from = time + 1 /\ packs'[n].until = Never
    BY <1>8 DEF new
  <1>14. Apart'
    <2> SUFFICES ASSUME NEW i \in DOMAIN packs', NEW j \in DOMAIN packs',
                        packs'[i].rules \intersect packs'[j].rules # {}
                 PROVE  i = j
      BY DEF Apart
    <2>1. CASE i \in DOMAIN packs /\ j \in DOMAIN packs
      BY <1>2, <1>9, <2>1 DEF Apart
    <2>2. CASE i \in DOMAIN packs /\ j = n
      BY <1>9, <1>12, <1>13, <2>2
    <2>3. CASE i = n /\ j \in DOMAIN packs
      BY <1>9, <1>12, <1>13, <2>3
    <2> QED BY <1>8, <2>1, <2>2, <2>3
  <1>15. ASSUME NEW i \in DOMAIN packs'
         PROVE  Issued(i)'
    <2>1. Never' = Never
      BY DEF Never
    <2>2. CASE i \in DOMAIN packs
      <3>1. packs'[i].from \in 1 .. time' /\ (packs'[i].until = Never \/ packs'[i].until < time')
        BY <1>3, <1>4, <1>9, <1>11, <2>2
      <3>2. packs'[i].until = Never => packs[i].until = Never
        BY <1>4, <1>9, <2>2
      <3>3. \A s \in packs'[i].rules : /\ status'[s] \in {"PUBLISHED", "DISABLED"}
                                       /\ packs'[i].until = Never => status'[s] = "PUBLISHED"
        BY <1>9, <1>11, <1>12, <2>2, <3>2
      <3> QED BY <2>1, <3>1, <3>3 DEF Issued
    <2>3. CASE i = n
      <3>1. packs'[i].from \in 1 .. time'
        BY <1>3, <1>4, <1>13, <2>3
      <3>2. \A s \in packs'[i].rules : status'[s] = "PUBLISHED"
        BY <1>3, <1>13, <2>3
      <3> QED BY <1>13, <2>1, <2>3, <3>1, <3>2 DEF Issued
    <2> QED BY <1>8, <2>2, <2>3
  <1>16. time' \in {time, time + 1} /\ DOMAIN packs \subseteq DOMAIN packs'
    BY <1>3, <1>8
  <1> QED BY <1>1, <1>9, <1>10, <1>12, <1>14, <1>15, <1>16, ServerStep

\* A new signal takes nothing back, and what it adds is what is decided on again.
LEMMA ConfirmedGrows ==
  ASSUME NEW s \in Seq(Signals), NEW e \in Signals,
         NEW t, t = Append(s, e)
  PROVE  /\ DOMAIN t = DOMAIN s \union {Len(t)} /\ Evaluated(t) \subseteq DOMAIN t /\ Len(t) \in Evaluated(t)
         /\ \A i \in DOMAIN s : Confirmed(i, s) => Confirmed(i, t)
         /\ \A i \in DOMAIN s : Confirmed(i, t) => Confirmed(i, s) \/ i \in Evaluated(t)
  <1>1. /\ t \in Seq(Signals) /\ Len(t) = Len(s) + 1 /\ DOMAIN t = DOMAIN s \union {Len(t)}
        /\ Len(t) \notin DOMAIN s /\ \A i \in DOMAIN s : t[i] = s[i]
    BY SignalsAppended
  <1>2. Evaluated(t) \subseteq DOMAIN t /\ Len(t) \in Evaluated(t)
    BY <1>1 DEF Evaluated
  <1>3. ASSUME NEW i \in DOMAIN s, Confirmed(i, s)
        PROVE  Confirmed(i, t)
    <2>1. t[i] = s[i]
      BY <1>1
    <2>2. ASSUME NEW key, \E j \in DOMAIN s \ {i} : Supports(s[j], key)
          PROVE  \E j \in DOMAIN t \ {i} : Supports(t[j], key)
      <3>1. PICK j \in DOMAIN s \ {i} : Supports(s[j], key)
        BY <2>2
      <3>2. j \in DOMAIN t \ {i} /\ t[j] = s[j]
        BY <1>1
      <3> QED BY <3>1, <3>2
    <2> QED BY <1>3, <2>1, <2>2, Zenon DEF Confirmed
  <1>4. ASSUME NEW i \in DOMAIN s, Confirmed(i, t), i \notin Evaluated(t)
        PROVE  Confirmed(i, s)
    <2> DEFINE rule == Rules[s[i].rule]
    <2>1. t[i] = s[i] /\ i \in DOMAIN t
      BY <1>1
    <2>2. rule.confidence # "MEDIUM" \/ t[Len(t)].rule \notin rule.requires
      BY <1>4, <2>1 DEF Evaluated
    <2>3. ASSUME rule.confidence = "MEDIUM", NEW key \in rule.requires,
                 \E j \in DOMAIN t \ {i} : Supports(t[j], key)
          PROVE  \E j \in DOMAIN s \ {i} : Supports(s[j], key)
      <3>1. PICK j \in DOMAIN t \ {i} : Supports(t[j], key)
        BY <2>3
      <3>2. t[j].rule = key
        BY <3>1 DEF Supports
      <3>3. j # Len(t)
        BY <2>2, <2>3, <3>2
      <3>4. j \in DOMAIN s \ {i} /\ t[j] = s[j]
        BY <1>1, <3>3
      <3> QED BY <3>1, <3>4
    <2> QED BY <1>4, <2>1, <2>3, Zenon DEF Confirmed
  <1> QED BY <1>1, <1>2, <1>3, <1>4

LEMMA IngestStep ==
  ASSUME DecisionInv, Ingest
  PROVE  DecisionInv'
  <1> DEFINE e == Head(queue)
  <1>1. /\ queue # <<>> /\ queue' = Tail(queue) /\ stored' = Append(stored, e)
        /\ incidents' = incidents \union {i \in Evaluated(stored') : Confirmed(i, stored')}
        /\ UNCHANGED <<serverVars, held, seen, browser, platform>>
    BY DEF Ingest, updateVars, agentVars
  <1>2. DecisionTypes /\ queue \in Seq(Signals) /\ stored \in Seq(Signals)
    BY DEF DecisionInv, DecisionTypes
  <1>3. /\ e \in Signals /\ Tail(queue) \in Seq(Signals) /\ 1 \in DOMAIN queue /\ queue[1] = e
        /\ \A i \in DOMAIN Tail(queue) : i + 1 \in DOMAIN queue /\ Tail(queue)[i] = queue[i + 1]
        /\ \A i \in DOMAIN queue : i = 1 \/ (i - 1 \in DOMAIN Tail(queue) /\ Tail(queue)[i - 1] = queue[i])
    BY <1>1, <1>2, SignalsTaken
  <1> HIDE DEF e
  <1>4. /\ stored' \in Seq(Signals) /\ DOMAIN stored' = DOMAIN stored \union {Len(stored) + 1}
        /\ \A i \in DOMAIN stored : stored'[i] = stored[i]
        /\ stored'[Len(stored) + 1] = e
    BY <1>1, <1>2, <1>3, SignalsAppended
  <1>5. DecisionTypes'
    BY <1>1, <1>2, <1>3, <1>4 DEF DecisionTypes, serverVars
  <1>6. Apart' /\ \A i \in DOMAIN packs' : Issued(i)'
    BY <1>1 DEF DecisionInv, Apart, Issued, serverVars
  <1>7. \A i \in DOMAIN queue' : Made(queue[i])'
    <2> TAKE i \in DOMAIN queue'
    <2>1. i + 1 \in DOMAIN queue /\ queue'[i] = queue[i + 1]
      BY <1>1, <1>3
    <2>2. Made(queue'[i])
      BY <2>1 DEF DecisionInv
    <2> QED BY <1>1, <2>2 DEF Made, Matched, serverVars
  <1>8. \A i \in DOMAIN stored' : Made(stored[i])'
    <2> TAKE i \in DOMAIN stored'
    <2>1. Made(e)
      BY <1>3 DEF DecisionInv
    <2>2. Made(stored'[i])
      BY <1>4, <2>1 DEF DecisionInv
    <2> QED BY <1>1, <2>2 DEF Made, Matched, serverVars
  <1>9. \A r \in Keys : Told(r)'
    <2> SUFFICES ASSUME NEW r \in Keys, NEW use \in seen[r], use # {}
                 PROVE  \/ (\E i \in DOMAIN queue' : queue'[i].rule = r /\ queue'[i].use # {})
                        \/ \E i \in DOMAIN stored' : stored'[i].rule = r /\ stored'[i].use # {}
      BY <1>1 DEF Told
    <2>1. \/ (\E i \in DOMAIN queue : queue[i].rule = r /\ queue[i].use # {})
          \/ \E i \in DOMAIN stored : stored[i].rule = r /\ stored[i].use # {}
      BY DEF DecisionInv, Told
    <2>2. CASE \E i \in DOMAIN stored : stored[i].rule = r /\ stored[i].use # {}
      <3>1. PICK i \in DOMAIN stored : stored[i].rule = r /\ stored[i].use # {}
        BY <2>2
      <3>2. i \in DOMAIN stored' /\ stored'[i] = stored[i]
        BY <1>4
      <3> QED BY <3>1, <3>2
    <2>3. CASE \E i \in DOMAIN queue : queue[i].rule = r /\ queue[i].use # {}
      <3>1. PICK i \in DOMAIN queue : queue[i].rule = r /\ queue[i].use # {}
        BY <2>3
      <3>2. CASE i = 1
        <4>1. Len(stored) + 1 \in DOMAIN stored' /\ stored'[Len(stored) + 1] = queue[i]
          BY <1>3, <1>4, <3>2
        <4> QED BY <3>1, <4>1
      <3>3. CASE i # 1
        <4>1. i - 1 \in DOMAIN queue' /\ queue'[i - 1] = queue[i]
          BY <1>1, <1>3, <3>3
        <4> QED BY <3>1, <4>1
      <3> QED BY <3>2, <3>3
    <2> QED BY <2>1, <2>2, <2>3
  <1>10. incidents' = {i \in DOMAIN stored' : Confirmed(i, stored)'}
    <2>1. \A i \in DOMAIN stored' : Confirmed(i, stored)' <=> Confirmed(i, stored')
      <3>1. \A x : Matched(x)' <=> Matched(x)
        BY <1>1 DEF Matched, serverVars
      <3>2. /\ \A i \in DOMAIN stored' : Matched(stored[i])' <=> Matched(stored'[i])
            /\ \A i \in DOMAIN stored' : \A key : Supports(stored[i], key)' <=> Supports(stored'[i], key)
            /\ \A i \in DOMAIN stored' : ActiveUse(stored[i])' <=> ActiveUse(stored'[i])
            /\ \A i \in DOMAIN stored' : Identified(stored[i])' <=> Identified(stored'[i])
        BY <1>1 DEF Matched, Supports, ActiveUse, Identified, Browser, serverVars
      <3> QED BY <3>2, Zenon DEF Confirmed
    <2>2. /\ DOMAIN stored' = DOMAIN stored \union {Len(stored')}
          /\ Evaluated(stored') \subseteq DOMAIN stored' /\ Len(stored') \in Evaluated(stored')
          /\ \A i \in DOMAIN stored : Confirmed(i, stored) => Confirmed(i, stored')
          /\ \A i \in DOMAIN stored : Confirmed(i, stored') => Confirmed(i, stored) \/ i \in Evaluated(stored')
      BY <1>1, <1>2, <1>3, ConfirmedGrows
    <2>3. incidents = {i \in DOMAIN stored : Confirmed(i, stored)}
      BY DEF DecisionInv
    <2>4. incidents' = {i \in DOMAIN stored' : Confirmed(i, stored')}
      BY <1>1, <2>2, <2>3
    <2> QED BY <2>1, <2>4
  <1> QED BY <1>5, <1>6, <1>7, <1>8, <1>9, <1>10 DEF DecisionInv

\* Decisions keep their invariant: what is confirmed among the stored signals are the
\* incidents, and signals mean later what they meant when they were made.
THEOREM DecisionInvariance == Spec => []DecisionInv
  <1>1. ASSUME DecisionInv, [Next]_vars
        PROVE  DecisionInv'
    <2>1. CASE UNCHANGED vars
      <3>1. UNCHANGED <<serverVars, signalVars, platform, held, browser, seen>>
        BY <2>1 DEF vars, updateVars, agentVars
      <3>2. held' \in 0 .. Len(packs) /\ browser' \in 0 .. Len(packs) /\ seen' \in [Keys -> SUBSET Uses]
        BY <1>1, <3>1 DEF DecisionInv, DecisionTypes
      <3> QED BY <1>1, <3>1, <3>2, SilentStep
    <2>2. CASE \/ UpdateNext /\ UNCHANGED <<serverVars, agentVars, browser, signalVars>>
               \/ Work \/ RefreshRules \/ Stops
      BY <1>1, <2>2, VerifierStep
    <2>3. CASE Operators
      BY <1>1, <2>3, ApproveStep, DisableStep, PublishStep DEF Operators
    <2>4. CASE Ingest
      BY <1>1, <2>4, IngestStep
    <2>5. CASE \E r \in Keys : \E use \in SUBSET Rules[r].signs : Observe(r, use) \/ ReportExtension(r, use)
      BY <1>1, <2>5, ObserveStep, ReportExtensionStep
    <2> QED BY <1>1, <2>1, <2>2, <2>3, <2>4, <2>5 DEF Next
  <1> QED BY DecisionInitially, <1>1, PTL DEF Spec

\* The server has confirmed what decideDetection confirms among the signals that were
\* made with a rule and a pack in force, in whatever order they arrived
\* (037_order_independent_detection, packages/detection-rules/src/index.ts:28).
THEOREM ServerDecidesAsReference == Spec => []DecidesAsReference
  <1>1. ASSUME DecisionInv
        PROVE  DecidesAsReference
    <2> DEFINE valid == {i \in DOMAIN stored : stored[i].valid}
    <2>1. \A i \in DOMAIN stored : stored[i].valid <=> Matched(stored[i])
      BY <1>1 DEF DecisionInv, Made
    <2>2. ASSUME NEW i \in DOMAIN stored
          PROVE  i \in valid /\ HasRequiredSupport(i, valid)
                 <=> /\ Matched(stored[i]) /\ Rules[stored[i].rule].requires # {}
                     /\ HasTechnicalEvidence(stored[i])
                     /\ \A key \in Rules[stored[i].rule].requires :
                           \E j \in DOMAIN stored \ {i} : Supports(stored[j], key)
      <3>1. \A key : (\E j \in valid \ {i} :
                        /\ stored[j].rule = key /\ Rules[key].confidence = "MEDIUM"
                        /\ HasTechnicalEvidence(stored[j]))
                     <=> \E j \in DOMAIN stored \ {i} : Supports(stored[j], key)
        BY <2>1 DEF Supports, HasTechnicalEvidence
      <3> QED BY <2>1, <3>1 DEF HasRequiredSupport
    <2>3. ASSUME NEW i \in DOMAIN stored
          PROVE  Confirmed(i, stored) <=> i \in DecideDetection(valid)
      <3>1. i \in valid <=> Matched(stored[i])
        BY <2>1
      <3> HIDE DEF valid
      <3> QED BY <2>2, <3>1 DEF Confirmed, DecideDetection, HasTechnicalEvidence
    <2>4. DecideDetection(valid) \subseteq DOMAIN stored
      BY DEF DecideDetection
    <2>5. incidents = {i \in DOMAIN stored : Confirmed(i, stored)}
      BY <1>1 DEF DecisionInv
    <2> HIDE DEF valid
    <2>6. incidents = DecideDetection(valid)
      BY <2>3, <2>4, <2>5
    <2> QED BY <2>6 DEF DecidesAsReference, valid
  <1> QED BY DecisionInvariance, <1>1, PTL

\* A tool of a HIGH rule that the verifier saw in use is a confirmed incident as soon
\* as nothing waits to be delivered and its pack is still in force, across restarts
\* of the verifier and whatever was seen of the tool before.
THEOREM UseIsConfirmed == Spec => []ActiveToolIsConfirmed
  <1>1. ASSUME DecisionInv
        PROVE  ActiveToolIsConfirmed
    <2> SUFFICES ASSUME NEW r \in Keys, queue = <<>>, NEW use \in seen[r], use # {},
                        Rules[r].confidence = "HIGH", InForce(held), r \in packs[held].rules
                 PROVE  \E i \in incidents : stored[i].rule = r
      BY DEF ActiveToolIsConfirmed
    <2>1. /\ packs \in Seq(Packs) /\ held \in 0 .. Len(packs) /\ time \in 0 .. MaxTime
          /\ MaxTime \in Nat /\ Never = MaxTime + 1
      BY <1>1, BoundsAreNatural DEF DecisionInv, DecisionTypes
    <2>2. held \in DOMAIN packs /\ packs[held].until = Never /\ held # Fallback
      BY <2>1 DEF InForce, Fallback
    <2>3. DOMAIN queue = {}
      OBVIOUS
    <2>4. PICK i \in DOMAIN stored : stored[i].rule = r /\ stored[i].use # {}
      BY <1>1, <2>3 DEF DecisionInv, Told
    <2>5. Made(stored[i])
      BY <1>1 DEF DecisionInv
    <2>6. stored[i].pack = held
      BY <1>1, <2>2, <2>4, <2>5 DEF DecisionInv, Apart, Made
    <2>7. status[r] = "PUBLISHED"
      BY <1>1, <2>2, Zenon DEF DecisionInv, Issued
    <2>8. stored[i].at \in packs[held].from .. packs[held].until
      <3>1. stored[i].at \in packs[held].from .. time /\ packs[held] \in Packs
        BY <2>1, <2>2, <2>5, <2>6 DEF Made
      <3> QED BY <2>1, <2>2, <3>1 DEF Packs
    <2>9. Matched(stored[i])
      BY <2>2, <2>4, <2>6, <2>7, <2>8 DEF Matched
    <2>10. Confirmed(i, stored)
      BY <2>4, <2>9 DEF Confirmed, ActiveUse
    <2> QED BY <1>1, <2>4, <2>10 DEF DecisionInv
  <1> QED BY DecisionInvariance, <1>1, PTL

-----------------------------------------------------------------------------
(* The update of the verifier: the inductive invariant *)

Update == Replace \o Finish
Undo == RestoreDirectories \o Cleanup

\* What is left of a plan after k of its operations.
Rest(plan, k) == [i \in 1 .. (Len(plan) - k) |-> plan[i + k]]

exe == files["exe"]

\* Helpers failed only, or the machine did, or neither, and no helper was overlapped by
\* a verifier that the candidate opened.
Claimed == failures.overlaps = 0 /\ 0 \in {failures.errors, failures.interruptions}

\* A part that a rollback may leave out.
MayMiss(p) == failures.errors # 0 \/ p = "host"

InVersion(p) == files[p] = exe \/ (files[p] = Missing /\ MayMiss(p))
Uniform == \A p \in Parts : InVersion(p)

\* A part from which the version of the executable can be restored.
Kept(p) == IF Saved(p) THEN backup[p] = exe ELSE files[p] = exe \/ MayMiss(p)
SavedInVersion == \A p \in Parts : Saved(p) => backup[p] = exe

DiskTypes ==
    /\ files \in [Parts \union {"exe"} -> Nat] /\ exe # Missing
    /\ backup = NoBackup \/ backup \in [Parts -> Nat]
    /\ deployed \in DOMAIN Manifests /\ package \in Nat

\* Wherever the machine went down, the next start finds out what to do: there is
\* nothing to do for a uniform installation, and every part of another can be restored.
Resting ==
    /\ IF journal = NoJournal \/ Committed THEN Uniform ELSE \A p \in Parts : Kept(p)
    /\ failures.interruptions = 0 => journal = NoJournal

\* The verifier restores the parts one after another.
Restoring(k) ==
    /\ recovery = Rest(Undo, k)
    /\ journal = NoJournal <=> k = 8
    /\ k <= 5 => ~Committed
    /\ k \in 2 .. 5 => ~Saved("native")
    /\ k \in 4 .. 5 => ~Saved("installer")
    /\ k = 5 => files["host"] = Missing
    /\ k >= 6 => Uniform

\* The helper replaces them one after another.
Replacing(k) ==
    /\ helper = Rest(Update, k)
    /\ package # Missing
    /\ k <= 9 => backup \in [Parts -> Nat] /\ package # exe /\ SavedInVersion
    /\ journal = IF k \in {0, 12} THEN NoJournal
                 ELSE [phase |-> IF k <= 6 THEN "prepared"
                                 ELSE IF k = 7 THEN "assets_replaced" ELSE "commit_executable",
                       version |-> package]
    /\ k <= 1 => InVersion("native") /\ ~Saved("native")
    /\ k \in 2 .. 9 => Saved("native") \/ MayMiss("native")
    /\ k \in 3 .. 9 => files["native"] = package
    /\ k <= 3 => InVersion("installer") /\ ~Saved("installer")
    /\ k \in 4 .. 9 => Saved("installer") \/ MayMiss("installer")
    /\ k \in 5 .. 9 => files["installer"] = package
    /\ k <= 5 => InVersion("host") /\ ~Saved("host")
    /\ k = 9 => files["host"] = package
    /\ k >= 10 => exe = package /\ \A p \in Parts : files[p] = exe

\* The helper gives up and puts back what it saved.
GivingUp(k) ==
    /\ helper = Rest(GiveUp, k)
    /\ failures.errors # 0 /\ backup \in [Parts -> Nat] /\ SavedInVersion
    /\ k = 1 => files["native"] = Missing
    /\ k >= 2 => InVersion("native")
    /\ k = 3 => files["installer"] = Missing
    /\ k >= 4 => InVersion("installer")
    /\ k = 5 => files["host"] = Missing
    /\ k >= 6 => InVersion("host")

Idle ==
    /\ helper = <<>> /\ Resting
    /\ \/ verifier = "off" /\ recovery = <<>>
       \/ verifier = "starting" /\ \E k \in 0 .. 8 : Restoring(k)
       \/ verifier = "running" /\ Restoring(8)

Helping ==
    /\ verifier = "off" /\ recovery = <<>>
    /\ \/ \E k \in 0 .. 12 : Replacing(k)
       \/ \E k \in 0 .. 6 : GivingUp(k)

UpdateInv ==
    /\ failures \in [errors : Nat, interruptions : Nat, overlaps : Nat]
    /\ Claimed => DiskTypes /\ (Idle \/ Helping)

-----------------------------------------------------------------------------
(* Plans *)

LEMMA OperationsAre ==
  /\ \A p \in Parts : {Out(p), In(p), Remove(p), RemoveSaved(p), Back(p)} \subseteq Operations
  /\ In("exe") \in Operations /\ \A name \in Phases : Write(name) \in Operations
  /\ {Discard, Forget, Start} \subseteq Operations
  BY Zenon DEF Operations

LEMMA PlansJoined ==
  \A a, b \in Seq(Operations) :
     /\ a \o b \in Seq(Operations) /\ Len(a \o b) = Len(a) + Len(b)
     /\ \A i \in 1 .. Len(a) : (a \o b)[i] = a[i]
     /\ \A i \in 1 .. Len(b) : (a \o b)[Len(a) + i] = b[i]
  OBVIOUS

LEMMA PlanOfTheHelper ==
  /\ Update \in Seq(Operations) /\ Len(Update) = 13
  /\ Update[1] = Write("prepared") /\ Update[2] = Out("native") /\ Update[3] = In("native")
  /\ Update[4] = Out("installer") /\ Update[5] = In("installer") /\ Update[6] = Out("host")
  /\ Update[7] = Write("assets_replaced") /\ Update[8] = Write("commit_executable")
  /\ Update[9] = In("host") /\ Update[10] = In("exe") /\ Update[11] = Discard
  /\ Update[12] = Forget /\ Update[13] = Start
  <1>1. Replace \in Seq(Operations) /\ Len(Replace) = 10 /\ Finish \in Seq(Operations) /\ Len(Finish) = 3
    BY OperationsAre DEF Replace, Finish, Parts, Phases
  <1>2. /\ Update \in Seq(Operations) /\ Len(Update) = 13
        /\ \A i \in 1 .. 10 : Update[i] = Replace[i]
        /\ \A i \in 1 .. 3 : Update[10 + i] = Finish[i]
    <2>1. /\ Replace \o Finish \in Seq(Operations) /\ Len(Replace \o Finish) = Len(Replace) + Len(Finish)
          /\ \A i \in 1 .. Len(Replace) : (Replace \o Finish)[i] = Replace[i]
          /\ \A i \in 1 .. Len(Finish) : (Replace \o Finish)[Len(Replace) + i] = Finish[i]
      BY <1>1, PlansJoined
    <2>2. Update = Replace \o Finish
      BY DEF Update
    <2>3. Len(Replace) + Len(Finish) = 13 /\ 1 .. Len(Replace) = 1 .. 10 /\ 1 .. Len(Finish) = 1 .. 3
      BY <1>1
    <2> QED BY <1>1, <2>1, <2>2, <2>3, Zenon
  <1>3. /\ Replace[1] = Write("prepared") /\ Replace[2] = Out("native")
        /\ Replace[3] = In("native") /\ Replace[4] = Out("installer")
        /\ Replace[5] = In("installer") /\ Replace[6] = Out("host")
        /\ Replace[7] = Write("assets_replaced") /\ Replace[8] = Write("commit_executable")
        /\ Replace[9] = In("host") /\ Replace[10] = In("exe")
    BY DEF Replace
  <1>4. /\ Finish[1] = Discard /\ Finish[2] = Forget /\ Finish[3] = Start
    BY DEF Finish
  <1> QED BY <1>2, <1>3, <1>4

LEMMA PlanOfTheRecovery ==
  /\ Undo \in Seq(Operations) /\ Len(Undo) = 8
  /\ Undo[1] = RemoveSaved("native") /\ Undo[2] = Back("native")
  /\ Undo[3] = RemoveSaved("installer") /\ Undo[4] = Back("installer") /\ Undo[5] = Remove("host")
  /\ Undo[6] = Back("host") /\ Undo[7] = Discard /\ Undo[8] = Forget
  <1>1. /\ RestoreDirectories \in Seq(Operations) /\ Len(RestoreDirectories) = 6
        /\ Cleanup \in Seq(Operations) /\ Len(Cleanup) = 2
    BY OperationsAre DEF RestoreDirectories, Cleanup, Parts
  <1>2. /\ Undo \in Seq(Operations) /\ Len(Undo) = 8
        /\ \A i \in 1 .. 6 : Undo[i] = RestoreDirectories[i]
        /\ \A i \in 1 .. 2 : Undo[6 + i] = Cleanup[i]
    <2>1. /\ RestoreDirectories \o Cleanup \in Seq(Operations)
          /\ Len(RestoreDirectories \o Cleanup) = Len(RestoreDirectories) + Len(Cleanup)
          /\ \A i \in 1 .. Len(RestoreDirectories) : (RestoreDirectories \o Cleanup)[i] = RestoreDirectories[i]
          /\ \A i \in 1 .. Len(Cleanup) : (RestoreDirectories \o Cleanup)[Len(RestoreDirectories) + i] = Cleanup[i]
      BY <1>1, PlansJoined
    <2> QED BY <1>1, <2>1 DEF Undo
  <1>3. /\ RestoreDirectories[1] = RemoveSaved("native") /\ RestoreDirectories[2] = Back("native")
        /\ RestoreDirectories[3] = RemoveSaved("installer")
        /\ RestoreDirectories[4] = Back("installer") /\ RestoreDirectories[5] = Remove("host")
        /\ RestoreDirectories[6] = Back("host")
    BY DEF RestoreDirectories
  <1>4. /\ Cleanup[1] = Discard /\ Cleanup[2] = Forget
    BY DEF Cleanup
  <1> QED BY <1>2, <1>3, <1>4

LEMMA PlanOfTheRollback ==
  /\ GiveUp \in Seq(Operations) /\ Len(GiveUp) = 7
  /\ GiveUp[1] = Remove("native") /\ GiveUp[2] = Back("native") /\ GiveUp[3] = Remove("installer")
  /\ GiveUp[4] = Back("installer") /\ GiveUp[5] = Remove("host") /\ GiveUp[6] = Back("host")
  /\ GiveUp[7] = Forget
  BY OperationsAre DEF GiveUp, Parts

\* An operation after the other.
LEMMA PlanGoesOn ==
  ASSUME NEW plan \in Seq(Operations), NEW k \in 0 .. Len(plan)
  PROVE  /\ Rest(plan, k) \in Seq(Operations) /\ Len(Rest(plan, k)) = Len(plan) - k
         /\ \A j \in DOMAIN Rest(plan, k) : j \in 1 .. (Len(plan) - k) /\ Rest(plan, k)[j] = plan[j + k]
         /\ Rest(plan, k) = <<>> <=> k = Len(plan)
         /\ k < Len(plan) => /\ Head(Rest(plan, k)) = plan[k + 1]
                             /\ Tail(Rest(plan, k)) = Rest(plan, k + 1)
  <1>1. Len(plan) \in Nat /\ k \in Nat /\ Len(plan) - k \in Nat
    OBVIOUS
  <1>2. \A i \in 1 .. (Len(plan) - k) : plan[i + k] \in Operations
    BY <1>1
  <1>3. Rest(plan, k) \in Seq(Operations) /\ Len(Rest(plan, k)) = Len(plan) - k
    BY <1>1, <1>2 DEF Rest
  <1>4. \A j \in DOMAIN Rest(plan, k) : j \in 1 .. (Len(plan) - k) /\ Rest(plan, k)[j] = plan[j + k]
    BY DEF Rest
  <1>5. Rest(plan, k) = <<>> <=> k = Len(plan)
    BY <1>1, <1>3
  <1>6. ASSUME k < Len(plan)
        PROVE  /\ Head(Rest(plan, k)) = plan[k + 1]
               /\ Tail(Rest(plan, k)) = Rest(plan, k + 1)
    <2>1. Rest(plan, k) # <<>> /\ Head(Rest(plan, k)) = Rest(plan, k)[1]
      BY <1>1, <1>3, <1>5, <1>6
    <2>2. Rest(plan, k)[1] = plan[1 + k] /\ 1 + k = k + 1
      BY <1>1, <1>6 DEF Rest
    <2>3. Tail(Rest(plan, k)) \in Seq(Operations) /\ Len(Tail(Rest(plan, k))) = Len(plan) - (k + 1)
      BY <1>1, <1>3, <1>6, <2>1
    <2>4. \A i \in 1 .. (Len(plan) - (k + 1)) : Tail(Rest(plan, k))[i] = Rest(plan, k)[i + 1]
      BY <1>1, <1>3, <1>6, <2>1
    <2>5. \A i \in 1 .. (Len(plan) - (k + 1)) : Tail(Rest(plan, k))[i] = plan[i + (k + 1)]
      <3> TAKE i \in 1 .. (Len(plan) - (k + 1))
      <3>1. i + 1 \in 1 .. (Len(plan) - k) /\ (i + 1) + k = i + (k + 1)
        BY <1>1
      <3>2. Rest(plan, k)[i + 1] = plan[(i + 1) + k]
        BY <3>1, Zenon DEF Rest
      <3> QED BY <2>4, <3>1, <3>2
    <2>6. Tail(Rest(plan, k)) = Rest(plan, k + 1)
      BY <1>1, <1>6, <2>3, <2>5 DEF Rest
    <2> QED BY <2>1, <2>2, <2>6
  <1> QED BY <1>3, <1>4, <1>5, <1>6

LEMMA RestsAre ==
  /\ Rest(Update, 0) = Replace \o Finish /\ Rest(GiveUp, 0) = GiveUp
  /\ Rest(Undo, 0) = RestoreDirectories \o Cleanup /\ Rest(Undo, 6) = Cleanup /\ Rest(Undo, 8) = <<>>
  <1>1. ASSUME NEW plan \in Seq(Operations)
        PROVE  Rest(plan, 0) = plan
    <2>1. \A i \in 1 .. Len(plan) : i + 0 = i
      OBVIOUS
    <2> QED BY <2>1 DEF Rest
  <1>2. Rest(Update, 0) = Update /\ Rest(GiveUp, 0) = GiveUp /\ Rest(Undo, 0) = Undo
    BY <1>1, PlanOfTheHelper, PlanOfTheRecovery, PlanOfTheRollback
  <1>3. Rest(Undo, 8) = <<>>
    <2>1. 8 \in 0 .. Len(Undo)
      BY PlanOfTheRecovery
    <2> QED BY <2>1, PlanGoesOn, PlanOfTheRecovery
  <1>4. Rest(Undo, 6) = Cleanup
    <2>1. Len(Rest(Undo, 6)) = 2 /\ Rest(Undo, 6) \in Seq(Operations)
      <3>1. 6 \in 0 .. Len(Undo) /\ Undo \in Seq(Operations) /\ Len(Undo) - 6 = 2
        BY PlanOfTheRecovery
      <3>2. Rest(Undo, 6) \in Seq(Operations) /\ Len(Rest(Undo, 6)) = Len(Undo) - 6
        BY <3>1, PlanGoesOn
      <3> QED BY <3>1, <3>2
    <2>2. Rest(Undo, 6)[1] = Discard /\ Rest(Undo, 6)[2] = Forget
      BY PlanOfTheRecovery DEF Rest
    <2> QED BY <2>1, <2>2 DEF Cleanup
  <1> QED BY <1>2, <1>3, <1>4 DEF Update, Undo

-----------------------------------------------------------------------------
(* What the operations do *)

LEMMA OperateOut ==
  ASSUME NEW p, Operate(Out(p))
  PROVE  /\ files' = [files EXCEPT ![p] = Missing]
         /\ backup' = IF files[p] = Missing THEN backup ELSE [backup EXCEPT ![p] = files[p]]
         /\ journal' = journal
  BY DEF Operate, Out

LEMMA OperateIn ==
  ASSUME NEW p, Operate(In(p)), Unpacked \/ p = "exe"
  PROVE  files' = [files EXCEPT ![p] = package] /\ backup' = backup /\ journal' = journal
  BY DEF Operate, In

LEMMA OperateRemove ==
  ASSUME NEW p, Operate(Remove(p))
  PROVE  files' = [files EXCEPT ![p] = Missing] /\ backup' = backup /\ journal' = journal
  BY DEF Operate, Remove

LEMMA OperateRemoveSaved ==
  ASSUME NEW p, Operate(RemoveSaved(p))
  PROVE  /\ files' = IF Saved(p) THEN [files EXCEPT ![p] = Missing] ELSE files
         /\ backup' = backup /\ journal' = journal
  BY DEF Operate, RemoveSaved

LEMMA OperateBack ==
  ASSUME NEW p, Operate(Back(p))
  PROVE  /\ files' = IF Saved(p) THEN [files EXCEPT ![p] = backup[p]] ELSE files
         /\ backup' = IF Saved(p) THEN [backup EXCEPT ![p] = Missing] ELSE backup
         /\ journal' = journal
  BY DEF Operate, Back

LEMMA OperateWrite ==
  ASSUME NEW name, Operate(Write(name))
  PROVE  journal' = [phase |-> name, version |-> package] /\ files' = files /\ backup' = backup
  BY DEF Operate, Write

LEMMA OperateCleanup ==
  /\ Operate(Discard) => backup' = NoBackup /\ files' = files /\ journal' = journal
  /\ Operate(Forget) => journal' = NoJournal /\ files' = files /\ backup' = backup
  /\ ~Operate(Start)
  BY DEF Operate, Discard, Forget, Start

-----------------------------------------------------------------------------
(* Every step preserves the invariant *)

LEMMA PartsAre ==
  /\ Parts = {"native", "installer", "host"} /\ "exe" \notin Parts
  /\ MayMiss("host") /\ NoBackup # Empty
  /\ \A p \in Parts : Saved(p) <=> p \in DOMAIN backup /\ backup[p] # Missing
  BY DEF Parts, MayMiss, NoBackup, Empty, Saved

LEMMA NothingIsSaved ==
  /\ DOMAIN NoBackup = {} /\ (backup = NoBackup => \A p \in Parts : ~Saved(p))
  /\ Empty \in [Parts -> Nat] /\ (backup = Empty => \A p \in Parts : ~Saved(p))
  BY DEF NoBackup, Empty, Saved, Missing

LEMMA UpdateInitially == Init => UpdateInv
  <1> SUFFICES ASSUME Init PROVE UpdateInv
    OBVIOUS
  <1> USE DEF Init, UpdateInit
  <1>1. DiskTypes
    <2>1. Manifests # <<>> /\ Manifests \in Seq([version : Nat \ {0}, minimum : Nat \ {0}])
      BY UpdateAssumption
    <2>2. 1 \in DOMAIN Manifests
      BY <2>1
    <2>3. files \in [Parts \union {"exe"} -> Nat] /\ exe # Missing
      BY DEF exe, Missing
    <2> QED BY <2>2, <2>3 DEF DiskTypes, Missing
  <1>2. Uniform
    BY DEF Uniform, InVersion, exe
  <1>3. Idle
    BY <1>2 DEF Idle, Resting
  <1> QED BY <1>1, <1>3 DEF UpdateInv

\* The steps that leave the disk and the helper alone.
LEMMA DiskUntouched ==
  ASSUME UNCHANGED <<diskVars, package>>, failures' = failures
  PROVE  /\ exe' = exe /\ Claimed' = Claimed /\ (Uniform' <=> Uniform) /\ (Resting' <=> Resting)
         /\ (Committed' <=> Committed)
         /\ \A p : /\ Saved(p)' <=> Saved(p)
                   /\ InVersion(p)' <=> InVersion(p)
                   /\ MayMiss(p)' <=> MayMiss(p)
  BY DEF diskVars, exe, Claimed, Uniform, InVersion, MayMiss, Resting, Committed, Kept, Saved

LEMMA RestUntouched ==
  ASSUME UNCHANGED <<package, diskVars, helper, verifier, recovery, failures>>, UpdateInv,
         deployed \in DOMAIN Manifests => deployed' \in DOMAIN Manifests
  PROVE  UpdateInv'
  <1>1. /\ exe' = exe /\ Claimed' = Claimed /\ (Uniform' <=> Uniform) /\ (Resting' <=> Resting)
        /\ (Committed' <=> Committed)
        /\ \A p : /\ Saved(p)' <=> Saved(p)
                  /\ InVersion(p)' <=> InVersion(p)
                  /\ MayMiss(p)' <=> MayMiss(p)
    BY DiskUntouched
  <1>2. /\ \A k \in 0 .. 8 : Restoring(k)' <=> Restoring(k)
        /\ \A k \in 0 .. 12 : Replacing(k)' <=> Replacing(k)
        /\ \A k \in 0 .. 6 : GivingUp(k)' <=> GivingUp(k)
    BY <1>1 DEF Restoring, Replacing, GivingUp, diskVars, SavedInVersion
  <1>3. Idle' <=> Idle
    BY <1>1, <1>2 DEF Idle
  <1>4. Helping' <=> Helping
    BY <1>2 DEF Helping
  <1>5. DiskTypes => DiskTypes'
    BY <1>1 DEF DiskTypes, diskVars
  <1> QED BY <1>1, <1>3, <1>4, <1>5 DEF UpdateInv

\* A helper at work has something to do.
LEMMA HelperAtWork ==
  /\ Helping => helper # <<>>
  /\ \A k \in 0 .. 8 : Restoring(k) => (recovery = <<>> <=> k = 8)
  <1>1. ASSUME NEW k \in 0 .. 12, Replacing(k)
        PROVE  helper # <<>>
    <2>1. k \in 0 .. Len(Update) /\ k # Len(Update) /\ Update \in Seq(Operations)
      BY PlanOfTheHelper
    <2>2. Rest(Update, k) # <<>>
      BY <2>1, PlanGoesOn
    <2> QED BY <1>1, <2>2 DEF Replacing
  <1>2. ASSUME NEW k \in 0 .. 6, GivingUp(k)
        PROVE  helper # <<>>
    <2>1. k \in 0 .. Len(GiveUp) /\ k # Len(GiveUp) /\ GiveUp \in Seq(Operations)
      BY PlanOfTheRollback
    <2>2. Rest(GiveUp, k) # <<>>
      BY <2>1, PlanGoesOn
    <2> QED BY <1>2, <2>2 DEF GivingUp
  <1>3. ASSUME NEW k \in 0 .. 8, Restoring(k)
        PROVE  recovery = <<>> <=> k = 8
    <2>1. k \in 0 .. Len(Undo) /\ Len(Undo) = 8 /\ Undo \in Seq(Operations)
      BY PlanOfTheRecovery
    <2>2. Rest(Undo, k) = <<>> <=> k = Len(Undo)
      BY <2>1, PlanGoesOn
    <2> QED BY <1>3, <2>1, <2>2 DEF Restoring
  <1> QED BY <1>1, <1>2, <1>3 DEF Helping

\* A verifier that starts has the recovery before it that its installation needs.
LEMMA RecoveryIsRight ==
  ASSUME Resting, Begin, UNCHANGED <<package, diskVars, failures>>
  PROVE  \E k \in 0 .. 8 : Restoring(k)'
  <1>1. (Uniform' <=> Uniform) /\ (Committed' <=> Committed)
    BY DiskUntouched
  <1>2. journal' = journal /\ recovery' = Recovery
    BY DEF Begin, diskVars
  <1>3. CASE journal = NoJournal
    <2>1. recovery' = Rest(Undo, 8)
      BY <1>2, <1>3, RestsAre DEF Recovery
    <2>2. Restoring(8)'
      BY <1>1, <1>2, <1>3, <2>1 DEF Restoring, Resting, Rest, Undo
    <2> QED BY <2>2
  <1>4. CASE journal # NoJournal /\ Committed
    <2>1. recovery' = Rest(Undo, 6)
      BY <1>2, <1>4, RestsAre DEF Recovery
    <2>2. Restoring(6)'
      BY <1>1, <1>2, <1>4, <2>1 DEF Restoring, Resting, Rest, Undo
    <2> QED BY <2>2
  <1>5. CASE journal # NoJournal /\ ~Committed
    <2>1. recovery' = Rest(Undo, 0)
      BY <1>2, <1>5, RestsAre DEF Recovery
    <2>2. Restoring(0)'
      BY <1>1, <1>2, <1>5, <2>1 DEF Restoring, Resting, Rest, Undo
    <2> QED BY <2>2
  <1> QED BY <1>3, <1>4, <1>5

LEMMA LaunchStep ==
  ASSUME UpdateInv, Launch
  PROVE  UpdateInv'
  <1>0. CASE helper # <<>>
    <2>1. failures' = [failures EXCEPT !.overlaps = failures.overlaps + 1]
      BY <1>0 DEF Launch
    <2>2. failures' \in [errors : Nat, interruptions : Nat, overlaps : Nat] /\ failures'.overlaps # 0
      BY <2>1 DEF UpdateInv
    <2> QED BY <2>2 DEF UpdateInv, Claimed
  <1> SUFFICES ASSUME helper = <<>> PROVE UpdateInv'
    BY <1>0
  <1>1. /\ verifier = "off" /\ helper = <<>> /\ Begin /\ verifier' = "starting"
        /\ UNCHANGED <<platform, deployed, package, diskVars, helper, failures>>
    BY DEF Launch, Begin
  <1>2. Claimed' = Claimed /\ exe' = exe /\ (Resting' <=> Resting)
    BY <1>1, DiskUntouched
  <1> SUFFICES ASSUME Claimed PROVE DiskTypes' /\ Idle'
    BY <1>1, <1>2 DEF UpdateInv
  <1>3. DiskTypes /\ Idle
    BY <1>1, HelperAtWork DEF UpdateInv
  <1>4. DiskTypes'
    BY <1>1, <1>2, <1>3 DEF DiskTypes, diskVars
  <1>5. \E k \in 0 .. 8 : Restoring(k)'
    BY <1>1, <1>3, RecoveryIsRight DEF Idle
  <1> QED BY <1>1, <1>2, <1>3, <1>4, <1>5 DEF Idle

LEMMA StartWorkStep ==
  ASSUME UpdateInv, StartWork
  PROVE  UpdateInv'
  <1>1. /\ verifier = "starting" /\ recovery = <<>> /\ verifier' = "running"
        /\ UNCHANGED <<platform, deployed, package, diskVars, helper, recovery, failures>>
    BY DEF StartWork
  <1>2. /\ Claimed' = Claimed /\ exe' = exe /\ (Resting' <=> Resting) /\ (Uniform' <=> Uniform)
        /\ (Committed' <=> Committed) /\ \A p : Saved(p)' <=> Saved(p)
    BY <1>1, DiskUntouched
  <1> SUFFICES ASSUME Claimed PROVE DiskTypes' /\ Idle'
    BY <1>1, <1>2 DEF UpdateInv
  <1>3. DiskTypes /\ Idle
    BY <1>1 DEF UpdateInv, Helping
  <1>4. DiskTypes'
    BY <1>1, <1>2, <1>3 DEF DiskTypes, diskVars
  <1>5. Restoring(8)
    BY <1>1, <1>3, HelperAtWork DEF Idle
  <1>6. Restoring(8)'
    BY <1>1, <1>2, <1>5 DEF Restoring, diskVars
  <1> QED BY <1>1, <1>2, <1>3, <1>4, <1>6 DEF Idle

LEMMA EndsStep ==
  ASSUME UpdateInv, Ends
  PROVE  UpdateInv'
  <1>1. /\ verifier # "off" /\ recovery = <<>> /\ verifier' = "off"
        /\ UNCHANGED <<platform, deployed, package, diskVars, helper, recovery, failures>>
    BY DEF Ends
  <1>2. Claimed' = Claimed /\ exe' = exe /\ (Resting' <=> Resting)
    BY <1>1, DiskUntouched
  <1> SUFFICES ASSUME Claimed PROVE DiskTypes' /\ Idle'
    BY <1>1, <1>2 DEF UpdateInv
  <1>3. DiskTypes /\ Idle
    BY <1>1 DEF UpdateInv, Helping
  <1>4. DiskTypes'
    BY <1>1, <1>2, <1>3 DEF DiskTypes, diskVars
  <1> QED BY <1>1, <1>2, <1>3, <1>4 DEF Idle

LEMMA InstallUpdateStep ==
  ASSUME UpdateInv, InstallUpdate
  PROVE  UpdateInv'
  <1>1. /\ verifier = "starting" /\ recovery = <<>> /\ files["exe"] < policy.version
        /\ verifier' = "off" /\ helper' = Replace \o Finish /\ backup' = Empty
        /\ package' = policy.version
        /\ UNCHANGED <<platform, deployed, files, journal, recovery, failures>>
    BY DEF InstallUpdate, UpdateAvailable
  <1>2. Claimed' = Claimed /\ exe' = exe
    BY <1>1 DEF Claimed, exe
  <1> SUFFICES ASSUME Claimed PROVE DiskTypes' /\ Helping'
    BY <1>1, <1>2 DEF UpdateInv
  <1>3. DiskTypes /\ Idle
    BY <1>1 DEF UpdateInv, Helping
  <1>4. Restoring(8)
    BY <1>1, <1>3, HelperAtWork DEF Idle
  <1>5. policy.version \in Nat \ {0} /\ exe \in Nat
    <2>1. policy \in [version : Nat \ {0}, minimum : Nat \ {0}]
      <3> DEFINE M == [version : Nat \ {0}, minimum : Nat \ {0}]
      <3>1. Manifests \in Seq(M) /\ deployed \in DOMAIN Manifests
        BY <1>3, UpdateAssumption DEF DiskTypes
      <3> HIDE DEF M
      <3>2. Manifests[deployed] \in M
        BY <3>1
      <3> QED BY <3>2 DEF policy, M
    <2> QED BY <1>3, <2>1 DEF DiskTypes, exe
  <1>6. package' # exe' /\ package' # Missing /\ package' \in Nat
    BY <1>1, <1>2, <1>5 DEF exe, Missing
  <1>7. backup' \in [Parts -> Nat] /\ \A p \in Parts : ~Saved(p)'
    BY <1>1 DEF Empty, Saved, Missing
  <1>8. DiskTypes'
    BY <1>1, <1>2, <1>3, <1>6, <1>7 DEF DiskTypes
  <1>9. \A p \in Parts : InVersion(p)'
    BY <1>1, <1>4 DEF Restoring, Uniform, InVersion, MayMiss, exe
  <1>10. journal' = NoJournal /\ helper' = Rest(Update, 0)
    BY <1>1, <1>4, RestsAre DEF Restoring
  <1>11. Replacing(0)'
    BY <1>6, <1>7, <1>9, <1>10, PartsAre DEF Replacing, SavedInVersion, Rest, Update
  <1> QED BY <1>1, <1>8, <1>11 DEF Helping

\* The machine goes down: the phase in the journal, and the version of the executable,
\* say what the next start has to do.
LEMMA InterruptedStep ==
  ASSUME UpdateInv, Interrupted
  PROVE  UpdateInv'
  <1>1. /\ helper' = <<>> /\ verifier' = "off" /\ recovery' = <<>>
        /\ failures' = [failures EXCEPT !.interruptions = failures.interruptions + 1]
        /\ UNCHANGED <<platform, deployed, package, diskVars>>
    BY DEF Interrupted
  <1>2. /\ failures \in [errors : Nat, interruptions : Nat, overlaps : Nat]
        /\ failures' \in [errors : Nat, interruptions : Nat, overlaps : Nat]
        /\ failures'.errors = failures.errors /\ failures'.interruptions # 0
        /\ failures'.overlaps = failures.overlaps
    BY <1>1 DEF UpdateInv
  <1> SUFFICES ASSUME failures.errors = 0, failures.overlaps = 0 PROVE DiskTypes' /\ Idle'
    BY <1>2 DEF UpdateInv, Claimed
  <1>3. DiskTypes /\ (Idle \/ Helping)
    BY DEF UpdateInv, Claimed
  <1>4. /\ exe' = exe /\ (Uniform' <=> Uniform) /\ (Committed' <=> Committed)
        /\ \A p : Saved(p)' <=> Saved(p)
        /\ \A p \in Parts : Kept(p)' <=> Kept(p)
    BY <1>1, <1>2 DEF diskVars, exe, Uniform, InVersion, MayMiss, Committed, Saved, Kept
  <1>5. DiskTypes'
    BY <1>1, <1>3, <1>4 DEF DiskTypes, diskVars
  <1>6. IF journal = NoJournal \/ Committed THEN Uniform ELSE \A p \in Parts : Kept(p)
    <2>1. CASE Idle
      BY <2>1 DEF Idle, Resting
    <2>2. ASSUME NEW k \in 0 .. 12, Replacing(k)
          PROVE  IF journal = NoJournal \/ Committed THEN Uniform ELSE \A p \in Parts : Kept(p)
      <3> USE <2>2 DEF Replacing
      <3>1. CASE k = 0
        <4>1. journal = NoJournal /\ Uniform
          BY <3>1, PartsAre DEF Uniform
        <4> QED BY <4>1
      <3>2. CASE k \in 1 .. 9
        <4>1. package # exe /\ journal.version = package /\ journal # NoJournal
          BY <3>2 DEF NoJournal
        <4>2. ~Committed
          BY <4>1 DEF Committed, exe
        <4>3. Kept("native")
          BY <3>2, PartsAre DEF SavedInVersion, Kept, InVersion
        <4>4. Kept("installer")
          BY <3>2, PartsAre DEF SavedInVersion, Kept, InVersion
        <4>5. Kept("host")
          BY <3>2, PartsAre DEF SavedInVersion, Kept
        <4> QED BY <4>1, <4>2, <4>3, <4>4, <4>5, PartsAre
      <3>3. CASE k \in 10 .. 12
        <4>1. Uniform
          BY <3>3 DEF Uniform, InVersion
        <4>2. journal = NoJournal \/ Committed
          BY <3>3 DEF Committed, exe
        <4> QED BY <4>1, <4>2
      <3> QED BY <3>1, <3>2, <3>3
    <2>3. \A k \in 0 .. 6 : ~GivingUp(k)
      BY DEF GivingUp
    <2> QED BY <1>3, <2>1, <2>2, <2>3 DEF Helping
  <1>7. Resting'
    BY <1>1, <1>2, <1>4, <1>6 DEF Resting, diskVars
  <1> QED BY <1>1, <1>5, <1>7 DEF Idle

-----------------------------------------------------------------------------
(* One part at a time *)

\* What an operation on a part does not touch.
OnlyPart(q) ==
    /\ exe' = exe /\ journal' = journal /\ Claimed' = Claimed
    /\ \A p : MayMiss(p)' <=> MayMiss(p)
    /\ \A p \in Parts \ {q} : /\ files'[p] = files[p]
                              /\ InVersion(p)' <=> InVersion(p)
                              /\ Saved(p)' <=> Saved(p)
                              /\ Saved(p) => backup'[p] = backup[p]

LEMMA PartChanged ==
  ASSUME DiskTypes, NEW q \in Parts, UNCHANGED <<deployed, package, failures, journal>>,
         NEW v \in Nat, files' = [files EXCEPT ![q] = v] \/ (files' = files /\ v = files[q]),
         NEW b \in Nat, \/ backup' = backup /\ (q \in DOMAIN backup => b = backup[q])
                        \/ backup # NoBackup /\ backup' = [backup EXCEPT ![q] = b]
  PROVE  /\ OnlyPart(q) /\ DiskTypes' /\ files'[q] = v
         /\ backup \in [Parts -> Nat] => backup' \in [Parts -> Nat] /\ backup'[q] = b
         /\ DOMAIN backup' = DOMAIN backup
         /\ Saved(q)' <=> q \in DOMAIN backup /\ b # Missing
  <1>1. /\ files \in [Parts \union {"exe"} -> Nat] /\ exe # Missing /\ q # "exe"
        /\ backup = NoBackup \/ backup \in [Parts -> Nat]
    BY PartsAre DEF DiskTypes
  <1>2. /\ files' \in [Parts \union {"exe"} -> Nat] /\ files'[q] = v
        /\ \A p \in (Parts \union {"exe"}) \ {q} : files'[p] = files[p]
    BY <1>1
  <1>3. exe' = exe
    BY <1>1, <1>2 DEF exe
  <1>4. /\ backup' = NoBackup \/ backup' \in [Parts -> Nat]
        /\ DOMAIN backup' = DOMAIN backup
        /\ \A p \in Parts \ {q} : p \in DOMAIN backup => backup'[p] = backup[p]
        /\ q \in DOMAIN backup => backup'[q] = b
        /\ backup \in [Parts -> Nat] => backup' \in [Parts -> Nat] /\ backup'[q] = b
    <2>1. CASE backup = NoBackup
      <3>1. backup' = backup /\ DOMAIN backup = {}
        BY <2>1, NothingIsSaved
      <3> QED BY <2>1, <3>1
    <2>2. CASE backup \in [Parts -> Nat]
      BY <2>2
    <2> QED BY <1>1, <2>1, <2>2
  <1>5. DiskTypes'
    BY <1>1, <1>2, <1>3, <1>4 DEF DiskTypes
  <1>6. Claimed' = Claimed /\ \A p : MayMiss(p)' <=> MayMiss(p)
    BY DEF Claimed, MayMiss
  <1>7. ASSUME NEW p \in Parts \ {q}
        PROVE  /\ files'[p] = files[p] /\ (InVersion(p)' <=> InVersion(p)) /\ (Saved(p)' <=> Saved(p))
               /\ Saved(p) => backup'[p] = backup[p]
    BY <1>2, <1>3, <1>4, <1>6 DEF InVersion, Saved
  <1>8. Saved(q)' <=> q \in DOMAIN backup /\ b # Missing
    BY <1>4 DEF Saved
  <1> QED BY <1>2, <1>3, <1>4, <1>5, <1>6, <1>7, <1>8 DEF OnlyPart

LEMMA PartsAreTyped ==
  ASSUME DiskTypes, NEW q \in Parts
  PROVE  /\ package \in Nat /\ Missing \in Nat /\ files[q] \in Nat
         /\ \E b \in Nat : q \in DOMAIN backup => b = backup[q]
  <1>1. package \in Nat /\ Missing \in Nat /\ files[q] \in Nat
    BY DEF DiskTypes, Missing
  <1>2. CASE backup = NoBackup
    <2>1. q \notin DOMAIN backup
      BY <1>2, NothingIsSaved
    <2> QED BY <1>1, <2>1
  <1>3. CASE backup \in [Parts -> Nat]
    <2>1. backup[q] \in Nat
      BY <1>3
    <2> QED BY <1>1, <2>1
  <1> QED BY <1>1, <1>2, <1>3 DEF DiskTypes

LEMMA AfterOut ==
  ASSUME DiskTypes, NEW q \in Parts, UNCHANGED <<deployed, package, failures>>, Operate(Out(q)),
         backup \in [Parts -> Nat], ~Saved(q)
  PROVE  /\ OnlyPart(q) /\ DiskTypes' /\ backup' \in [Parts -> Nat] /\ files'[q] = Missing
         /\ Saved(q)' <=> files[q] # Missing
         /\ Saved(q)' => backup'[q] = files[q]
  <1> DEFINE b == IF files[q] = Missing THEN backup[q] ELSE files[q]
  <1>1. /\ files' = [files EXCEPT ![q] = Missing] /\ journal' = journal
        /\ backup' = IF files[q] = Missing THEN backup ELSE [backup EXCEPT ![q] = files[q]]
    BY OperateOut
  <1>2. Missing \in Nat /\ b \in Nat /\ backup # NoBackup /\ DOMAIN backup = Parts
    BY NothingIsSaved DEF DiskTypes, Missing, Parts
  <1>3. \/ backup' = backup /\ (q \in DOMAIN backup => b = backup[q])
        \/ backup # NoBackup /\ backup' = [backup EXCEPT ![q] = b]
    BY <1>1, <1>2
  <1>4. b = Missing <=> files[q] = Missing
    BY <1>2 DEF Saved
  <1> HIDE DEF b
  <1>5. /\ OnlyPart(q) /\ DiskTypes' /\ files'[q] = Missing
        /\ backup' \in [Parts -> Nat] /\ backup'[q] = b
        /\ Saved(q)' <=> q \in DOMAIN backup /\ b # Missing
    BY <1>1, <1>2, <1>3, PartChanged
  <1> QED BY <1>2, <1>4, <1>5 DEF b

LEMMA AfterIn ==
  ASSUME DiskTypes, NEW q \in Parts, UNCHANGED <<deployed, package, failures>>, Operate(In(q)),
         backup \in [Parts -> Nat]
  PROVE  /\ OnlyPart(q) /\ DiskTypes' /\ files'[q] = package
         /\ backup' = backup /\ (Saved(q)' <=> Saved(q))
  <1>a. Unpacked
    BY NothingIsSaved DEF Unpacked, Parts
  <1>1. files' = [files EXCEPT ![q] = package] /\ backup' = backup /\ journal' = journal
    BY <1>a, OperateIn
  <1>2. package \in Nat /\ \E b \in Nat : q \in DOMAIN backup => b = backup[q]
    BY PartsAreTyped
  <1>3. OnlyPart(q) /\ DiskTypes' /\ files'[q] = package
    BY <1>1, <1>2, PartChanged
  <1> QED BY <1>1, <1>3 DEF Saved

LEMMA AfterRemove ==
  ASSUME DiskTypes, NEW q \in Parts, UNCHANGED <<deployed, package, failures>>,
         \/ Operate(Remove(q))
         \/ Operate(RemoveSaved(q))
  PROVE  /\ OnlyPart(q) /\ DiskTypes' /\ backup' = backup /\ (Saved(q)' <=> Saved(q))
         /\ Operate(Remove(q)) => files'[q] = Missing
         /\ ~Saved(q) => files'[q] \in {Missing, files[q]}
         /\ Operate(RemoveSaved(q)) /\ ~Saved(q) => files'[q] = files[q]
  <1>1. /\ backup' = backup /\ journal' = journal
        /\ files' = [files EXCEPT ![q] = Missing] \/ files' = files
        /\ Operate(Remove(q)) => files' = [files EXCEPT ![q] = Missing]
        /\ Operate(RemoveSaved(q)) /\ ~Saved(q) => files' = files
    BY OperateRemove, OperateRemoveSaved
  <1>2. Missing \in Nat /\ files[q] \in Nat /\ \E b \in Nat : q \in DOMAIN backup => b = backup[q]
    BY PartsAreTyped
  <1>3. OnlyPart(q) /\ DiskTypes'
    BY <1>1, <1>2, PartChanged
  <1>4. files \in [Parts \union {"exe"} -> Nat]
    BY DEF DiskTypes
  <1> QED BY <1>1, <1>3, <1>4 DEF Saved

LEMMA AfterBack ==
  ASSUME DiskTypes, NEW q \in Parts, UNCHANGED <<deployed, package, failures>>, Operate(Back(q))
  PROVE  /\ OnlyPart(q) /\ DiskTypes' /\ ~Saved(q)'
         /\ backup \in [Parts -> Nat] => backup' \in [Parts -> Nat]
         /\ Saved(q) => files'[q] = backup[q]
         /\ ~Saved(q) => files'[q] = files[q]
  <1>1. /\ files' = IF Saved(q) THEN [files EXCEPT ![q] = backup[q]] ELSE files
        /\ backup' = IF Saved(q) THEN [backup EXCEPT ![q] = Missing] ELSE backup
        /\ journal' = journal
    BY OperateBack
  <1>2. CASE Saved(q)
    <2>1. backup \in [Parts -> Nat] /\ backup # NoBackup
      BY <1>2, NothingIsSaved DEF DiskTypes
    <2>2. backup[q] \in Nat /\ Missing \in Nat
      BY <2>1 DEF Missing
    <2>3. files' = [files EXCEPT ![q] = backup[q]] /\ backup' = [backup EXCEPT ![q] = Missing]
      BY <1>1, <1>2
    <2>4. /\ OnlyPart(q) /\ DiskTypes' /\ files'[q] = backup[q] /\ backup' \in [Parts -> Nat]
          /\ Saved(q)' <=> q \in DOMAIN backup /\ Missing # Missing
      BY <1>1, <2>1, <2>2, <2>3, PartChanged
    <2> QED BY <1>2, <2>4
  <1>3. CASE ~Saved(q)
    <2>1. files' = files /\ backup' = backup
      BY <1>1, <1>3
    <2>2. files[q] \in Nat /\ \E b \in Nat : q \in DOMAIN backup => b = backup[q]
      BY PartsAreTyped
    <2>3. OnlyPart(q) /\ DiskTypes'
      BY <1>1, <2>1, <2>2, PartChanged
    <2> QED BY <1>3, <2>1, <2>3 DEF Saved
  <1> QED BY <1>2, <1>3

LEMMA RestoringPart ==
  ASSUME NEW q \in Parts, OnlyPart(q), failures' = failures, journal # NoJournal, ~Committed,
         failures.interruptions # 0, \A p \in Parts : Kept(p), Kept(q)'
  PROVE  /\ Resting' /\ ~Committed' /\ journal' # NoJournal
         /\ \A p \in Parts : Kept(p)'
  <1>1. ~Committed' /\ journal' # NoJournal
    BY DEF Committed, OnlyPart, exe, NoJournal
  <1>2. \A p \in Parts : Kept(p)'
    BY DEF OnlyPart, Kept
  <1> QED BY <1>1, <1>2 DEF Resting

\* The recovery of an interrupted update, operation by operation: the machine may go
\* down between any two of them.
LEMMA RecoverStep ==
  ASSUME UpdateInv, Recover
  PROVE  UpdateInv'
  <1>a. CASE ~Possible(Head(recovery))
    <2>1. /\ verifier = "starting" /\ verifier' = "off" /\ recovery' = <<>> /\ UNCHANGED <<diskVars, package>>
          /\ UNCHANGED <<deployed, helper, failures>>
      BY <1>a DEF Recover
    <2>2. Claimed' = Claimed /\ exe' = exe /\ (Resting' <=> Resting)
      BY <2>1, DiskUntouched
    <2> SUFFICES ASSUME Claimed PROVE DiskTypes' /\ Idle'
      BY <2>1, <2>2 DEF UpdateInv
    <2>3. DiskTypes /\ Idle
      BY <2>1 DEF UpdateInv, Helping
    <2>4. DiskTypes'
      BY <2>1, <2>2, <2>3 DEF DiskTypes, diskVars
    <2> QED BY <2>1, <2>2, <2>3, <2>4 DEF Idle
  <1> SUFFICES ASSUME Claimed, Possible(Head(recovery))
               PROVE  DiskTypes' /\ Resting' /\ \E k \in 0 .. 8 : Restoring(k)'
    BY <1>a DEF UpdateInv, Recover, Idle, Claimed, Helping
  <1>1. /\ verifier = "starting" /\ recovery # <<>> /\ recovery' = Tail(recovery)
        /\ Operate(Head(recovery))
        /\ UNCHANGED <<deployed, package, failures>>
        /\ DiskTypes /\ Idle /\ Resting
    BY DEF Recover, UpdateInv, Helping, Idle
  <1> PICK k \in 0 .. 8 : Restoring(k)
    BY <1>1 DEF Idle
  <1>2. k \in 0 .. 7 /\ Operate(Undo[k + 1]) /\ recovery' = Rest(Undo, k + 1)
    <2>1. k # 8
      BY <1>1, HelperAtWork
    <2>2. Undo \in Seq(Operations) /\ Len(Undo) = 8 /\ k \in 0 .. Len(Undo) /\ k < Len(Undo)
      BY <2>1, PlanOfTheRecovery
    <2>3. Head(Rest(Undo, k)) = Undo[k + 1] /\ Tail(Rest(Undo, k)) = Rest(Undo, k + 1)
      BY <2>2, PlanGoesOn
    <2> QED BY <1>1, <2>1, <2>3 DEF Restoring
  <1>3. /\ journal # NoJournal /\ failures.interruptions # 0 /\ failures.errors = 0
        /\ ~MayMiss("native") /\ ~MayMiss("installer")
    BY <1>1, <1>2 DEF Restoring, Resting, Claimed, MayMiss
  <1>4. k <= 5 => \A p \in Parts : Kept(p)
    BY <1>1, <1>3 DEF Restoring, Resting
  <1>5. CASE k = 0
    <2>1. Operate(RemoveSaved("native")) /\ recovery' = Rest(Undo, 1)
      BY <1>2, <1>5, PlanOfTheRecovery
    <2>2. OnlyPart("native") /\ DiskTypes' /\ Kept("native")' /\ ~Committed
      BY <1>1, <1>3, <1>4, <1>5, <2>1, AfterRemove, PartsAre DEF Restoring, Kept, OnlyPart
    <2>3. /\ Resting' /\ ~Committed' /\ journal' # NoJournal
          /\ \A p \in Parts : Kept(p)'
      BY <1>1, <1>3, <1>4, <1>5, <2>2, RestoringPart, PartsAre DEF Restoring
    <2>4. Restoring(1)'
      BY <1>5, <2>1, <2>2, <2>3, PartsAre DEF Restoring, Rest, Undo
    <2> QED BY <2>2, <2>3, <2>4
  <1>6. CASE k = 1
    <2>1. Operate(Back("native")) /\ recovery' = Rest(Undo, 2)
      BY <1>2, <1>6, PlanOfTheRecovery
    <2>2. OnlyPart("native") /\ DiskTypes' /\ Kept("native")' /\ ~Committed
          /\ ~Saved("native")'
      BY <1>1, <1>3, <1>4, <1>6, <2>1, AfterBack, PartsAre DEF Restoring, Kept, OnlyPart
    <2>3. /\ Resting' /\ ~Committed' /\ journal' # NoJournal
          /\ \A p \in Parts : Kept(p)'
      BY <1>1, <1>3, <1>4, <1>6, <2>2, RestoringPart, PartsAre DEF Restoring
    <2>4. Restoring(2)'
      BY <1>6, <2>1, <2>2, <2>3, PartsAre DEF Restoring, Rest, Undo
    <2> QED BY <2>2, <2>3, <2>4
  <1>7. CASE k = 2
    <2>1. Operate(RemoveSaved("installer")) /\ recovery' = Rest(Undo, 3)
      BY <1>2, <1>7, PlanOfTheRecovery
    <2>2. OnlyPart("installer") /\ DiskTypes' /\ Kept("installer")' /\ ~Committed
      BY <1>1, <1>3, <1>4, <1>7, <2>1, AfterRemove, PartsAre DEF Restoring, Kept, OnlyPart
    <2>3. /\ Resting' /\ ~Committed' /\ journal' # NoJournal
          /\ \A p \in Parts : Kept(p)'
      BY <1>1, <1>3, <1>4, <1>7, <2>2, RestoringPart, PartsAre DEF Restoring
    <2>4. Restoring(3)'
      BY <1>7, <2>1, <2>2, <2>3, PartsAre DEF Restoring, OnlyPart, Rest, Undo
    <2> QED BY <2>2, <2>3, <2>4
  <1>8. CASE k = 3
    <2>1. Operate(Back("installer")) /\ recovery' = Rest(Undo, 4)
      BY <1>2, <1>8, PlanOfTheRecovery
    <2>2. OnlyPart("installer") /\ DiskTypes' /\ Kept("installer")' /\ ~Committed
          /\ ~Saved("installer")'
      BY <1>1, <1>3, <1>4, <1>8, <2>1, AfterBack, PartsAre DEF Restoring, Kept, OnlyPart
    <2>3. /\ Resting' /\ ~Committed' /\ journal' # NoJournal
          /\ \A p \in Parts : Kept(p)'
      BY <1>1, <1>3, <1>4, <1>8, <2>2, RestoringPart, PartsAre DEF Restoring
    <2>4. Restoring(4)'
      BY <1>8, <2>1, <2>2, <2>3, PartsAre DEF Restoring, OnlyPart, Rest, Undo
    <2> QED BY <2>2, <2>3, <2>4
  <1>9. CASE k = 4
    <2>1. Operate(Remove("host")) /\ recovery' = Rest(Undo, 5)
      BY <1>2, <1>9, PlanOfTheRecovery
    <2>2. OnlyPart("host") /\ DiskTypes' /\ Kept("host")' /\ ~Committed
          /\ files'["host"] = Missing
      BY <1>1, <1>3, <1>4, <1>9, <2>1, AfterRemove, PartsAre DEF Restoring, Kept, OnlyPart
    <2>3. /\ Resting' /\ ~Committed' /\ journal' # NoJournal
          /\ \A p \in Parts : Kept(p)'
      BY <1>1, <1>3, <1>4, <1>9, <2>2, RestoringPart, PartsAre DEF Restoring
    <2>4. Restoring(5)'
      BY <1>9, <2>1, <2>2, <2>3, PartsAre DEF Restoring, OnlyPart, Rest, Undo
    <2> QED BY <2>2, <2>3, <2>4
  <1>10. CASE k = 5
    <2>1. Operate(Back("host")) /\ recovery' = Rest(Undo, 6)
      BY <1>2, <1>10, PlanOfTheRecovery
    <2>2. OnlyPart("host") /\ DiskTypes' /\ ~Committed /\ ~Saved("host")'
          /\ files'["host"] \in {Missing, exe} /\ Kept("host")'
      BY <1>1, <1>4, <1>10, <2>1, AfterBack, PartsAre DEF Restoring, Kept, OnlyPart
    <2>3. Resting' /\ ~Committed' /\ journal' # NoJournal
      BY <1>1, <1>3, <1>4, <1>10, <2>2, RestoringPart, PartsAre
    <2>4. files["native"] = exe /\ files["installer"] = exe
      BY <1>3, <1>4, <1>10, PartsAre DEF Restoring, Kept
    <2>5. files'["native"] = exe' /\ files'["installer"] = exe' /\ exe' = exe /\ MayMiss("host")'
      BY <2>2, <2>4, PartsAre DEF OnlyPart
    <2>6. Uniform'
      BY <2>2, <2>5, PartsAre DEF Uniform, InVersion
    <2>7. Restoring(6)'
      BY <2>1, <2>3, <2>6 DEF Restoring, Rest, Undo
    <2> QED BY <2>2, <2>3, <2>7
  <1>11. CASE k = 6
    <2>1. Operate(Discard) /\ recovery' = Rest(Undo, 7)
      BY <1>2, <1>11, PlanOfTheRecovery
    <2>2. backup' = NoBackup /\ files' = files /\ journal' = journal
      BY <2>1, OperateCleanup
    <2>3. Uniform /\ Uniform' /\ exe' = exe /\ (Committed' <=> Committed)
      BY <1>1, <1>11, <2>2 DEF Restoring, Uniform, InVersion, MayMiss, exe, Committed
    <2>4. \A p \in Parts : Kept(p)'
      <3>1. \A p \in Parts : ~Saved(p)'
        BY <2>2, NothingIsSaved DEF Saved
      <3> QED BY <2>3, <3>1 DEF Kept, Uniform, InVersion
    <2>5. DiskTypes'
      BY <1>1, <2>2, <2>3 DEF DiskTypes
    <2>6. Resting'
      BY <1>1, <1>3, <2>2, <2>3, <2>4 DEF Resting, NoJournal
    <2>7. Restoring(7)'
      BY <1>3, <2>1, <2>2, <2>3 DEF Restoring, Rest, Undo, NoJournal
    <2> QED BY <2>5, <2>6, <2>7
  <1>12. CASE k = 7
    <2>1. Operate(Forget) /\ recovery' = Rest(Undo, 8)
      BY <1>2, <1>12, PlanOfTheRecovery
    <2>2. journal' = NoJournal /\ files' = files /\ backup' = backup
      BY <2>1, OperateCleanup
    <2>3. Uniform' /\ exe' = exe
      BY <1>1, <1>12, <2>2 DEF Restoring, Uniform, InVersion, MayMiss, exe
    <2>4. DiskTypes'
      BY <1>1, <2>2, <2>3 DEF DiskTypes
    <2>5. Resting'
      BY <2>2, <2>3 DEF Resting, NoJournal
    <2>6. Restoring(8)'
      BY <2>1, <2>2, <2>3 DEF Restoring, Rest, Undo, NoJournal
    <2> QED BY <2>4, <2>5, <2>6
  <1> QED BY <1>2, <1>5, <1>6, <1>7, <1>8, <1>9, <1>10, <1>11, <1>12

\* The helper replaces the parts, operation by operation: what it has moved away is in
\* the backup before the new version takes its place.
LEMMA SavedStays ==
  ASSUME SavedInVersion, NEW q \in Parts, OnlyPart(q), Saved(q)' => backup'[q] = exe
  PROVE  SavedInVersion'
  BY DEF SavedInVersion, OnlyPart

LEMMA ReplaceStep ==
  ASSUME DiskTypes, NEW k \in 0 .. 11, Replacing(k), Operate(Update[k + 1]),
         helper' = Rest(Update, k + 1), UNCHANGED <<deployed, package, failures>>
  PROVE  DiskTypes' /\ Replacing(k + 1)'
  <1>2. CASE k = 0
    <2>1. helper' = Rest(Update, 1) /\ k + 1 = 1
      BY <1>2
    <2>2. Operate(Write("prepared"))
      BY <1>2, PlanOfTheHelper
    <2>3. /\ journal' = [phase |-> "prepared", version |-> package] /\ files' = files
          /\ backup' = backup
      BY <2>2, OperateWrite
    <2>4. /\ exe' = exe /\ DiskTypes'
          /\ \A p : /\ Saved(p)' <=> Saved(p)
                    /\ InVersion(p)' <=> InVersion(p)
                    /\ MayMiss(p)' <=> MayMiss(p)
      BY <2>3 DEF DiskTypes, exe, Saved, InVersion, MayMiss
    <2>5. SavedInVersion'
      BY <1>2, <2>3, <2>4 DEF Replacing, SavedInVersion
    <2>6. Replacing(1)'
      BY <1>2, <2>1, <2>3, <2>4, <2>5 DEF Replacing, Rest, Update
    <2> QED BY <2>1, <2>4, <2>6
  <1>3. CASE k = 1
    <2>1. helper' = Rest(Update, 2) /\ k + 1 = 2
      BY <1>3
    <2>2. Operate(Out("native"))
      BY <1>3, PlanOfTheHelper
    <2>3. backup \in [Parts -> Nat] /\ SavedInVersion /\ InVersion("native") /\ ~Saved("native")
      BY <1>3 DEF Replacing
    <2>4. /\ OnlyPart("native") /\ DiskTypes' /\ backup' \in [Parts -> Nat]
          /\ files'["native"] = Missing
          /\ Saved("native")' <=> files["native"] # Missing
          /\ Saved("native")' => backup'["native"] = files["native"]
      BY <2>2, <2>3, AfterOut, PartsAre
    <2>5. Saved("native")' => backup'["native"] = exe
      BY <2>3, <2>4 DEF InVersion
    <2>6. Saved("native")' \/ MayMiss("native")'
      BY <2>3, <2>4, PartsAre DEF InVersion, OnlyPart, DiskTypes
    <2>7. SavedInVersion'
      BY <2>3, <2>4, <2>5, PartsAre, SavedStays
    <2>8. Replacing(2)'
      BY <1>3, <2>1, <2>4, <2>6, <2>7, PartsAre DEF Replacing, OnlyPart, Rest, Update
    <2> QED BY <2>1, <2>4, <2>8
  <1>4. CASE k = 2
    <2>1. helper' = Rest(Update, 3) /\ k + 1 = 3
      BY <1>4
    <2>2. Operate(In("native"))
      BY <1>4, PlanOfTheHelper
    <2>3. backup \in [Parts -> Nat] /\ SavedInVersion
      BY <1>4 DEF Replacing
    <2>4. /\ OnlyPart("native") /\ DiskTypes' /\ files'["native"] = package
          /\ backup' = backup /\ (Saved("native")' <=> Saved("native"))
      BY <2>2, <2>3, AfterIn, PartsAre
    <2>5. SavedInVersion'
      BY <2>3, <2>4, PartsAre, SavedStays DEF SavedInVersion
    <2>6. Replacing(3)'
      BY <1>4, <2>1, <2>3, <2>4, <2>5, PartsAre DEF Replacing, OnlyPart, Rest, Update
    <2> QED BY <2>1, <2>4, <2>6
  <1>5. CASE k = 3
    <2>1. helper' = Rest(Update, 4) /\ k + 1 = 4
      BY <1>5
    <2>2. Operate(Out("installer"))
      BY <1>5, PlanOfTheHelper
    <2>3. backup \in [Parts -> Nat] /\ SavedInVersion /\ InVersion("installer") /\ ~Saved("installer")
      BY <1>5 DEF Replacing
    <2>4. /\ OnlyPart("installer") /\ DiskTypes' /\ backup' \in [Parts -> Nat]
          /\ files'["installer"] = Missing
          /\ Saved("installer")' <=> files["installer"] # Missing
          /\ Saved("installer")' => backup'["installer"] = files["installer"]
      BY <2>2, <2>3, AfterOut, PartsAre
    <2>5. Saved("installer")' => backup'["installer"] = exe
      BY <2>3, <2>4 DEF InVersion
    <2>6. Saved("installer")' \/ MayMiss("installer")'
      BY <2>3, <2>4, PartsAre DEF InVersion, OnlyPart, DiskTypes
    <2>7. SavedInVersion'
      BY <2>3, <2>4, <2>5, PartsAre, SavedStays
    <2>8. Replacing(4)'
      BY <1>5, <2>1, <2>4, <2>6, <2>7, PartsAre DEF Replacing, OnlyPart, Rest, Update
    <2> QED BY <2>1, <2>4, <2>8
  <1>6. CASE k = 4
    <2>1. helper' = Rest(Update, 5) /\ k + 1 = 5
      BY <1>6
    <2>2. Operate(In("installer"))
      BY <1>6, PlanOfTheHelper
    <2>3. backup \in [Parts -> Nat] /\ SavedInVersion
      BY <1>6 DEF Replacing
    <2>4. /\ OnlyPart("installer") /\ DiskTypes' /\ files'["installer"] = package
          /\ backup' = backup /\ (Saved("installer")' <=> Saved("installer"))
      BY <2>2, <2>3, AfterIn, PartsAre
    <2>5. SavedInVersion'
      BY <2>3, <2>4, PartsAre, SavedStays DEF SavedInVersion
    <2>6. Replacing(5)'
      BY <1>6, <2>1, <2>3, <2>4, <2>5, PartsAre DEF Replacing, OnlyPart, Rest, Update
    <2> QED BY <2>1, <2>4, <2>6
  <1>7. CASE k = 5
    <2>1. helper' = Rest(Update, 6) /\ k + 1 = 6
      BY <1>7
    <2>2. Operate(Out("host"))
      BY <1>7, PlanOfTheHelper
    <2>3. backup \in [Parts -> Nat] /\ SavedInVersion /\ InVersion("host") /\ ~Saved("host")
      BY <1>7 DEF Replacing
    <2>4. /\ OnlyPart("host") /\ DiskTypes' /\ backup' \in [Parts -> Nat]
          /\ files'["host"] = Missing
          /\ Saved("host")' <=> files["host"] # Missing
          /\ Saved("host")' => backup'["host"] = files["host"]
      BY <2>2, <2>3, AfterOut, PartsAre
    <2>5. Saved("host")' => backup'["host"] = exe
      BY <2>3, <2>4 DEF InVersion
    <2>6. Saved("host")' \/ MayMiss("host")'
      BY <2>3, <2>4, PartsAre DEF InVersion, OnlyPart, DiskTypes
    <2>7. SavedInVersion'
      BY <2>3, <2>4, <2>5, PartsAre, SavedStays
    <2>8. Replacing(6)'
      BY <1>7, <2>1, <2>4, <2>6, <2>7, PartsAre DEF Replacing, OnlyPart, Rest, Update
    <2> QED BY <2>1, <2>4, <2>8
  <1>8. CASE k = 6
    <2>1. helper' = Rest(Update, 7) /\ k + 1 = 7
      BY <1>8
    <2>2. Operate(Write("assets_replaced"))
      BY <1>8, PlanOfTheHelper
    <2>3. /\ journal' = [phase |-> "assets_replaced", version |-> package] /\ files' = files
          /\ backup' = backup
      BY <2>2, OperateWrite
    <2>4. /\ exe' = exe /\ DiskTypes'
          /\ \A p : /\ Saved(p)' <=> Saved(p)
                    /\ InVersion(p)' <=> InVersion(p)
                    /\ MayMiss(p)' <=> MayMiss(p)
      BY <2>3 DEF DiskTypes, exe, Saved, InVersion, MayMiss
    <2>5. SavedInVersion'
      BY <1>8, <2>3, <2>4 DEF Replacing, SavedInVersion
    <2>6. Replacing(7)'
      BY <1>8, <2>1, <2>3, <2>4, <2>5 DEF Replacing, Rest, Update
    <2> QED BY <2>1, <2>4, <2>6
  <1>9. CASE k = 7
    <2>1. helper' = Rest(Update, 8) /\ k + 1 = 8
      BY <1>9
    <2>2. Operate(Write("commit_executable"))
      BY <1>9, PlanOfTheHelper
    <2>3. /\ journal' = [phase |-> "commit_executable", version |-> package] /\ files' = files
          /\ backup' = backup
      BY <2>2, OperateWrite
    <2>4. /\ exe' = exe /\ DiskTypes'
          /\ \A p : /\ Saved(p)' <=> Saved(p)
                    /\ InVersion(p)' <=> InVersion(p)
                    /\ MayMiss(p)' <=> MayMiss(p)
      BY <2>3 DEF DiskTypes, exe, Saved, InVersion, MayMiss
    <2>5. SavedInVersion'
      BY <1>9, <2>3, <2>4 DEF Replacing, SavedInVersion
    <2>6. Replacing(8)'
      BY <1>9, <2>1, <2>3, <2>4, <2>5 DEF Replacing, Rest, Update
    <2> QED BY <2>1, <2>4, <2>6
  <1>10. CASE k = 8
    <2>1. helper' = Rest(Update, 9) /\ k + 1 = 9
      BY <1>10
    <2>2. Operate(In("host"))
      BY <1>10, PlanOfTheHelper
    <2>3. backup \in [Parts -> Nat] /\ SavedInVersion
      BY <1>10 DEF Replacing
    <2>4. /\ OnlyPart("host") /\ DiskTypes' /\ files'["host"] = package
          /\ backup' = backup /\ (Saved("host")' <=> Saved("host"))
      BY <2>2, <2>3, AfterIn, PartsAre
    <2>5. SavedInVersion'
      BY <2>3, <2>4, PartsAre, SavedStays DEF SavedInVersion
    <2>6. Replacing(9)'
      BY <1>10, <2>1, <2>3, <2>4, <2>5, PartsAre DEF Replacing, OnlyPart, Rest, Update
    <2> QED BY <2>1, <2>4, <2>6
  <1>11. CASE k = 9
    <2>1. helper' = Rest(Update, 10) /\ k + 1 = 10
      BY <1>11
    <2>2. Operate(In("exe"))
      BY <1>11, PlanOfTheHelper
    <2>3. files' = [files EXCEPT !["exe"] = package] /\ backup' = backup /\ journal' = journal
      BY <2>2, OperateIn
    <2>4. /\ files \in [Parts \union {"exe"} -> Nat] /\ package \in Nat /\ package # Missing
          /\ \A p \in Parts : files[p] = package
      BY <1>11, PartsAre DEF DiskTypes, Replacing
    <2>5. /\ files' \in [Parts \union {"exe"} -> Nat] /\ files'["exe"] = package
          /\ \A p \in Parts : files'[p] = package
      BY <2>3, <2>4, PartsAre
    <2>6. exe' = package
      BY <2>5 DEF exe
    <2>7. DiskTypes'
      BY <2>3, <2>4, <2>5, <2>6 DEF DiskTypes
    <2>8. Replacing(10)'
      BY <1>11, <2>1, <2>3, <2>4, <2>5, <2>6 DEF Replacing, Rest, Update
    <2> QED BY <2>1, <2>7, <2>8
  <1>12. CASE k = 10
    <2>1. helper' = Rest(Update, 11) /\ k + 1 = 11
      BY <1>12
    <2>2. Operate(Discard)
      BY <1>12, PlanOfTheHelper
    <2>3. /\ files' = files
          /\ backup' = NoBackup /\ journal' = journal
      BY <2>2, OperateCleanup
    <2>4. exe' = exe /\ DiskTypes'
      BY <2>3 DEF exe, DiskTypes
    <2>5. Replacing(11)'
      BY <1>12, <2>1, <2>3, <2>4 DEF Replacing, Rest, Update
    <2> QED BY <2>1, <2>4, <2>5
  <1>13. CASE k = 11
    <2>1. helper' = Rest(Update, 12) /\ k + 1 = 12
      BY <1>13
    <2>2. Operate(Forget)
      BY <1>13, PlanOfTheHelper
    <2>3. /\ files' = files
          /\ backup' = backup /\ journal' = NoJournal
      BY <2>2, OperateCleanup
    <2>4. exe' = exe /\ DiskTypes'
      BY <2>3 DEF exe, DiskTypes
    <2>5. Replacing(12)'
      BY <1>13, <2>1, <2>3, <2>4 DEF Replacing, Rest, Update
    <2> QED BY <2>1, <2>4, <2>5
  <1> QED
    BY <1>2, <1>3, <1>4, <1>5, <1>6, <1>7, <1>8, <1>9, <1>10, <1>11, <1>12, <1>13

\* The helper gives up: what it saved goes back, in the version of the executable.
LEMMA GiveUpStep ==
  ASSUME DiskTypes, NEW k \in 0 .. 5, GivingUp(k), Operate(GiveUp[k + 1]),
         helper' = Rest(GiveUp, k + 1), UNCHANGED <<deployed, package, failures>>
  PROVE  DiskTypes' /\ GivingUp(k + 1)'
  <1>1. /\ backup \in [Parts -> Nat] /\ SavedInVersion /\ failures.errors # 0
        /\ \A p : MayMiss(p) /\ MayMiss(p)'
    BY DEF GivingUp, MayMiss
  <1>2. CASE k = 0
    <2>1. helper' = Rest(GiveUp, 1) /\ k + 1 = 1
      BY <1>2
    <2>2. Operate(Remove("native"))
      BY <1>2, PlanOfTheRollback
    <2>3. /\ OnlyPart("native") /\ DiskTypes' /\ backup' = backup
          /\ (Saved("native")' <=> Saved("native")) /\ files'["native"] = Missing
      BY <2>2, AfterRemove, PartsAre
    <2>4. SavedInVersion'
      BY <1>1, <2>3, PartsAre, SavedStays DEF SavedInVersion
    <2>5. GivingUp(1)'
      BY <1>2, <1>1, <2>1, <2>3, <2>4, PartsAre DEF GivingUp, OnlyPart, Rest, GiveUp
    <2> QED BY <2>1, <2>3, <2>5
  <1>3. CASE k = 1
    <2>1. helper' = Rest(GiveUp, 2) /\ k + 1 = 2
      BY <1>3
    <2>2. Operate(Back("native"))
      BY <1>3, PlanOfTheRollback
    <2>3. /\ OnlyPart("native") /\ DiskTypes' /\ ~Saved("native")' /\ backup' \in [Parts -> Nat]
          /\ files'["native"] = IF Saved("native") THEN backup["native"] ELSE files["native"]
      BY <1>1, <2>2, AfterBack, PartsAre
    <2>4. SavedInVersion' /\ InVersion("native")'
      <3>1. SavedInVersion'
        BY <1>1, <2>3, PartsAre, SavedStays
      <3>2. files'["native"] = exe \/ files'["native"] = Missing
        BY <1>1, <2>3, <1>3, PartsAre DEF SavedInVersion, GivingUp
      <3> QED BY <1>1, <2>3, <3>1, <3>2 DEF InVersion, OnlyPart
    <2>5. GivingUp(2)'
      BY <1>3, <1>1, <2>1, <2>3, <2>4, PartsAre DEF GivingUp, OnlyPart, Rest, GiveUp
    <2> QED BY <2>1, <2>3, <2>5
  <1>4. CASE k = 2
    <2>1. helper' = Rest(GiveUp, 3) /\ k + 1 = 3
      BY <1>4
    <2>2. Operate(Remove("installer"))
      BY <1>4, PlanOfTheRollback
    <2>3. /\ OnlyPart("installer") /\ DiskTypes' /\ backup' = backup
          /\ (Saved("installer")' <=> Saved("installer")) /\ files'["installer"] = Missing
      BY <2>2, AfterRemove, PartsAre
    <2>4. SavedInVersion'
      BY <1>1, <2>3, PartsAre, SavedStays DEF SavedInVersion
    <2>5. GivingUp(3)'
      BY <1>4, <1>1, <2>1, <2>3, <2>4, PartsAre DEF GivingUp, OnlyPart, Rest, GiveUp
    <2> QED BY <2>1, <2>3, <2>5
  <1>5. CASE k = 3
    <2>1. helper' = Rest(GiveUp, 4) /\ k + 1 = 4
      BY <1>5
    <2>2. Operate(Back("installer"))
      BY <1>5, PlanOfTheRollback
    <2>3. /\ OnlyPart("installer") /\ DiskTypes' /\ ~Saved("installer")' /\ backup' \in [Parts -> Nat]
          /\ files'["installer"] = IF Saved("installer") THEN backup["installer"] ELSE files["installer"]
      BY <1>1, <2>2, AfterBack, PartsAre
    <2>4. SavedInVersion' /\ InVersion("installer")'
      <3>1. SavedInVersion'
        BY <1>1, <2>3, PartsAre, SavedStays
      <3>2. files'["installer"] = exe \/ files'["installer"] = Missing
        BY <1>1, <2>3, <1>5, PartsAre DEF SavedInVersion, GivingUp
      <3> QED BY <1>1, <2>3, <3>1, <3>2 DEF InVersion, OnlyPart
    <2>5. GivingUp(4)'
      BY <1>5, <1>1, <2>1, <2>3, <2>4, PartsAre DEF GivingUp, OnlyPart, Rest, GiveUp
    <2> QED BY <2>1, <2>3, <2>5
  <1>6. CASE k = 4
    <2>1. helper' = Rest(GiveUp, 5) /\ k + 1 = 5
      BY <1>6
    <2>2. Operate(Remove("host"))
      BY <1>6, PlanOfTheRollback
    <2>3. /\ OnlyPart("host") /\ DiskTypes' /\ backup' = backup
          /\ (Saved("host")' <=> Saved("host")) /\ files'["host"] = Missing
      BY <2>2, AfterRemove, PartsAre
    <2>4. SavedInVersion'
      BY <1>1, <2>3, PartsAre, SavedStays DEF SavedInVersion
    <2>5. GivingUp(5)'
      BY <1>6, <1>1, <2>1, <2>3, <2>4, PartsAre DEF GivingUp, OnlyPart, Rest, GiveUp
    <2> QED BY <2>1, <2>3, <2>5
  <1>7. CASE k = 5
    <2>1. helper' = Rest(GiveUp, 6) /\ k + 1 = 6
      BY <1>7
    <2>2. Operate(Back("host"))
      BY <1>7, PlanOfTheRollback
    <2>3. /\ OnlyPart("host") /\ DiskTypes' /\ ~Saved("host")' /\ backup' \in [Parts -> Nat]
          /\ files'["host"] = IF Saved("host") THEN backup["host"] ELSE files["host"]
      BY <1>1, <2>2, AfterBack, PartsAre
    <2>4. SavedInVersion' /\ InVersion("host")'
      <3>1. SavedInVersion'
        BY <1>1, <2>3, PartsAre, SavedStays
      <3>2. files'["host"] = exe \/ files'["host"] = Missing
        BY <1>1, <2>3, <1>7, PartsAre DEF SavedInVersion, GivingUp
      <3> QED BY <1>1, <2>3, <3>1, <3>2 DEF InVersion, OnlyPart
    <2>5. GivingUp(6)'
      BY <1>7, <1>1, <2>1, <2>3, <2>4, PartsAre DEF GivingUp, OnlyPart, Rest, GiveUp
    <2> QED BY <2>1, <2>3, <2>5
  <1> QED BY <1>2, <1>3, <1>4, <1>5, <1>6, <1>7

\* The end of a helper: the parts are of one version and the journal is forgotten.
LEMMA HelpStep ==
  ASSUME UpdateInv, Help
  PROVE  UpdateInv'
  <1>1. /\ helper # <<>> /\ helper' = Tail(helper)
        /\ UNCHANGED <<platform, deployed, package, failures>>
        /\ \/ Possible(Head(helper)) /\ Operate(Head(helper)) /\ UNCHANGED <<verifier, recovery>>
           \/ /\ Head(helper) = Start /\ UNCHANGED diskVars
              /\ IF verifier = "off" THEN Begin ELSE UNCHANGED <<verifier, recovery>>
    BY DEF Help
  <1>2. Claimed' = Claimed
    BY <1>1 DEF Claimed
  <1> SUFFICES ASSUME Claimed PROVE DiskTypes' /\ (Idle' \/ Helping')
    BY <1>1, <1>2 DEF UpdateInv
  <1>3. DiskTypes /\ Helping /\ verifier = "off" /\ recovery = <<>>
    BY <1>1 DEF UpdateInv, Idle, Helping
  <1>4. ASSUME NEW k \in 0 .. 11, Replacing(k)
        PROVE  DiskTypes' /\ Helping'
    <2>1. Update \in Seq(Operations) /\ Len(Update) = 13 /\ k \in 0 .. Len(Update) /\ k < Len(Update)
      BY PlanOfTheHelper
    <2>2. Head(helper) = Update[k + 1] /\ helper' = Rest(Update, k + 1)
      BY <1>1, <1>4, <2>1, PlanGoesOn DEF Replacing
    <2>3. Update[k + 1] # Start
      BY PlanOfTheHelper
         DEF Write, Out, In, Discard, Forget, Start
    <2>4. Operate(Update[k + 1]) /\ UNCHANGED <<verifier, recovery>>
      BY <1>1, <2>2, <2>3
    <2>5. DiskTypes' /\ Replacing(k + 1)'
      BY <1>1, <1>3, <1>4, <2>2, <2>4, ReplaceStep
    <2>6. k + 1 \in 0 .. 12
      OBVIOUS
    <2> QED BY <1>3, <2>4, <2>5, <2>6 DEF Helping
  <1>5. ASSUME Replacing(12)
        PROVE  DiskTypes' /\ Idle'
    <2>1. Update \in Seq(Operations) /\ Len(Update) = 13 /\ 12 \in 0 .. Len(Update) /\ 12 < Len(Update)
      BY PlanOfTheHelper
    <2>2. Head(helper) = Start /\ helper' = Rest(Update, 13)
      <3>1. helper = Rest(Update, 12)
        BY <1>5 DEF Replacing
      <3>2. /\ Head(Rest(Update, 12)) = Update[12 + 1]
            /\ Tail(Rest(Update, 12)) = Rest(Update, 12 + 1)
        BY <2>1, PlanGoesOn
      <3>3. 12 + 1 = 13
        OBVIOUS
      <3>4. /\ Head(Rest(Update, 12)) = Update[13]
            /\ Tail(Rest(Update, 12)) = Rest(Update, 13)
        BY <3>2, <3>3
      <3> QED BY <1>1, <3>1, <3>4, PlanOfTheHelper
    <2>3. helper' = <<>>
      <3>1. 13 \in 0 .. Len(Update)
        BY <2>1
      <3> QED BY <2>1, <2>2, <3>1, PlanGoesOn
    <2>4. UNCHANGED diskVars /\ Begin
      BY <1>1, <1>3, <2>2, OperateCleanup
    <2>5. journal = NoJournal /\ Uniform
      BY <1>5 DEF Replacing, Uniform, InVersion
    <2>6. Resting
      BY <2>5 DEF Resting
    <2>7. Resting' /\ exe' = exe
      BY <1>1, <2>4, <2>6, DiskUntouched
    <2>8. \E k \in 0 .. 8 : Restoring(k)'
      BY <1>1, <2>4, <2>6, RecoveryIsRight
    <2>9. DiskTypes'
      BY <1>1, <1>3, <2>4, <2>7 DEF DiskTypes, diskVars
    <2> QED BY <2>3, <2>4, <2>7, <2>8, <2>9 DEF Idle, Begin
  <1>6. ASSUME NEW k \in 0 .. 5, GivingUp(k)
        PROVE  DiskTypes' /\ Helping'
    <2>1. GiveUp \in Seq(Operations) /\ Len(GiveUp) = 7 /\ k \in 0 .. Len(GiveUp) /\ k < Len(GiveUp)
      BY PlanOfTheRollback
    <2>2. Head(helper) = GiveUp[k + 1] /\ helper' = Rest(GiveUp, k + 1)
      BY <1>1, <1>6, <2>1, PlanGoesOn DEF GivingUp
    <2>3. GiveUp[k + 1] # Start
      BY PlanOfTheRollback DEF Remove, Back, Start
    <2>4. Operate(GiveUp[k + 1]) /\ UNCHANGED <<verifier, recovery>>
      BY <1>1, <2>2, <2>3
    <2>5. DiskTypes' /\ GivingUp(k + 1)'
      BY <1>1, <1>3, <1>6, <2>2, <2>4, GiveUpStep
    <2>6. k + 1 \in 0 .. 6
      OBVIOUS
    <2> QED BY <1>3, <2>4, <2>5, <2>6 DEF Helping
  <1>7. ASSUME GivingUp(6)
        PROVE  DiskTypes' /\ Idle'
    <2>1. GiveUp \in Seq(Operations) /\ Len(GiveUp) = 7 /\ 6 \in 0 .. Len(GiveUp) /\ 6 < Len(GiveUp)
      BY PlanOfTheRollback
    <2>2. Head(helper) = Forget /\ helper' = Rest(GiveUp, 7)
      <3>1. helper = Rest(GiveUp, 6)
        BY <1>7 DEF GivingUp
      <3>2. /\ Head(Rest(GiveUp, 6)) = GiveUp[6 + 1]
            /\ Tail(Rest(GiveUp, 6)) = Rest(GiveUp, 6 + 1)
        BY <2>1, PlanGoesOn
      <3>3. 6 + 1 = 7
        OBVIOUS
      <3>4. /\ Head(Rest(GiveUp, 6)) = GiveUp[7]
            /\ Tail(Rest(GiveUp, 6)) = Rest(GiveUp, 7)
        BY <3>2, <3>3
      <3> QED BY <1>1, <3>1, <3>4, PlanOfTheRollback
    <2>3. helper' = <<>>
      <3>1. 7 \in 0 .. Len(GiveUp)
        BY <2>1
      <3> QED BY <2>1, <2>2, <3>1, PlanGoesOn
    <2>4. Operate(Forget) /\ UNCHANGED <<verifier, recovery>>
      BY <1>1, <2>2 DEF Forget, Start
    <2>5. journal' = NoJournal /\ files' = files /\ backup' = backup
      BY <2>4, OperateCleanup
    <2>6. Uniform
      BY <1>7, PartsAre DEF GivingUp, Uniform
    <2>7. Uniform' /\ exe' = exe
      BY <1>1, <2>5, <2>6 DEF Uniform, InVersion, MayMiss, exe
    <2>8. DiskTypes'
      BY <1>1, <1>3, <2>5, <2>7 DEF DiskTypes
    <2> QED BY <1>3, <2>3, <2>4, <2>5, <2>7, <2>8 DEF Idle, Resting
  <1> QED BY <1>3, <1>4, <1>5, <1>6, <1>7 DEF Helping

\* An operation of the helper fails: before the first one nothing has happened, and
\* after it the rollback finds in the backup what it needs.
LEMMA HelperFailsStep ==
  ASSUME UpdateInv, HelperFails
  PROVE  UpdateInv'
  <1>1. /\ helper' = IF Head(helper) = Write("prepared") THEN <<>> ELSE GiveUp
        /\ UNCHANGED <<platform, deployed, package, diskVars, verifier, recovery>>
    BY DEF HelperFails
  <1>2. /\ failures' \in [errors : Nat, interruptions : Nat, overlaps : Nat]
        /\ failures'.interruptions = failures.interruptions /\ failures'.overlaps = failures.overlaps
        /\ failures'.errors # 0 \/ (failures' = failures /\ ~Possible(Head(helper)))
    BY DEF UpdateInv, HelperFails
  <1> SUFFICES ASSUME failures.overlaps = 0, 0 \in {failures.interruptions, failures'.errors}
               PROVE  DiskTypes' /\ (Idle' \/ Helping')
    BY <1>2 DEF UpdateInv, Claimed
  <1>3. DiskTypes /\ (Idle \/ Helping)
    BY <1>2 DEF UpdateInv, Claimed
  <1>4. PICK j \in DOMAIN helper : helper[j] = In("exe")
    BY DEF HelperFails
  <1>5. Helping
    <2>1. helper # <<>>
      BY <1>4
    <2> QED BY <1>3, <2>1 DEF Idle
  <1>7. ASSUME NEW k \in 0 .. 6, GivingUp(k)
        PROVE  FALSE
    <2>1. k \in 0 .. Len(GiveUp) /\ GiveUp \in Seq(Operations) /\ Len(GiveUp) = 7
      BY PlanOfTheRollback
    <2>2. j \in 1 .. (7 - k) /\ In("exe") = GiveUp[j + k]
      BY <1>4, <1>7, <2>1, PlanGoesOn DEF GivingUp
    <2>3. j + k \in 1 .. 7
      BY <2>2
    <2>4. \A i \in 1 .. 7 : GiveUp[i] # In("exe")
      BY PlanOfTheRollback DEF Remove, Back, Forget, In
    <2> QED BY <2>2, <2>3, <2>4
  <1> PICK k \in 0 .. 12 : Replacing(k)
    BY <1>5, <1>7 DEF Helping
  <1>8. k \in 0 .. 9 /\ Head(helper) = Update[k + 1]
    <2>1. /\ k \in 0 .. Len(Update) /\ k < Len(Update) /\ Update \in Seq(Operations)
          /\ Len(Update) = 13
      BY PlanOfTheHelper
    <2>2. j \in 1 .. (13 - k) /\ In("exe") = Update[j + k] /\ Head(helper) = Update[k + 1]
      BY <1>4, <2>1, PlanGoesOn DEF Replacing
    <2>3. \A i \in 11 .. 13 : Update[i] # In("exe")
      BY PlanOfTheHelper DEF Discard, Forget, Start, In
    <2>4. j + k \in 1 .. 13 /\ j + k \notin 11 .. 13
      BY <2>2, <2>3
    <2> QED BY <2>2, <2>4
  <1>p. Possible(Head(helper))
    <2>1. backup \in [Parts -> Nat] /\ verifier = "off"
      BY <1>5, <1>8 DEF Replacing, Helping
    <2>2. backup # NoBackup
      BY <2>1, NothingIsSaved DEF Parts
    <2>3. Update[k + 1].op # "back"
      BY <1>8, PlanOfTheHelper DEF Write, Out, In
    <2> QED BY <1>8, <2>1, <2>2, <2>3 DEF Possible, Unpacked
  <1>q. failures'.errors # 0 /\ failures.interruptions = 0
    BY <1>2, <1>p
  <1>6. /\ exe' = exe /\ DiskTypes' /\ (SavedInVersion' <=> SavedInVersion)
        /\ \A p \in Parts : MayMiss(p)' /\ (Saved(p)' <=> Saved(p))
        /\ \A p \in Parts : InVersion(p) => InVersion(p)'
    BY <1>1, <1>3, <1>q
       DEF diskVars, exe, DiskTypes, SavedInVersion, Saved, MayMiss, InVersion
  <1>9. CASE Head(helper) = Write("prepared")
    <2>1. k = 0
      <3>1. \A i \in 2 .. 10 : Update[i] # Write("prepared")
        BY PlanOfTheHelper DEF Write, Out, In
      <3> QED BY <1>8, <1>9, <3>1
    <2>2. journal = NoJournal /\ \A p \in Parts : InVersion(p)
      BY <2>1, PartsAre DEF Replacing
    <2>3. Resting'
      BY <1>1, <1>2, <1>q, <1>6, <2>2 DEF Resting, Uniform, diskVars
    <2> QED BY <1>1, <1>5, <1>6, <1>9, <2>3 DEF Idle, Helping
  <1>10. CASE Head(helper) # Write("prepared")
    <2>1. helper' = Rest(GiveUp, 0)
      BY <1>1, <1>10, RestsAre
    <2>2. backup' \in [Parts -> Nat] /\ SavedInVersion'
      BY <1>1, <1>6, <1>8 DEF Replacing, diskVars
    <2>3. GivingUp(0)'
      BY <1>q, <2>1, <2>2 DEF GivingUp, Rest, GiveUp
    <2> QED BY <1>1, <1>5, <1>6, <2>3 DEF Helping
  <1> QED BY <1>9, <1>10

\* The invariant holds after every sequence of openings of the link, updates, failed
\* operations and interruptions: it says nothing any more once the link was opened
\* while a helper was at work, and everything until then.
THEOREM UpdateInvariance == Spec => []UpdateInv
  <1>1. ASSUME UpdateInv, [Next]_vars
        PROVE  UpdateInv'
    <2>1. CASE UpdateNext
      <3>1. CASE Redeploy
        <4>1. /\ deployed < Len(Manifests) /\ deployed' = deployed + 1
              /\ UNCHANGED <<package, diskVars, helper, verifier, recovery, failures>>
          BY <3>1 DEF Redeploy
        <4>2. deployed \in DOMAIN Manifests => deployed' \in DOMAIN Manifests
          BY <4>1, UpdateAssumption
        <4> QED BY <1>1, <4>1, <4>2, RestUntouched
      <3> QED BY <1>1, <2>1, <3>1, LaunchStep, RecoverStep, InstallUpdateStep, HelpStep,
                 HelperFailsStep DEF UpdateNext
    <2>2. CASE Work
      BY <1>1, <2>2, StartWorkStep DEF Work
    <2>3. CASE Stops
      BY <1>1, <2>3, EndsStep, InterruptedStep DEF Stops
    <2>4. CASE UNCHANGED updateVars
      BY <1>1, <2>4, RestUntouched DEF updateVars
    <2>5. CASE UNCHANGED vars \/ RefreshRules \/ Operators \/ Ingest
      <3>1. UNCHANGED updateVars
        BY <2>5 DEF vars, RefreshRules, Operators, Approve, Publish, Disable, Ingest
      <3> QED BY <2>4, <3>1
    <2>6. CASE \E r \in Keys : \E use \in SUBSET Rules[r].signs : Observe(r, use) \/ ReportExtension(r, use)
      <3>1. UNCHANGED updateVars
        BY <2>6 DEF Observe, ReportExtension
      <3> QED BY <2>4, <3>1
    <2> QED BY <1>1, <2>1, <2>2, <2>3, <2>5, <2>6 DEF Next
  <1> QED BY UpdateInitially, <1>1, PTL DEF Spec

\* The executable, the native sensors and the installer assets of a verifier that works
\* advanced together (apps/windows-agent/README.md), however often the machine went down,
\* or else operations of the helper failed, unless the candidate opened the link while a
\* helper was at work (where EveryUpdateAdvancesTogether fails).
THEOREM PartsAdvanceTogether == Spec => []AdvanceTogether
  <1>1. UpdateInv => AdvanceTogether
    <2> SUFFICES ASSUME UpdateInv, verifier = "running", Claimed
                 PROVE  /\ \A p \in Parts : files[p] \in {Missing, files["exe"]}
                        /\ failures.errors = 0 => Missing \notin {files["native"], files["installer"]}
      BY DEF AdvanceTogether, Claimed
    <2>1. DiskTypes /\ Idle
      BY DEF UpdateInv, Helping
    <2>2. Uniform /\ exe # Missing
      BY <2>1 DEF Idle, Restoring, DiskTypes
    <2> QED BY <2>2, PartsAre DEF Uniform, InVersion, MayMiss, exe
  <1>2. Spec => []UpdateInv
    BY UpdateInvariance
  <1> QED BY <1>1, <1>2, PTL

=============================================================================
