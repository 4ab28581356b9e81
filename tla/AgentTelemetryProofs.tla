------------------------ MODULE AgentTelemetryProofs ------------------------
(***************************************************************************)
(* The evidence of a session forms one chain, and agents and server keep    *)
(* the promises of EvidenceLog, for every window, any number of launches    *)
(* and any number of events; the session's health, its final account and    *)
(* what the server takes agree with the times of what happened.             *)
(*                                                                         *)
(* The first part rests on the numbers alone: the log is numbered from 0,   *)
(* the queue is numbered up to next, and the two meet, or overlap in the    *)
(* one event whose answer was lost (ChainInv). The second adds the times:   *)
(* they never fall along the chain, the interruptions lie between the       *)
(* start and now, and the agent's clock is within its stage (TimelyInv).    *)
(* The third adds up the interruptions: the coverage is a percentage.       *)
(***************************************************************************)
EXTENDS AgentTelemetry, SequenceTheorems, FiniteSetTheorems, WellFoundedInduction, TLAPS

Rows == {"status", "health", "started", "ended", "reason", "coverage",
         "open", "gaps", "beats", "log"}

First == agent.next - Len(agent.queue)

\* What the chain needs of the types: the log is a sequence of events.
Typed ==
    /\ now \in Times /\ agent \in Agent
    /\ DOMAIN session = Rows /\ session.log \in Seq(Event)

LogNumbered == \A k \in 1..Len(session.log) : session.log[k].n = k - 1

QueueNumbered ==
    /\ Len(agent.queue) <= agent.next
    /\ \A k \in 1..Len(agent.queue) : agent.queue[k].n = First + k - 1

\* The event whose answer was lost is in both.
Overlap ==
    /\ agent.queue # <<>> /\ Len(session.log) = First + 1
    /\ agent.queue[1] = session.log[Len(session.log)]

Joined == agent.mode # "gone" => Len(session.log) = First \/ Overlap

Chain ==
    /\ LogNumbered /\ QueueNumbered /\ Joined
    /\ agent.mode = "gone" => agent.queue = <<>>

\* The inductive invariant.
ChainInv == Typed /\ Chain

Closed == session.status \in {"COMPLETED", "CANCELLED"}

-----------------------------------------------------------------------------
(* What the server's operations leave alone *)

Keeps(s, t) == DOMAIN t = Rows /\ t.log = s.log /\ t.status = s.status

\* Closing an interruption changes neither log nor status.
LEMMA CloseGapRows ==
  ASSUME NEW s, DOMAIN s = Rows, NEW at
  PROVE  LET t == CloseGap(s, at) IN
         DOMAIN t = Rows /\ t.log = s.log /\ t.status = s.status
  BY DEF CloseGap, Rows

\* The end of monitoring completes the session and keeps the log.
LEMMA FinishRows ==
  ASSUME NEW s, DOMAIN s = Rows, NEW requested, NEW why
  PROVE  LET t == Finish(s, requested, why) IN
         DOMAIN t = Rows /\ t.log = s.log /\ t.status = "COMPLETED"
  <1> DEFINE closed == IF s.open = NoGap THEN s ELSE CloseGap(s, EndingAt(s, requested))
  <1>1. DOMAIN closed = Rows /\ closed.log = s.log
    BY CloseGapRows
  <1> HIDE DEF closed
  <1>2. ASSUME NEW ending, NEW coverage
        PROVE  LET t == [closed EXCEPT !.status = "COMPLETED", !.health = "COMPLETED",
                             !.ended = ending, !.coverage = coverage, !.reason = why]
               IN  DOMAIN t = Rows /\ t.log = s.log /\ t.status = "COMPLETED"
    BY <1>1 DEF Rows
  <1> QED BY <1>2 DEF Finish, closed

\* The triggers and the cron's watch change neither log nor status.
LEMMA TriggerRows ==
  ASSUME NEW s, DOMAIN s = Rows, NEW at
  PROVE  /\ Keeps(s, OnHeartbeat(s)) /\ Keeps(s, OnUnhealthy(s, at))
         /\ Keeps(s, OnHealthy(s, at)) /\ Keeps(s, Watch(s))
  <1>1. Keeps(s, OnHeartbeat(s))
    <2> DEFINE heard == [s EXCEPT !.beats = @ \cup {now}]
    <2>1. DOMAIN heard = Rows /\ heard.log = s.log /\ heard.status = s.status
      BY DEF Rows
    <2> HIDE DEF heard
    <2>2. LET u == CloseGap(heard, now) IN
          DOMAIN u = Rows /\ u.log = s.log /\ u.status = s.status
      BY <2>1, CloseGapRows
    <2>3. LET u == [CloseGap(heard, now) EXCEPT !.health = "ACTIVE"] IN
          DOMAIN u = Rows /\ u.log = s.log /\ u.status = s.status
      BY <2>2 DEF Rows
    <2>4. OnHeartbeat(s) = IF s.open.why = "HEARTBEAT_MISSED"
              THEN [CloseGap(heard, now) EXCEPT !.health = "ACTIVE"] ELSE heard
      BY DEF OnHeartbeat, heard
    <2> QED BY <2>1, <2>3, <2>4 DEF Keeps
  <1>2. Keeps(s, OnUnhealthy(s, at))
    BY DEF OnUnhealthy, Rows, Keeps
  <1>3. Keeps(s, OnHealthy(s, at))
    <2> DEFINE closed == IF s.open.why = "BROWSER" THEN CloseGap(s, at) ELSE s
    <2>1. DOMAIN closed = Rows /\ closed.log = s.log /\ closed.status = s.status
      BY CloseGapRows
    <2> HIDE DEF closed
    <2>2. LET u == [closed EXCEPT !.health = "ACTIVE"] IN
          DOMAIN u = Rows /\ u.log = s.log /\ u.status = s.status
      BY <2>1 DEF Rows
    <2>3. LET u == [s EXCEPT !.open.why = "HEARTBEAT_MISSED"] IN
          DOMAIN u = Rows /\ u.log = s.log /\ u.status = s.status
      BY DEF Rows
    <2>4. OnHealthy(s, at) =
              IF QuietAt(s, at)
              THEN IF s.open = NoGap THEN s ELSE [s EXCEPT !.open.why = "HEARTBEAT_MISSED"]
              ELSE IF closed.open = NoGap THEN [closed EXCEPT !.health = "ACTIVE"] ELSE closed
      BY DEF OnHealthy, closed
    <2> QED BY <2>1, <2>2, <2>3, <2>4 DEF Keeps
  <1>4. Keeps(s, Watch(s))
    BY DEF Watch, Rows, Keeps
  <1> QED BY <1>1, <1>2, <1>3, <1>4

\* A recorded event is appended to the log, whatever its triggers do.
LEMMA RecordRows ==
  ASSUME NEW s, DOMAIN s = Rows, NEW e \in Event
  PROVE  DOMAIN Record(s, e) = Rows /\ Record(s, e).log = Append(s.log, e)
  <1> DEFINE kept == [s EXCEPT !.log = Append(@, e)]
  <1>1. DOMAIN kept = Rows /\ kept.log = Append(s.log, e)
    BY DEF Rows
  <1> HIDE DEF kept
  <1>2. e.type \in EventTypes
    BY DEF Event
  <1>3. CASE e.type = "MONITORING_STARTED"
    <2>1. Record(s, e) = [kept EXCEPT !.status = "MONITORING_ACTIVE", !.started = now,
                                      !.health = "ACTIVE"]
      BY <1>3 DEF Record, kept
    <2> QED BY <1>1, <2>1 DEF Rows
  <1>4. CASE e.type = "MONITORING_STOPPED"
    <2>1. Record(s, e) = Finish(kept, e.at, "AGENT")
      BY <1>4 DEF Record, kept
    <2> QED BY <1>1, <2>1, FinishRows
  <1>5. CASE e.type \in {"HEARTBEAT", "UNHEALTHY", "HEALTHY"}
    <2>0. /\ Keeps(kept, OnHeartbeat(kept)) /\ Keeps(kept, OnUnhealthy(kept, e.at))
          /\ Keeps(kept, OnHealthy(kept, e.at))
      BY <1>1, TriggerRows
    <2>1. CASE e.type = "HEARTBEAT"
      <3>1. Record(s, e) = OnHeartbeat(kept)
        BY <2>1 DEF Record, kept
      <3> QED BY <1>1, <3>1, <2>0 DEF Keeps
    <2>2. CASE e.type = "UNHEALTHY"
      <3>1. Record(s, e) = OnUnhealthy(kept, e.at)
        BY <2>2 DEF Record, kept
      <3> QED BY <1>1, <3>1, <2>0 DEF Keeps
    <2>3. CASE e.type = "HEALTHY"
      <3>1. Record(s, e) = OnHealthy(kept, e.at)
        BY <2>3 DEF Record, kept
      <3> QED BY <1>1, <3>1, <2>0 DEF Keeps
    <2> QED BY <1>5, <2>1, <2>2, <2>3
  <1>6. CASE e.type = "EVIDENCE"
    <2>1. Record(s, e) = kept
      BY <1>6 DEF Record, kept
    <2> QED BY <1>1, <2>1
  <1> QED BY <1>2, <1>3, <1>4, <1>5, <1>6 DEF EventTypes

-----------------------------------------------------------------------------
(* The five things a step may do to the chain *)

\* The parts of the types the chain is about.
ChainTypes ==
    /\ session.log \in Seq(Event) /\ agent.queue \in Seq(Event) /\ agent.next \in Nat

\* Nothing of the chain moves, the session may close, an empty agent may go.
Rests ==
    /\ session'.log = session.log
    /\ agent'.queue = agent.queue /\ agent'.next = agent.next
    /\ session' = session \/ agent' = agent
    /\ Closed => Closed'
    /\ agent'.mode = "gone" => agent.queue = <<>>
    /\ agent.mode = "gone" => agent'.mode = "gone"

\* The agent makes an event.
Grows(e) ==
    /\ e.n = agent.next
    /\ agent'.queue = Append(agent.queue, e) /\ agent'.next = agent.next + 1
    /\ agent.mode # "gone" /\ agent'.mode # "gone"
    /\ session' = session

\* The server records the head of the queue; its answer arrives or is lost.
Moves ==
    /\ agent.queue # <<>> /\ ~Overlap /\ ~Closed
    /\ session'.log = Append(session.log, agent.queue[1])
    /\ agent'.queue \in {agent.queue, Tail(agent.queue)} /\ agent'.next = agent.next
    /\ agent.mode # "gone" /\ agent'.mode = agent.mode

\* The answer to a replay arrives.
Shrinks ==
    /\ Overlap
    /\ agent'.queue = Tail(agent.queue) /\ agent'.next = agent.next
    /\ agent.mode # "gone" /\ agent'.mode = agent.mode
    /\ session' = session

\* The agent forgets the session.
Forgets ==
    /\ agent.mode # "gone" /\ agent'.mode = "gone"
    /\ agent'.queue = <<>> /\ agent'.next = agent.next
    /\ session' = session

\* The head of the queue is in the log exactly when its answer was lost.
LEMMA HeadReplayed ==
  ASSUME ChainTypes, Chain, agent.mode # "gone", agent.queue # <<>>
  PROVE  /\ Head(agent.queue) = agent.queue[1] /\ agent.queue[1].n = First
         /\ Head(agent.queue) \in Range(session.log) <=> Overlap
  <1>1. Head(agent.queue) = agent.queue[1] /\ Len(agent.queue) \in Nat \ {0}
    BY DEF ChainTypes
  <1>2. agent.queue[1].n = First /\ First \in Nat
    <2>1. First \in Nat
      BY <1>1 DEF Chain, QueueNumbered, First, ChainTypes
    <2>2. agent.queue[1].n = First + 1 - 1
      BY <1>1 DEF Chain, QueueNumbered
    <2> QED BY <2>1, <2>2
  <1>3. ASSUME Overlap PROVE agent.queue[1] \in Range(session.log)
    BY <1>2, <1>3 DEF Overlap, Range, ChainTypes
  <1>4. ASSUME agent.queue[1] \in Range(session.log) PROVE Overlap
    <2>1. PICK j \in 1..Len(session.log) : session.log[j] = agent.queue[1]
      BY <1>4 DEF Range, ChainTypes
    <2>2. session.log[j].n = j - 1
      BY <2>1 DEF Chain, LogNumbered
    <2>3. Len(session.log) # First
      BY <2>1, <2>2, <1>2
    <2> QED BY <2>3 DEF Chain, Joined
  <1> QED BY <1>1, <1>2, <1>3, <1>4

\* Nothing of the chain moves.
LEMMA ChainRests ==
  ASSUME Chain, Rests
  PROVE  Chain'
  BY DEF Rests, Chain, LogNumbered, QueueNumbered, Joined, Overlap, First

\* The agent makes an event.
LEMMA ChainGrows ==
  ASSUME ChainTypes, Chain, NEW e \in Event, Grows(e)
  PROVE  Chain'
  <1>1. /\ Len(agent'.queue) = Len(agent.queue) + 1 /\ Len(agent.queue) \in Nat
        /\ \A k \in 1..Len(agent.queue) : agent'.queue[k] = agent.queue[k]
        /\ agent'.queue[Len(agent.queue) + 1] = e
    BY DEF ChainTypes, Grows
  <1>2. First' = First
    <2>1. agent.next \in Nat
      BY DEF ChainTypes
    <2>2. agent'.next - Len(agent'.queue) = agent.next - Len(agent.queue)
      BY <1>1, <2>1, SMT DEF Grows
    <2> QED BY <2>2 DEF First
  <1>3. QueueNumbered'
    <2>1. Len(agent'.queue) <= agent'.next
      BY <1>1 DEF QueueNumbered, Chain, ChainTypes, Grows
    <2>2. e.n = First + (Len(agent.queue) + 1) - 1
      BY <1>1 DEF First, ChainTypes, Grows
    <2>3. ASSUME NEW k \in 1..Len(agent'.queue)
          PROVE  agent'.queue[k].n = First' + k - 1
      <3>1. CASE k \in 1..Len(agent.queue)
        BY <1>1, <1>2, <3>1 DEF Chain, QueueNumbered
      <3>2. CASE k = Len(agent.queue) + 1
        BY <1>1, <1>2, <2>2, <3>2
      <3> QED BY <1>1, <2>3, <3>1, <3>2
    <2> QED BY <2>1, <2>3 DEF QueueNumbered
  <1>4. Joined'
    <2>1. CASE Overlap
      <3>1. 1 \in 1..Len(agent.queue)
        BY <2>1, <1>1 DEF Overlap, ChainTypes
      <3>2. agent'.queue # <<>> /\ agent'.queue[1] = agent.queue[1]
        BY <1>1, <3>1 DEF ChainTypes
      <3> QED BY <1>2, <2>1, <3>2 DEF Joined, Overlap, Grows
    <2>2. CASE ~Overlap
      BY <1>2, <2>2 DEF Chain, Joined, Grows
    <2> QED BY <2>1, <2>2
  <1> QED BY <1>3, <1>4 DEF Chain, LogNumbered, Grows

\* The server records the head of the queue; its answer arrives or is lost.
LEMMA ChainMoves ==
  ASSUME ChainTypes, Chain, Moves
  PROVE  Chain'
  <1>1. /\ agent.queue[1] \in Event /\ Len(agent.queue) \in Nat \ {0}
        /\ Len(session.log) = First /\ agent.queue[1].n = First
    <2>1. agent.queue[1] \in Event /\ Len(agent.queue) \in Nat \ {0}
      BY DEF Moves, ChainTypes
    <2>2. Len(session.log) = First
      BY DEF Moves, Chain, Joined
    <2>3. agent.queue[1].n = First + 1 - 1
      BY <2>1 DEF Chain, QueueNumbered
    <2>4. First \in Int
      BY <2>1 DEF First, ChainTypes
    <2> QED BY <2>1, <2>2, <2>3, <2>4
  <1>2. /\ Len(session'.log) = Len(session.log) + 1
        /\ \A k \in 1..Len(session.log) : session'.log[k] = session.log[k]
        /\ session'.log[Len(session.log) + 1] = agent.queue[1]
    BY <1>1 DEF Moves, ChainTypes
  <1>3. LogNumbered'
    <2>1. Len(session.log) \in Nat
      BY DEF ChainTypes
    <2>2. ASSUME NEW k \in 1..Len(session'.log) PROVE session'.log[k].n = k - 1
      <3>1. CASE k \in 1..Len(session.log)
        BY <1>2, <3>1 DEF Chain, LogNumbered
      <3>2. CASE k = Len(session.log) + 1
        BY <1>1, <1>2, <2>1, <3>2
      <3> QED BY <1>2, <2>1, <2>2, <3>1, <3>2
    <2> QED BY <2>2 DEF LogNumbered
  <1>4. CASE agent'.queue = agent.queue
    <2>1. First' = First
      BY <1>4 DEF First, Moves
    <2>2. QueueNumbered'
      BY <1>4, <2>1 DEF Chain, QueueNumbered, Moves
    <2>3. Joined'
      BY <1>1, <1>2, <1>4, <2>1 DEF Joined, Overlap, Moves
    <2> QED BY <1>3, <2>2, <2>3 DEF Chain, Moves
  <1>5. CASE agent'.queue = Tail(agent.queue)
    <2>1. /\ Len(agent'.queue) = Len(agent.queue) - 1
          /\ \A k \in 1..Len(agent'.queue) : agent'.queue[k] = agent.queue[k + 1]
      BY <1>1, <1>5 DEF ChainTypes
    <2>2. First' = First + 1
      BY <1>1, <2>1 DEF First, ChainTypes, Moves
    <2>3. QueueNumbered'
      <3>1. Len(agent'.queue) <= agent'.next
        BY <1>1, <2>1 DEF QueueNumbered, Chain, ChainTypes, Moves
      <3>2. First \in Int
        BY <1>1 DEF First, ChainTypes
      <3>3. ASSUME NEW k \in 1..Len(agent'.queue)
            PROVE  agent'.queue[k].n = First' + k - 1
        <4>1. k + 1 \in 1..Len(agent.queue) /\ k \in Int
          BY <1>1, <2>1
        <4>2. agent.queue[k + 1].n = First + (k + 1) - 1
          BY <4>1 DEF Chain, QueueNumbered
        <4> QED BY <2>1, <2>2, <3>2, <4>1, <4>2
      <3> QED BY <3>1, <3>3 DEF QueueNumbered
    <2>4. Joined'
      BY <1>1, <1>2, <2>2 DEF Joined, ChainTypes, Moves
    <2> QED BY <1>3, <2>3, <2>4 DEF Chain, Moves
  <1> QED BY <1>4, <1>5 DEF Moves

\* The answer to a replay arrives.
LEMMA ChainShrinks ==
  ASSUME ChainTypes, Chain, Shrinks
  PROVE  Chain'
  <1>1. /\ Len(agent.queue) \in Nat \ {0}
        /\ Len(agent'.queue) = Len(agent.queue) - 1
        /\ \A k \in 1..Len(agent'.queue) : agent'.queue[k] = agent.queue[k + 1]
    BY DEF ChainTypes, Shrinks, Overlap
  <1>2. First' = First + 1
    BY <1>1 DEF First, ChainTypes, Shrinks
  <1>3. QueueNumbered'
    <2>1. Len(agent'.queue) <= agent'.next
      BY <1>1 DEF QueueNumbered, Chain, ChainTypes, Shrinks
    <2>2. First \in Int
      BY <1>1 DEF First, ChainTypes, Shrinks
    <2>3. ASSUME NEW k \in 1..Len(agent'.queue)
          PROVE  agent'.queue[k].n = First' + k - 1
      <3>1. k + 1 \in 1..Len(agent.queue) /\ k \in Int
        BY <1>1
      <3>2. agent.queue[k + 1].n = First + (k + 1) - 1
        BY <3>1 DEF Chain, QueueNumbered
      <3> QED BY <1>1, <1>2, <2>2, <3>1, <3>2
    <2> QED BY <2>1, <2>3 DEF QueueNumbered
  <1>4. Joined'
    BY <1>2 DEF Joined, Overlap, Shrinks
  <1> QED BY <1>3, <1>4 DEF Chain, LogNumbered, Shrinks

\* The agent forgets the session.
LEMMA ChainForgotten ==
  ASSUME ChainTypes, Chain, Forgets
  PROVE  Chain'
  BY DEF Forgets, ChainTypes, Chain, LogNumbered, QueueNumbered, Joined, First

-----------------------------------------------------------------------------
(* Every step is one of the five *)

Shape == Rests \/ (\E e \in Event : Grows(e)) \/ Moves \/ Shrinks \/ Forgets

\* EventChain.create and enqueue.
LEMMA EnqueueShape ==
  ASSUME ChainInv, NEW type \in EventTypes, NEW started \in BOOLEAN,
         NEW mode \in {"starting", "monitoring", "stopping"},
         agent.mode # "gone", Enqueue(type, mode, started), UNCHANGED <<now, session>>
  PROVE  Typed' /\ Shape
  <1> DEFINE e == [n |-> agent.next, type |-> type, at |-> now]
  <1>1. agent.next \in Nat /\ agent.queue \in Seq(Event) /\ now \in Times
    BY DEF ChainInv, Typed, Agent
  <1>2. e \in Event /\ e.n = agent.next
    BY <1>1 DEF Event
  <1>3. /\ agent'.queue = Append(agent.queue, e) /\ agent'.next = agent.next + 1
        /\ agent'.mode = mode
    BY DEF Enqueue, ChainInv, Typed, Agent
  <1>4. Append(agent.queue, e) \in Seq(Event) /\ agent.next + 1 \in Nat
    BY <1>1, <1>2
  <1> HIDE DEF e
  <1>5. agent' \in Agent
    <2>1. agent' = [agent EXCEPT !.queue = Append(agent.queue, e), !.next = agent.next + 1,
                       !.mode = mode, !.started = started,
                       !.beat = IF type = "HEARTBEAT" THEN now ELSE agent.beat]
      BY DEF Enqueue, e
    <2> QED BY <1>1, <1>4, <2>1 DEF ChainInv, Typed, Agent
  <1>6. Typed'
    BY <1>5 DEF ChainInv, Typed
  <1>7. Grows(e)
    BY <1>2, <1>3 DEF Grows
  <1> QED BY <1>2, <1>6, <1>7 DEF Shape

\* The steps of the agent that change its mode only.
LEMMA ModeShape ==
  ASSUME ChainInv,
         \/ Launch \/ Flushed \/ Exit \/ Delivered
         \/ Begin /\ agent.started
  PROVE  Typed' /\ Shape
  <1>1. /\ session' = session /\ now' = now
        /\ agent'.queue = agent.queue /\ agent'.next = agent.next
        /\ agent'.mode = "gone" => agent.queue = <<>>
        /\ agent.mode # "gone"
    BY DEF Launch, Flushed, Exit, Delivered, Begin, ChainInv, Typed, Agent,
           Running, Sending
  <1>2. agent' \in Agent
    <2> DEFINE Modes == {"idle", "flushing", "recovering", "waiting", "starting",
                         "monitoring", "stopping", "gone"}
    <2>1. ASSUME NEW m \in Modes, agent' = [agent EXCEPT !.mode = m] PROVE agent' \in Agent
      BY <2>1 DEF ChainInv, Typed, Agent
    <2>2. CASE Launch
      <3>1. StopPending \in BOOLEAN /\ agent.launches + 1 \in 0..MaxLaunches
        BY <2>2, AgentAssumption DEF Launch, StopPending, ChainInv, Typed, Agent
      <3>2. ASSUME NEW pending \in BOOLEAN, NEW count \in 0..MaxLaunches,
                   agent' = [agent EXCEPT !.mode = "flushing", !.recovering = pending,
                                          !.beat = NoTime, !.launches = count]
            PROVE  agent' \in Agent
        BY <3>2 DEF ChainInv, Typed, Agent
      <3> QED BY <2>2, <3>1, <3>2 DEF Launch
    <2>3. CASE Flushed
      BY <2>1, <2>3 DEF Flushed
    <2>4. CASE Exit
      BY <2>4 DEF Exit, ChainInv, Typed, Agent
    <2>5. CASE Delivered
      BY <2>1, <2>5 DEF Delivered
    <2>6. CASE Begin /\ agent.started
      BY <2>1, <2>6 DEF Begin
    <2> QED BY <2>2, <2>3, <2>4, <2>5, <2>6
  <1>3. Rests
    BY <1>1 DEF Rests, Closed
  <1> QED BY <1>1, <1>2, <1>3 DEF Shape, ChainInv, Typed

\* The agent deletes its identity.
LEMMA LeaveShape ==
  ASSUME ChainInv, LeaveWaiting
  PROVE  Typed' /\ Shape
  <1>1. agent' \in Agent
    <2>1. agent' = [agent EXCEPT !.mode = "gone", !.queue = <<>>] /\ <<>> \in Seq(Event)
      BY DEF LeaveWaiting
    <2> QED BY <2>1 DEF ChainInv, Typed, Agent
  <1>2. Forgets
    BY DEF Forgets, LeaveWaiting, ChainInv, Typed, Agent
  <1> QED BY <1>1, <1>2 DEF Shape, LeaveWaiting, ChainInv, Typed

\* An event is sent and the server answers.
LEMMA SendShape ==
  ASSUME ChainInv, NEW answered \in BOOLEAN, Send(answered)
  PROVE  Typed' /\ Shape
  <1>1. /\ ChainTypes /\ Chain /\ agent.queue # <<>> /\ agent.mode # "gone"
        /\ DOMAIN session = Rows /\ now' = now /\ now \in Times /\ agent \in Agent
    BY DEF ChainInv, Typed, ChainTypes, Agent, Send, Sending
  <1>2. /\ Head(agent.queue) = agent.queue[1] /\ agent.queue[1] \in Event
        /\ Tail(agent.queue) \in Seq(Event)
    BY <1>1 DEF ChainTypes
  <1>3. /\ agent' \in Agent /\ agent'.next = agent.next /\ agent'.mode = agent.mode
        /\ agent'.queue = IF answered THEN Tail(agent.queue) ELSE agent.queue
    BY <1>1, <1>2, ZenonT(30) DEF Send, Acknowledge, Agent
  <1>4. CASE Replayed(session, Head(agent.queue)) /\ UNCHANGED session
    <2>1. Overlap
      BY <1>1, <1>4, HeadReplayed DEF Replayed
    <2>2. Rests \/ Shrinks
      BY <1>1, <1>3, <1>4, <2>1 DEF Rests, Shrinks, Closed
    <2> QED BY <1>1, <1>3, <1>4, <2>2 DEF Shape, Typed, ChainTypes
  <1>5. CASE /\ ~Replayed(session, Head(agent.queue))
             /\ ~Refused(session, Head(agent.queue))
             /\ session' = Record(session, Head(agent.queue))
    <2>1. ~Overlap
      BY <1>1, <1>5, HeadReplayed DEF Replayed
    <2>2. ~Closed
      BY <1>5 DEF Refused, Closed
    <2>3. /\ DOMAIN session' = Rows
          /\ session'.log = Append(session.log, agent.queue[1])
      BY <1>1, <1>2, <1>5, RecordRows
    <2>4. session'.log \in Seq(Event)
      BY <1>1, <1>2, <2>3 DEF ChainTypes
    <2>5. Moves
      BY <1>1, <1>3, <2>1, <2>2, <2>3 DEF Moves
    <2> QED BY <1>1, <1>3, <2>3, <2>4, <2>5 DEF Shape, Typed
  <1> QED BY <1>4, <1>5 DEF Send, Ingest

\* Cron, users and report keep the log; a closed session stays closed.
LEMMA ServerShape ==
  ASSUME ChainInv, ServerNext, UNCHANGED agent
  PROVE  Typed' /\ Shape
  <1>1. DOMAIN session = Rows /\ session.log \in Seq(Event) /\ now \in Times
    BY DEF ChainInv, Typed
  <1>2. now' \in Times /\ DOMAIN session' = Rows /\ session'.log = session.log
        /\ (Closed => Closed')
    <2>1. CASE Orchestrate
      <3>1. Keeps(session, Watch(session))
        BY <1>1, TriggerRows
      <3>2. LET t == Finish(Watch(session), End, "AUTHORIZED_WINDOW_ENDED") IN
            DOMAIN t = Rows /\ t.log = session.log
        BY <3>1, FinishRows DEF Keeps
      <3> QED BY <1>1, <2>1, <3>1, <3>2 DEF Orchestrate, Active, Closed, Keeps
    <2>2. CASE EndByUser
      <3>1. LET t == Finish(session, now, "USER") IN
            DOMAIN t = Rows /\ t.log = session.log
        BY <1>1, FinishRows
      <3> QED BY <1>1, <2>2, <3>1 DEF EndByUser, Active, Closed
    <2>3. CASE StartFromWorkspace
      BY <1>1, <2>3 DEF StartFromWorkspace, Closed, Rows
    <2>4. CASE Withdraw
      BY <1>1, <2>4 DEF Withdraw, Closed, Rows
    <2>5. CASE Report
      BY <1>1, <2>5 DEF Report, Closed, Rows
    <2>6. CASE Tick
      BY <1>1, <2>6, TimesAssumption DEF Tick, Times, Closed
    <2> QED BY <2>1, <2>2, <2>3, <2>4, <2>5, <2>6 DEF ServerNext
  <1>3. Rests
    BY <1>2 DEF Rests, ChainInv, Chain
  <1> QED BY <1>1, <1>2, <1>3 DEF Shape, Typed, ChainInv

\* Every step of the system.
LEMMA NextShape == ASSUME ChainInv, [Next]_vars PROVE Typed' /\ Shape
  <1>1. CASE Launch \/ Flushed \/ Exit \/ Delivered
    BY <1>1, ModeShape
  <1>2. CASE Begin
    <2>1. CASE agent.started
      BY <1>2, <2>1, ModeShape
    <2>2. CASE ~agent.started
      BY <1>2, <2>2, EnqueueShape DEF Begin, EventTypes, Windows
    <2> QED BY <2>1, <2>2
  <1>3. CASE Stop
    BY <1>3, EnqueueShape DEF Stop, EventTypes, ChainInv, Typed, Agent
  <1>4. CASE \E type \in Observed : Emit(type)
    BY <1>4, EnqueueShape, AgentAssumption DEF Emit, EventTypes, ChainInv, Typed, Agent
  <1>5. CASE LeaveWaiting
    BY <1>5, LeaveShape
  <1>6. CASE \E answered \in BOOLEAN : Send(answered)
    BY <1>6, SendShape
  <1>7. CASE ServerNext /\ UNCHANGED agent
    BY <1>7, ServerShape
  <1>8. CASE UNCHANGED vars
    <2>1. now' = now /\ session' = session /\ agent' = agent
      BY <1>8 DEF vars
    <2>2. Rests
      BY <2>1 DEF Rests, ChainInv, Chain, Closed
    <2> QED BY <2>1, <2>2 DEF Shape, ChainInv, Typed
  <1> QED BY <1>1, <1>2, <1>3, <1>4, <1>5, <1>6, <1>7, <1>8 DEF Next, AgentNext

-----------------------------------------------------------------------------
(* The invariant *)

\* The invariant as the lemmas about the chain take it.
LEMMA ChainInvTypes == ChainInv => ChainTypes /\ Chain
  BY DEF ChainInv, Typed, ChainTypes, Agent

\* Initially log and queue are empty.
LEMMA InitChain == Init => ChainInv
  <1> SUFFICES ASSUME Init PROVE ChainInv
    OBVIOUS
  <1>1. now = 0 /\ session = Consented /\ agent \in Agent
    <2>1. now = 0 /\ session = Consented
      BY DEF Init, ServerInit
    <2>2. <<>> \in Seq(Event) /\ 0 \in 0..MaxLaunches
      BY AgentAssumption
    <2>3. PICK p \in Platforms : agent =
            [platform |-> p, mode |-> "idle", queue |-> <<>>, next |-> 0, started |-> FALSE,
             recovering |-> FALSE, beat |-> NoTime, launches |-> 0]
      BY DEF Init
    <2>4. agent \in Agent
      BY <2>2, <2>3 DEF Agent
    <2> QED BY <2>1, <2>4
  <1>2. /\ agent.queue = <<>> /\ agent.next = 0 /\ agent.mode = "idle"
        /\ session.log = <<>> /\ DOMAIN session = Rows
    BY <1>1 DEF Init, Consented, Rows
  <1>3. Typed
    BY <1>1, <1>2, TimesAssumption DEF Typed, Times
  <1>4. Len(session.log) = 0 /\ Len(agent.queue) = 0
    BY <1>2
  <1>5. LogNumbered
    BY <1>4 DEF LogNumbered
  <1>6. First = 0
    <2>1. agent.next = 0
      BY <1>2
    <2> QED BY <1>4, <2>1 DEF First
  <1>7. QueueNumbered /\ Joined
    BY <1>2, <1>4, <1>6 DEF QueueNumbered, Joined
  <1> QED BY <1>2, <1>3, <1>5, <1>7 DEF ChainInv, Chain

\* Every step keeps the chain, as each of the five shapes does.
LEMMA NextChain == ChainInv /\ [Next]_vars => ChainInv'
  <1> SUFFICES ASSUME ChainInv, [Next]_vars PROVE ChainInv'
    OBVIOUS
  <1>1. ChainTypes /\ Chain
    BY ChainInvTypes
  <1>2. Typed' /\ Shape
    BY NextShape
  <1>3. Chain'
    BY <1>1, <1>2, ChainRests, ChainGrows, ChainMoves, ChainShrinks, ChainForgotten DEF Shape
  <1> QED BY <1>2, <1>3 DEF ChainInv

\* The chain is an invariant.
LEMMA AlwaysChain == Spec => []ChainInv
  BY InitChain, NextChain, PTL DEF Spec

\* What is left to send is the queue without the event the server has already.
LEMMA UnsentIs == ChainInv => Unsent = IF Overlap THEN Tail(agent.queue) ELSE agent.queue
  <1> SUFFICES ASSUME ChainInv
               PROVE  Unsent = IF Overlap THEN Tail(agent.queue) ELSE agent.queue
    OBVIOUS
  <1>1. CASE agent.queue = <<>>
    BY <1>1 DEF Unsent, Overlap
  <1>2. CASE agent.queue # <<>>
    BY <1>2, ChainInvTypes, HeadReplayed DEF Unsent, ChainInv, Chain
  <1> QED BY <1>1, <1>2

\* Log and queue always join into one chain: no restart, lost answer or replay
\* ever makes a gap or a repetition in the evidence.
THEOREM ChainIsIntact == Spec => []ChainIntact
  <1>1. ChainInv => ChainIntact
    <2> SUFFICES ASSUME ChainInv PROVE ChainIntact
      OBVIOUS
    <2> DEFINE L == Len(session.log)
    <2>1. ChainTypes /\ Chain /\ L \in Nat /\ Len(agent.queue) \in Nat /\ First \in Int
      BY ChainInvTypes DEF ChainTypes, First
    <2>2. /\ Unsent \in Seq(Event) /\ Len(Unsent) \in Nat
          /\ \A k \in 1..Len(Unsent) : Unsent[k].n = L + k - 1
          /\ agent.mode # "gone" => agent.next = L + Len(Unsent)
      <3>1. CASE Overlap
        <4>1. agent.queue # <<>> /\ Unsent = Tail(agent.queue) /\ L = First + 1
          BY <3>1, UnsentIs DEF Overlap
        <4>2. /\ Unsent \in Seq(Event) /\ Len(Unsent) = Len(agent.queue) - 1
              /\ \A k \in 1..Len(Unsent) : Unsent[k] = agent.queue[k + 1]
          BY <2>1, <4>1 DEF ChainTypes
        <4>3. ASSUME NEW k \in 1..Len(Unsent) PROVE Unsent[k].n = L + k - 1
          <5>1. k + 1 \in 1..Len(agent.queue) /\ k \in Int
            BY <2>1, <4>2
          <5>2. agent.queue[k + 1].n = First + (k + 1) - 1
            BY <2>1, <5>1 DEF Chain, QueueNumbered
          <5> QED BY <2>1, <4>1, <4>2, <5>1, <5>2
        <4>4. agent.next = L + Len(Unsent)
          BY <2>1, <4>1, <4>2 DEF First, ChainTypes
        <4> QED BY <2>1, <4>2, <4>3, <4>4
      <3>2. CASE ~Overlap /\ agent.mode # "gone"
        <4>1. Unsent = agent.queue /\ L = First
          BY <2>1, <3>2, UnsentIs DEF Chain, Joined
        <4> QED BY <2>1, <4>1 DEF Chain, QueueNumbered, First, ChainTypes
      <3>3. CASE ~Overlap /\ agent.mode = "gone"
        BY <2>1, <3>3, UnsentIs DEF Chain, ChainTypes
      <3> QED BY <3>1, <3>2, <3>3
    <2>3. /\ Len(session.log \o Unsent) = L + Len(Unsent)
          /\ \A k \in 1..L : (session.log \o Unsent)[k] = session.log[k]
          /\ \A k \in 1..Len(Unsent) : (session.log \o Unsent)[L + k] = Unsent[k]
      BY <2>1, <2>2 DEF ChainTypes
    <2>4. ASSUME NEW k \in 1..Len(session.log \o Unsent)
          PROVE  (session.log \o Unsent)[k].n = k - 1
      <3>1. CASE k \in 1..L
        BY <2>1, <2>3, <3>1 DEF Chain, LogNumbered
      <3>2. CASE k \notin 1..L
        <4>1. PICK m \in 1..Len(Unsent) : k = L + m
          <5>1. k - L \in 1..Len(Unsent) /\ k = L + (k - L)
            BY <2>1, <2>2, <2>3, <2>4, <3>2
          <5> QED BY <5>1
        <4> QED BY <2>2, <2>3, <4>1
      <3> QED BY <3>1, <3>2
    <2> QED BY <2>2, <2>3, <2>4 DEF ChainIntact
  <1> QED BY AlwaysChain, <1>1, PTL

-----------------------------------------------------------------------------
(* The refinement *)

Produced == session.log \o Unsent

\* A sequence begins with the part it was extended from.
LEMMA Prefix ==
  ASSUME NEW S, NEW a \in Seq(S), NEW b \in Seq(S)
  PROVE  SubSeq(a \o b, 1, Len(a)) = a
  OBVIOUS

\* Appending the last element commutes with concatenation.
LEMMA ConcatAppend ==
  ASSUME NEW S, NEW a \in Seq(S), NEW b \in Seq(S), NEW e \in S
  PROVE  a \o Append(b, e) = Append(a \o b, e)
  <1>1. a \o b \in Seq(S) /\ <<e>> \in Seq(S)
    OBVIOUS
  <1>2. a \o (b \o <<e>>) = (a \o b) \o <<e>>
    BY <1>1, ConcatAssociative
  <1> QED BY <1>1, <1>2, AppendIsConcat

\* Moving the head of one sequence to the end of another keeps their concatenation.
LEMMA MoveHead ==
  ASSUME NEW S, NEW a \in Seq(S), NEW q \in Seq(S), q # <<>>
  PROVE  Append(a, q[1]) \o Tail(q) = a \o q
  <1>1. q[1] \in S /\ <<q[1]>> \in Seq(S) /\ Tail(q) \in Seq(S) /\ q = <<q[1]>> \o Tail(q)
    OBVIOUS
  <1>2. (a \o <<q[1]>>) \o Tail(q) = a \o (<<q[1]>> \o Tail(q))
    BY <1>1, ConcatAssociative
  <1> QED BY <1>1, <1>2, AppendIsConcat

\* What a step of each shape does to the overlap of log and queue.
LEMMA OverlapAfter ==
  ASSUME ChainTypes, Chain, ChainTypes', Chain'
  PROVE  /\ \A e \in Event : Grows(e) => (Overlap' <=> Overlap)
         /\ Moves => (Overlap' <=> agent'.queue = agent.queue)
         /\ Shrinks => ~Overlap'
  <1>1. /\ Len(agent.queue) \in Nat /\ agent.next \in Nat /\ First \in Int
        /\ Len(session.log) \in Nat
    BY DEF ChainTypes, First
  <1>2. agent'.mode # "gone" => (Overlap' <=> Len(session'.log) # First')
    BY <1>1 DEF Chain, Joined, Overlap, First, ChainTypes
  <1>3. agent.mode # "gone" => (Overlap <=> Len(session.log) # First)
    BY <1>1 DEF Chain, Joined, Overlap, First, ChainTypes
  <1>4. ASSUME NEW e \in Event, Grows(e) PROVE Overlap' <=> Overlap
    <2>1. Len(agent'.queue) = Len(agent.queue) + 1
      BY <1>4 DEF Grows, ChainTypes
    <2>2. agent'.next - Len(agent'.queue) = agent.next - Len(agent.queue)
      BY <1>1, <1>4, <2>1 DEF Grows
    <2>3. First' = First /\ session'.log = session.log
      BY <1>4, <2>2 DEF First, Grows
    <2> QED BY <1>2, <1>3, <1>4, <2>3 DEF Grows, Overlap
  <1>5. ASSUME Moves PROVE Overlap' <=> agent'.queue = agent.queue
    <2>1. Len(session'.log) = Len(session.log) + 1 /\ Len(session.log) = First
      BY <1>3, <1>5 DEF Moves, ChainTypes
    <2>2. Len(Tail(agent.queue)) = Len(agent.queue) - 1
      BY <1>5 DEF Moves, ChainTypes
    <2>3. CASE agent'.queue = agent.queue
      <3>1. First' = First
        BY <1>5, <2>3 DEF First, Moves
      <3> QED BY <1>1, <1>2, <1>5, <2>1, <2>3, <3>1 DEF Moves
    <2>4. CASE agent'.queue = Tail(agent.queue)
      <3>1. agent'.next - Len(agent'.queue) = agent.next - Len(agent.queue) + 1
        BY <1>1, <1>5, <2>2, <2>4 DEF Moves
      <3>2. First' = First + 1
        BY <3>1 DEF First
      <3>3. agent'.queue # agent.queue
        <4>1. Len(agent'.queue) # Len(agent.queue)
          BY <1>1, <2>2, <2>4
        <4> QED BY <4>1
      <3> QED BY <1>1, <1>2, <1>5, <2>1, <3>2, <3>3 DEF Moves
    <2> QED BY <1>5, <2>3, <2>4 DEF Moves
  <1>6. ASSUME Shrinks PROVE ~Overlap'
    <2>1. agent.queue # <<>> /\ Len(session.log) = First + 1 /\ session'.log = session.log
      BY <1>6 DEF Shrinks, Overlap
    <2>2. Len(agent'.queue) = Len(agent.queue) - 1
      BY <1>6, <2>1 DEF Shrinks, ChainTypes
    <2>3. agent'.next - Len(agent'.queue) = agent.next - Len(agent.queue) + 1
      BY <1>1, <1>6, <2>2 DEF Shrinks
    <2>4. First' = First + 1
      BY <2>3 DEF First
    <2> QED BY <1>1, <1>2, <1>6, <2>1, <2>4 DEF Shrinks
  <1> QED BY <1>4, <1>5, <1>6

\* Every step of the system is a step of the evidence, or changes nothing of it.
LEMMA EvidenceSteps ==
  ASSUME ChainInv, ChainInv', Shape
  PROVE  [Evidence!Next]_Evidence!vars
  <1>1. /\ ChainTypes /\ Chain /\ ChainTypes' /\ Chain'
        /\ Unsent = IF Overlap THEN Tail(agent.queue) ELSE agent.queue
    BY ChainInvTypes, UnsentIs DEF ChainInv, Typed, ChainTypes, Agent
  <1>2. Unsent' = IF Overlap' THEN Tail(agent'.queue) ELSE agent'.queue
    <2>1. (ChainInv => Unsent = IF Overlap THEN Tail(agent.queue) ELSE agent.queue)'
      BY UnsentIs, PTL
    <2> QED BY <2>1
  <1>3. /\ session.log \in Seq(Event) /\ Len(session.log) \in Nat
        /\ Unsent \in Seq(Event) /\ Produced \in Seq(Event)
        /\ Len(Produced) = Len(session.log) + Len(Unsent) /\ Len(Unsent) \in Nat
    <2>1. Unsent \in Seq(Event)
      BY <1>1 DEF ChainTypes, Overlap
    <2> QED BY <1>1, <2>1 DEF ChainTypes, Produced
  <1>4. CASE Rests
    <2>1. Unsent' = Unsent /\ session'.log = session.log
      BY <1>4 DEF Rests, Unsent, Range
    <2>2. CASE agent' = agent
      <3>1. CASE Closed' <=> Closed
        <4>1. (session'.status \in {"COMPLETED", "CANCELLED"})
              = (session.status \in {"COMPLETED", "CANCELLED"})
          BY <3>1 DEF Closed
        <4> QED BY <2>1, <2>2, <4>1 DEF Evidence!vars
      <3>2. CASE ~Closed /\ Closed'
        <4>1. Evidence!Close
          BY <2>1, <2>2, <3>2 DEF Evidence!Close, Closed
        <4> QED BY <4>1 DEF Evidence!Next
      <3> QED BY <1>4, <3>1, <3>2 DEF Rests
    <2>3. CASE session' = session
      <3>1. CASE (agent'.mode = "gone") = (agent.mode = "gone")
        BY <2>1, <2>3, <3>1 DEF Evidence!vars
      <3>2. CASE agent'.mode = "gone" /\ agent.mode # "gone"
        <4>1. Unsent = <<>>
          BY <1>4, <3>2 DEF Rests, Unsent
        <4>2. session.log \o Unsent = SubSeq(session.log \o Unsent, 1, Len(session.log))
          BY <1>3, <4>1, Prefix
        <4> QED BY <2>1, <2>3, <3>2, <4>2
              DEF Evidence!Next, Evidence!Discharge, Evidence!Recorded
      <3> QED BY <1>4, <3>1, <3>2 DEF Rests
    <2> QED BY <1>4, <2>2, <2>3 DEF Rests
  <1>5. ASSUME NEW e \in Event, Grows(e) PROVE Evidence!Produce
    <2>1. Overlap' <=> Overlap
      BY <1>1, <1>5, OverlapAfter
    <2>2. Overlap => Tail(Append(agent.queue, e)) = Append(Tail(agent.queue), e)
      BY <1>1, HeadTailAppend DEF ChainTypes, Overlap
    <2>3. Unsent' = Append(Unsent, e)
      BY <1>1, <1>2, <1>5, <2>1, <2>2 DEF Grows
    <2>4. session.log \o Unsent' = Append(Produced, e)
      <3>1. session.log \o Append(Unsent, e) = Append(session.log \o Unsent, e)
        <4>1. \A a \in Seq(Event), b \in Seq(Event) : a \o Append(b, e) = Append(a \o b, e)
          BY ConcatAppend
        <4> QED BY <1>3, <4>1
      <3> QED BY <2>3, <3>1 DEF Produced
    <2>5. /\ Append(Produced, e) \in Seq(Event)
          /\ Len(Append(Produced, e)) = Len(Produced) + 1
          /\ SubSeq(Append(Produced, e), 1, Len(Produced)) = Produced
      <3>1. <<e>> \in Seq(Event) /\ Append(Produced, e) = Produced \o <<e>>
        BY <1>3, AppendIsConcat
      <3> QED BY <1>3, <3>1, Prefix
    <2> QED BY <1>5, <2>4, <2>5 DEF Grows, Evidence!Produce, Produced
  <1>6. CASE Moves
    <2>1. Unsent = agent.queue /\ Unsent' = Tail(agent.queue)
      BY <1>1, <1>2, <1>6, OverlapAfter DEF Moves
    <2>2. Append(session.log, agent.queue[1]) \o Tail(agent.queue) = session.log \o agent.queue
      BY <1>1, <1>6, MoveHead DEF ChainTypes, Moves
    <2>3. /\ session'.log = Append(session.log, agent.queue[1]) /\ Len(agent.queue) > 0
          /\ Len(session'.log) = Len(session.log) + 1
      BY <1>1, <1>6 DEF ChainTypes, Moves
    <2>4. (session'.status \in {"COMPLETED", "CANCELLED"}) \in BOOLEAN
      OBVIOUS
    <2>5. Len(session.log) < Len(session.log \o Unsent)
      <3>1. Len(Unsent) > 0 /\ Len(session.log \o Unsent) = Len(session.log) + Len(Unsent)
        BY <1>3, <2>1, <2>3 DEF Produced
      <3> HIDE <2>1
      <3> QED BY <1>3, <3>1
    <2>6. session'.log \o Unsent' = session.log \o Unsent
      BY <2>1, <2>2, <2>3
    <2> QED BY <1>6, <2>3, <2>4, <2>5, <2>6
          DEF Moves, Closed, Evidence!Next, Evidence!Keep
  <1>7. CASE Shrinks
    <2>1. Unsent = Tail(agent.queue) /\ Unsent' = Tail(agent.queue)
      BY <1>1, <1>2, <1>7, OverlapAfter DEF Shrinks
    <2> QED BY <1>7, <2>1 DEF Shrinks, Evidence!vars
  <1>8. CASE Forgets
    <2>1. Unsent' = <<>>
      BY <1>2, <1>8 DEF Forgets, Overlap
    <2>2. session.log \o Unsent' = SubSeq(session.log \o Unsent, 1, Len(session.log))
      BY <1>3, <2>1, Prefix
    <2> QED BY <1>8, <2>2
          DEF Forgets, Evidence!Next, Evidence!Discharge, Evidence!Recorded
  <1> QED BY <1>4, <1>5, <1>6, <1>7, <1>8 DEF Shape, Evidence!Next

\* Agents and server implement EvidenceLog: what is recorded is a prefix of what
\* the device produced, nothing is added after the close, and nothing is lost
\* but by the device's own discharge.
THEOREM AgentKeepsEvidence == Spec => KeepsEvidence
  <1>1. Init => Evidence!Init
    BY DEF Init, ServerInit, Consented, Evidence!Init, Unsent
  <1>2. ChainInv /\ ChainInv' /\ [Next]_vars => [Evidence!Next]_Evidence!vars
    BY NextShape, EvidenceSteps
  <1> QED BY AlwaysChain, <1>1, <1>2, PTL DEF Spec, KeepsEvidence, Evidence!Spec

-----------------------------------------------------------------------------
(* The end of the session *)

IsRow(s) == s = [field \in Rows |-> s[field]]

\* The coverage told to the customer is the one the interruptions imply.
Accounted(s) ==
    s.status = "COMPLETED" => s.coverage = Coverage(s.gaps, s.started, s.ended)

Account == IsRow(session) /\ Accounted(session)

\* The end of monitoring leaves a correct account.
LEMMA FinishAccounts ==
  ASSUME NEW s, IsRow(s), NEW requested, NEW why
  PROVE  IsRow(Finish(s, requested, why)) /\ Accounted(Finish(s, requested, why))
  <1> DEFINE ending == EndingAt(s, requested)
             closed == IF s.open = NoGap THEN s ELSE CloseGap(s, ending)
  <1>1. IsRow(closed) /\ DOMAIN closed = Rows /\ closed.started = s.started
    <2>1. DOMAIN s = Rows
      BY DEF IsRow
    <2> QED BY <2>1 DEF IsRow, Rows, CloseGap
  <1> HIDE DEF closed, ending
  <1>2. ASSUME NEW c
        PROVE  LET t == [closed EXCEPT !.status = "COMPLETED", !.health = "COMPLETED",
                             !.ended = ending, !.coverage = c, !.reason = why]
               IN  /\ IsRow(t) /\ t.gaps = closed.gaps /\ t.started = s.started
                   /\ t.ended = ending /\ t.coverage = c
    BY <1>1 DEF IsRow, Rows
  <1>3. Finish(s, requested, why) =
            [closed EXCEPT !.status = "COMPLETED", !.health = "COMPLETED", !.ended = ending,
                 !.coverage = Coverage(closed.gaps, s.started, ending), !.reason = why]
    BY DEF Finish, closed, ending
  <1>4. LET t == Finish(s, requested, why) IN
        /\ IsRow(t) /\ t.gaps = closed.gaps /\ t.started = s.started
        /\ t.ended = ending /\ t.coverage = Coverage(closed.gaps, s.started, ending)
    <2> DEFINE c == Coverage(closed.gaps, s.started, ending)
               t == [closed EXCEPT !.status = "COMPLETED", !.health = "COMPLETED",
                         !.ended = ending, !.coverage = c, !.reason = why]
    <2>1. Finish(s, requested, why) = t
      BY <1>3
    <2> HIDE DEF c
    <2>2. IsRow(t) /\ t.gaps = closed.gaps /\ t.started = s.started /\ t.ended = ending /\ t.coverage = c
      BY <1>2
    <2> HIDE DEF t
    <2>3. LET f == Finish(s, requested, why) IN
          /\ IsRow(f) /\ f.gaps = closed.gaps /\ f.started = s.started
          /\ f.ended = ending /\ f.coverage = c
      BY <2>1, <2>2
    <2> QED BY <2>3 DEF c
  <1> QED BY <1>4 DEF Accounted

\* The triggers and the watch yield rows.
LEMMA TriggerIsRow ==
  ASSUME NEW s, IsRow(s), NEW at
  PROVE  /\ IsRow(OnHeartbeat(s)) /\ IsRow(OnUnhealthy(s, at))
         /\ IsRow(OnHealthy(s, at)) /\ IsRow(Watch(s))
  <1>1. DOMAIN s = Rows
    BY DEF IsRow
  <1>2. IsRow(OnHeartbeat(s))
    BY <1>1 DEF IsRow, Rows, OnHeartbeat, CloseGap
  <1>3. IsRow(OnUnhealthy(s, at))
    BY <1>1 DEF IsRow, Rows, OnUnhealthy
  <1>4. IsRow(OnHealthy(s, at))
    BY <1>1 DEF IsRow, Rows, OnHealthy, CloseGap
  <1>5. IsRow(Watch(s))
    BY <1>1 DEF IsRow, Rows, Watch
  <1> QED BY <1>2, <1>3, <1>4, <1>5

\* Recording an event in an open session leaves a correct account.
LEMMA RecordAccounts ==
  ASSUME NEW s, IsRow(s), s.status # "COMPLETED", NEW e \in Event
  PROVE  IsRow(Record(s, e)) /\ Accounted(Record(s, e))
  <1> DEFINE kept == [s EXCEPT !.log = Append(@, e)]
  <1>1. IsRow(kept) /\ DOMAIN kept = Rows /\ kept.status # "COMPLETED"
    <2>1. DOMAIN s = Rows
      BY DEF IsRow
    <2> QED BY <2>1 DEF IsRow, Rows
  <1> HIDE DEF kept
  <1>2. e.type \in EventTypes
    BY DEF Event
  <1>3. CASE e.type = "MONITORING_STARTED"
    <2>1. Record(s, e) = [kept EXCEPT !.status = "MONITORING_ACTIVE", !.started = now,
                                      !.health = "ACTIVE"]
      BY <1>3 DEF Record, kept
    <2> QED BY <1>1, <2>1 DEF Rows, IsRow, Accounted
  <1>4. CASE e.type = "MONITORING_STOPPED"
    <2>1. Record(s, e) = Finish(kept, e.at, "AGENT")
      BY <1>4 DEF Record, kept
    <2> QED BY <1>1, <2>1, FinishAccounts
  <1>5. ASSUME NEW t, IsRow(t), Keeps(kept, t) PROVE Accounted(t)
    BY <1>1, <1>5 DEF Accounted, Keeps
  <1>6. CASE e.type = "HEARTBEAT"
    <2>1. Record(s, e) = OnHeartbeat(kept)
      BY <1>6 DEF Record, kept
    <2>2. IsRow(OnHeartbeat(kept)) /\ Keeps(kept, OnHeartbeat(kept))
      BY <1>1, TriggerIsRow, TriggerRows
    <2> QED BY <1>5, <2>1, <2>2
  <1>7. CASE e.type = "UNHEALTHY"
    <2>1. Record(s, e) = OnUnhealthy(kept, e.at)
      BY <1>7 DEF Record, kept
    <2>2. IsRow(OnUnhealthy(kept, e.at)) /\ Keeps(kept, OnUnhealthy(kept, e.at))
      BY <1>1, TriggerIsRow, TriggerRows
    <2> QED BY <1>5, <2>1, <2>2
  <1>8. CASE e.type = "HEALTHY"
    <2>1. Record(s, e) = OnHealthy(kept, e.at)
      BY <1>8 DEF Record, kept
    <2>2. IsRow(OnHealthy(kept, e.at)) /\ Keeps(kept, OnHealthy(kept, e.at))
      BY <1>1, TriggerIsRow, TriggerRows
    <2> QED BY <1>5, <2>1, <2>2
  <1>9. CASE e.type = "EVIDENCE"
    <2>1. Record(s, e) = kept
      BY <1>9 DEF Record, kept
    <2> QED BY <1>1, <2>1 DEF Accounted
  <1> QED BY <1>2, <1>3, <1>4, <1>6, <1>7, <1>8, <1>9 DEF EventTypes

\* A step keeps the account, and changes nothing of a closed session.
LEMMA NextAccount ==
  ASSUME ChainInv, Account, [Next]_vars
  PROVE  Account' /\ (Closed => session' = session)
  <1>1. IsRow(session) /\ DOMAIN session = Rows /\ Accounted(session)
    BY DEF Account, IsRow
  <1>2. CASE session' = session
    BY <1>2, <1>1 DEF Account
  <1>3. CASE \E answered \in BOOLEAN : Send(answered)
    <2>1. PICK answered \in BOOLEAN : Send(answered)
      BY <1>3
    <2>2. CASE /\ ~Refused(session, Head(agent.queue))
               /\ session' = Record(session, Head(agent.queue))
      <3>1. agent.queue \in Seq(Event) /\ agent.queue # <<>>
        BY <2>1 DEF Send, ChainInv, Typed, Agent
      <3>2. Head(agent.queue) \in Event
        BY <3>1
      <3>3. ~Closed
        BY <2>2 DEF Refused, Closed
      <3>4. IsRow(session') /\ Accounted(session')
        BY <1>1, <2>2, <3>2, <3>3, RecordAccounts DEF Closed
      <3> QED BY <3>3, <3>4 DEF Account, IsRow, Accounted
    <2> QED BY <1>2, <2>1, <2>2 DEF Send, Ingest
  <1>4. CASE Orchestrate
    <2>1. IsRow(Watch(session)) /\ Keeps(session, Watch(session))
      BY <1>1, TriggerIsRow, TriggerRows
    <2>2. LET t == Finish(Watch(session), End, "AUTHORIZED_WINDOW_ENDED") IN
          IsRow(t) /\ Accounted(t)
      BY <2>1, FinishAccounts
    <2>3. IsRow(session') /\ Accounted(session') /\ ~Closed
      BY <1>4, <2>1, <2>2 DEF Orchestrate, Active, Keeps, Accounted, Closed
    <2> QED BY <2>3 DEF Account, IsRow, Accounted
  <1>5. CASE EndByUser
    <2>1. IsRow(session') /\ Accounted(session') /\ ~Closed
      BY <1>1, <1>5, FinishAccounts DEF EndByUser, Active, Closed
    <2> QED BY <2>1 DEF Account, IsRow, Accounted
  <1>6. CASE StartFromWorkspace \/ Withdraw
    BY <1>1, <1>6 DEF StartFromWorkspace, Withdraw, Account, Closed, IsRow, Rows, Accounted
  <1>7. CASE Report
    <2>1. session' = [session EXCEPT !.coverage = session.coverage]
      BY <1>1, <1>7 DEF Report, Accounted
    <2>2. session' = session
      BY <1>1, <2>1 DEF IsRow, Rows
    <2> QED BY <1>2, <2>2
  <1> QED BY <1>2, <1>3, <1>4, <1>5, <1>6, <1>7
        DEF Next, AgentNext, ServerNext, vars, Launch, Flushed, Begin, LeaveWaiting,
            Emit, Stop, Delivered, Exit, Tick

\* The account is an invariant: the first one is empty.
LEMMA AlwaysAccount == Spec => []Account
  <1>1. Init => Account
    <2>1. DOMAIN Consented = Rows
      BY DEF Consented, Rows
    <2>2. Consented = [field \in DOMAIN Consented |-> Consented[field]]
      BY DEF Consented
    <2>3. IsRow(Consented) /\ Consented.status = "CONSENTED"
      BY <2>1, <2>2 DEF IsRow, Consented
    <2> QED BY <2>3 DEF Init, ServerInit, Account, Accounted
  <1>2. ChainInv /\ Account /\ [Next]_vars => Account'
    BY NextAccount
  <1> QED BY AlwaysChain, <1>1, <1>2, PTL DEF Spec

\* A closed session stays as it is: neither late events nor the cron, the users
\* or the report, which recalculates the coverage, change it.
THEOREM NothingIsAddedAfterTheEnd == Spec => NothingAfterTheEnd
  <1>1. ChainInv /\ Account /\ [Next]_vars =>
            [session.status \in {"COMPLETED", "CANCELLED"} => UNCHANGED session]_session
    BY NextAccount DEF Closed
  <1> QED BY AlwaysChain, AlwaysAccount, <1>1, PTL DEF Spec, NothingAfterTheEnd

-----------------------------------------------------------------------------
(* Health, interruptions and the final account *)

Made == Range(session.log) \cup Range(agent.queue)

\* The clock of the agent runs forward along the chain.
InOrder ==
    /\ agent.mode \in {"starting", "monitoring", "stopping"} => Start <= now
    /\ \A x \in Made : Start <= x.at /\ x.at <= now
    /\ \A x, y \in Made : x.n <= y.n => x.at <= y.at

\* An agent that notes the start when it makes the event makes it only once.
StartsOnce ==
    ~Windows =>
        /\ \/ agent.started
           \/ agent.next = 0 /\ agent.mode \notin {"starting", "monitoring", "stopping"}
        /\ \A x \in Made : x.type = "MONITORING_STARTED" => x.n = 0

\* A latest heartbeat exists, and none lies in the future.
Heard(s) ==
    /\ s.beats \subseteq 0..now
    /\ s.beats # {} => \E b \in s.beats : \A c \in s.beats : c <= b

Gaps == [from: Times, to: Times]
OpenGaps == [from: Times, why: {"HEARTBEAT_MISSED", "BROWSER"}]

GapsClosed(s) ==
    /\ s.gaps \in Seq(Gaps)
    /\ \A k \in 1..Len(s.gaps) : s.gaps[k].from <= s.gaps[k].to

\* An open interruption began before now and before the end; one of the browser
\* began no later than the last event that was recorded.
GapOpened(s) ==
    /\ s.open \in OpenGaps \cup {NoGap}
    /\ s.open # NoGap => s.open.from <= now /\ s.open.from <= End
    /\ s.open.why = "BROWSER" => s.log # <<>> /\ s.open.from <= s.log[Len(s.log)].at

Statuses == {"CONSENTED", "MONITORING_ACTIVE", "COMPLETED", "CANCELLED"}

\* What each status says of the other rows.
StatusMeans(s) ==
    /\ s.status \in Statuses
    /\ s.status = "CONSENTED" => s.open = NoGap /\ s.health = "PENDING"
    /\ Active(s) => /\ s.started \in Start..End /\ s.started <= now
                    /\ s.health = "INTERRUPTED" <=> s.open # NoGap
    /\ s.status = "COMPLETED" => /\ s.open = NoGap
                                 /\ s.started \in Start..End /\ s.ended \in s.started..End

SessionInv(s) == Heard(s) /\ GapsClosed(s) /\ GapOpened(s) /\ StatusMeans(s)

\* With ChainInv and Account, the inductive invariant.
TimelyInv == InOrder /\ StartsOnce /\ SessionInv(session)

\* The rows that an operation on interruptions leaves alone.
Same(s, t) == t.status = s.status /\ t.started = s.started /\ t.ended = s.ended /\ t.log = s.log

LEMMA CloseGapFields ==
  ASSUME NEW s, IsRow(s), NEW at
  PROVE  LET t == CloseGap(s, at) IN
         /\ IsRow(t) /\ Same(s, t) /\ t.beats = s.beats /\ t.health = s.health
         /\ t.open = NoGap /\ t.gaps = Append(s.gaps, [from |-> s.open.from, to |-> at])
  <1>1. DOMAIN s = Rows
    BY DEF IsRow
  <1> QED BY <1>1 DEF CloseGap, IsRow, Rows, Same

LEMMA FinishFields ==
  ASSUME NEW s, IsRow(s), NEW requested, NEW why
  PROVE  LET t == Finish(s, requested, why) IN
         /\ t.status = "COMPLETED" /\ t.started = s.started /\ t.log = s.log /\ t.beats = s.beats
         /\ t.ended = EndingAt(s, requested) /\ t.open = NoGap
         /\ t.gaps = IF s.open = NoGap THEN s.gaps
                     ELSE Append(s.gaps, [from |-> s.open.from, to |-> EndingAt(s, requested)])
  <1> DEFINE ending == EndingAt(s, requested)
             closed == IF s.open = NoGap THEN s ELSE CloseGap(s, ending)
  <1>1. /\ IsRow(closed) /\ Same(s, closed) /\ closed.beats = s.beats /\ closed.open = NoGap
        /\ closed.gaps = IF s.open = NoGap THEN s.gaps
                         ELSE Append(s.gaps, [from |-> s.open.from, to |-> ending])
    BY CloseGapFields DEF Same
  <1>2. Finish(s, requested, why) =
            [closed EXCEPT !.status = "COMPLETED", !.health = "COMPLETED", !.ended = ending,
                 !.coverage = Coverage(closed.gaps, s.started, ending), !.reason = why]
    BY DEF Finish
  <1> HIDE DEF closed, ending
  <1>3. DOMAIN closed = Rows
    BY <1>1 DEF IsRow
  <1>4. ASSUME NEW c
        PROVE  LET t == [closed EXCEPT !.status = "COMPLETED", !.health = "COMPLETED",
                             !.ended = ending, !.coverage = c, !.reason = why]
               IN  /\ t.status = "COMPLETED" /\ t.ended = ending
                   /\ t.started = closed.started /\ t.log = closed.log /\ t.beats = closed.beats
                   /\ t.open = closed.open /\ t.gaps = closed.gaps
    BY <1>3 DEF Rows
  <1>5. LET t == Finish(s, requested, why) IN
        /\ t.status = "COMPLETED" /\ t.ended = ending
        /\ t.started = closed.started /\ t.log = closed.log /\ t.beats = closed.beats
        /\ t.open = closed.open /\ t.gaps = closed.gaps
    BY <1>2, <1>4
  <1>6. ending = EndingAt(s, requested)
    BY DEF ending
  <1> QED BY <1>1, <1>5, <1>6 DEF Same

\* An interruption that is closed joins the others.
LEMMA GapJoins ==
  ASSUME NEW gaps \in Seq(Gaps), \A k \in 1..Len(gaps) : gaps[k].from <= gaps[k].to,
         NEW from \in Times, NEW to \in Times, from <= to
  PROVE  LET all == Append(gaps, [from |-> from, to |-> to]) IN
         all \in Seq(Gaps) /\ \A k \in 1..Len(all) : all[k].from <= all[k].to
  <1> DEFINE g == [from |-> from, to |-> to]
  <1>1. g \in Gaps /\ g.from <= g.to
    BY DEF Gaps
  <1> HIDE DEF g
  <1>2. LET all == Append(gaps, g) IN
        all \in Seq(Gaps) /\ \A k \in 1..Len(all) : all[k].from <= all[k].to
    BY <1>1
  <1> QED BY <1>2 DEF g

LEMMA EndingBounds ==
  ASSUME NEW s, s.started \in Start..End, NEW requested \in Int
  PROVE  /\ EndingAt(s, requested) \in s.started..End /\ EndingAt(s, requested) \in Times
         /\ requested <= End => requested <= EndingAt(s, requested)
         /\ End <= requested => EndingAt(s, requested) = End
  BY TimesAssumption DEF EndingAt, GREATEST, LEAST, Times

LEMMA NoGapIsNone ==
  /\ NoGap.why = "NONE"
  /\ \A g \in OpenGaps \cup {NoGap} : g = NoGap <=> g.why = "NONE"
  /\ \A g \in OpenGaps : g # NoGap /\ g.from \in Times
  BY DEF NoGap, OpenGaps

\* Monitoring may end when what is open began before the end.
LEMMA FinishTimely ==
  ASSUME NEW s, IsRow(s), SessionInv(s), Active(s), NEW requested \in Int, NEW why,
         s.open # NoGap => s.open.from <= EndingAt(s, requested)
  PROVE  SessionInv(Finish(s, requested, why))
  <1> DEFINE t == Finish(s, requested, why)
             ending == EndingAt(s, requested)
  <1>1. /\ t.status = "COMPLETED" /\ t.started = s.started /\ t.log = s.log /\ t.beats = s.beats
        /\ t.ended = ending /\ t.open = NoGap
        /\ t.gaps = IF s.open = NoGap THEN s.gaps
                    ELSE Append(s.gaps, [from |-> s.open.from, to |-> ending])
    BY FinishFields
  <1>2. s.started \in Start..End
    BY DEF SessionInv, StatusMeans
  <1>3. ending \in s.started..End /\ ending \in Times
    BY <1>2, EndingBounds
  <1>4. s.open # NoGap => s.open.from <= ending
    OBVIOUS
  <1> HIDE DEF t, ending
  <1>5. GapsClosed(t)
    <2>1. CASE s.open = NoGap
      BY <1>1, <2>1 DEF SessionInv, GapsClosed
    <2>2. CASE s.open # NoGap
      <3>1. s.open.from \in Times
        BY <2>2, NoGapIsNone DEF SessionInv, GapOpened
      <3> QED BY <1>1, <1>3, <1>4, <2>2, <3>1, GapJoins DEF SessionInv, GapsClosed
    <2> QED BY <2>1, <2>2
  <1>6. Heard(t)
    BY <1>1 DEF SessionInv, Heard
  <1>7. GapOpened(t)
    BY <1>1, NoGapIsNone DEF GapOpened
  <1>8. StatusMeans(t)
    BY <1>1, <1>2, <1>3 DEF StatusMeans, Statuses, Active
  <1>9. SessionInv(t)
    BY <1>5, <1>6, <1>7, <1>8 DEF SessionInv
  <1> QED BY <1>9 DEF t

\* A closed interruption leaves an active session healthy.
LEMMA CloseTimely ==
  ASSUME NEW s, IsRow(s), Heard(s), GapsClosed(s), Active(s), s.started \in Start..End,
         s.started <= now, s.open \in OpenGaps, NEW at \in Times, s.open.from <= at,
         NEW t, t = [CloseGap(s, at) EXCEPT !.health = "ACTIVE"]
  PROVE  SessionInv(t)
  <1> DEFINE c == CloseGap(s, at)
  <1>1. /\ IsRow(c) /\ Same(s, c) /\ c.beats = s.beats
        /\ c.open = NoGap /\ c.gaps = Append(s.gaps, [from |-> s.open.from, to |-> at])
    BY CloseGapFields
  <1>2. DOMAIN c = Rows
    BY <1>1 DEF IsRow
  <1>3. t = [c EXCEPT !.health = "ACTIVE"]
    OBVIOUS
  <1> HIDE DEF c
  <1>4. /\ Same(s, t) /\ t.beats = s.beats /\ t.health = "ACTIVE"
        /\ t.open = NoGap /\ t.gaps = Append(s.gaps, [from |-> s.open.from, to |-> at])
    BY <1>1, <1>2, <1>3 DEF Same, Rows
  <1>5. GapsClosed(t)
    <2>1. s.open.from \in Times
      BY NoGapIsNone
    <2> QED BY <1>4, <2>1, GapJoins DEF GapsClosed
  <1>6. Heard(t) /\ GapOpened(t)
    BY <1>4, NoGapIsNone DEF Heard, GapOpened
  <1>7. StatusMeans(t)
    BY <1>4 DEF StatusMeans, Statuses, Active, Same
  <1> QED BY <1>5, <1>6, <1>7 DEF SessionInv

\* The rows of an active session whose last event has just been recorded.
Recorded(s, e) ==
    /\ IsRow(s) /\ SessionInv(s) /\ Active(s)
    /\ s.log # <<>> /\ s.log[Len(s.log)] = e
    /\ s.open.why = "BROWSER" => s.open.from <= e.at

LEMMA HeartbeatTimely ==
  ASSUME NEW s, IsRow(s), SessionInv(s), Active(s), now \in Times
  PROVE  SessionInv(OnHeartbeat(s))
  <1> DEFINE heard == [s EXCEPT !.beats = @ \cup {now}]
  <1>1. DOMAIN s = Rows
    BY DEF IsRow
  <1>2. /\ IsRow(heard) /\ Same(s, heard) /\ heard.beats = s.beats \cup {now}
        /\ heard.open = s.open /\ heard.gaps = s.gaps /\ heard.health = s.health
    BY <1>1 DEF IsRow, Rows, Same
  <1>3. OnHeartbeat(s) = IF s.open.why = "HEARTBEAT_MISSED"
                         THEN [CloseGap(heard, now) EXCEPT !.health = "ACTIVE"] ELSE heard
    BY DEF OnHeartbeat
  <1> HIDE DEF heard
  <1>4. Heard(heard)
    <2>1. s.beats \subseteq 0..now /\ now \in 0..now
      BY DEF SessionInv, Heard, Times
    <2>2. \A c \in heard.beats : c <= now
      BY <1>2, <2>1
    <2> QED BY <1>2, <2>1, <2>2 DEF Heard
  <1>5. GapsClosed(heard) /\ GapOpened(heard) /\ StatusMeans(heard)
    BY <1>2 DEF SessionInv, GapsClosed, GapOpened, StatusMeans, Same, Active
  <1>6. Active(heard) /\ heard.started \in Start..End /\ heard.started <= now
    BY <1>2 DEF SessionInv, StatusMeans, Same, Active
  <1>7. CASE s.open.why = "HEARTBEAT_MISSED"
    <2>1. heard.open \in OpenGaps /\ heard.open.from <= now
      BY <1>2, <1>7, NoGapIsNone DEF SessionInv, GapOpened
    <2> QED BY <1>2, <1>3, <1>4, <1>5, <1>6, <1>7, <2>1, CloseTimely
  <1>8. CASE s.open.why # "HEARTBEAT_MISSED"
    BY <1>3, <1>4, <1>5, <1>8 DEF SessionInv
  <1> QED BY <1>7, <1>8

LEMMA UnhealthyTimely ==
  ASSUME NEW e \in Event, NEW s, Recorded(s, e), e.at <= now, e.at <= End, now \in Times
  PROVE  SessionInv(OnUnhealthy(s, e.at))
  <1> DEFINE from == IF s.open = NoGap THEN e.at ELSE LEAST(s.open.from, e.at)
             gap == [from |-> from, why |-> "BROWSER"]
             t == OnUnhealthy(s, e.at)
  <1>1. DOMAIN s = Rows
    BY DEF Recorded, IsRow
  <1>2. e.at \in Times
    BY DEF Event
  <1>3. from \in Times /\ from <= e.at
    <2>1. CASE s.open = NoGap
      BY <1>2, <2>1 DEF Times
    <2>2. CASE s.open # NoGap
      <3>1. s.open.from \in Times
        BY <2>2, NoGapIsNone DEF Recorded, SessionInv, GapOpened
      <3> QED BY <1>2, <2>2, <3>1 DEF LEAST, Times
    <2> QED BY <2>1, <2>2
  <1>4. gap \in OpenGaps /\ gap # NoGap /\ gap.from = from
    BY <1>3 DEF OpenGaps, NoGap
  <1>5. t = [s EXCEPT !.open = gap, !.health = "INTERRUPTED"]
    BY DEF OnUnhealthy
  <1> HIDE DEF gap, t
  <1>6. /\ Same(s, t) /\ t.open = gap /\ t.health = "INTERRUPTED"
        /\ t.gaps = s.gaps /\ t.beats = s.beats
    BY <1>1, <1>5 DEF Same, Rows
  <1> HIDE DEF from
  <1>7. Heard(t) /\ GapsClosed(t)
    BY <1>6 DEF Recorded, SessionInv, Heard, GapsClosed
  <1>8. GapOpened(t)
    <2>1. from <= now /\ from <= End
      BY <1>2, <1>3, TimesAssumption DEF Times
    <2>2. t.log # <<>> /\ t.log[Len(t.log)] = e
      BY <1>6 DEF Same, Recorded
    <2> QED BY <1>3, <1>4, <1>6, <2>1, <2>2 DEF GapOpened
  <1>9. StatusMeans(t)
    BY <1>4, <1>6 DEF Recorded, SessionInv, StatusMeans, Same, Active, Statuses
  <1>10. SessionInv(t)
    BY <1>7, <1>8, <1>9 DEF SessionInv
  <1> QED BY <1>10 DEF t

LEMMA HealthyTimely ==
  ASSUME NEW e \in Event, NEW s, Recorded(s, e)
  PROVE  SessionInv(OnHealthy(s, e.at))
  <1> DEFINE closed == IF s.open.why = "BROWSER" THEN CloseGap(s, e.at) ELSE s
             silent == [s EXCEPT !.open.why = "HEARTBEAT_MISSED"]
             well == [closed EXCEPT !.health = "ACTIVE"]
  <1>1. DOMAIN s = Rows /\ IsRow(s) /\ SessionInv(s) /\ Active(s)
    BY DEF Recorded, IsRow
  <1>2. /\ Heard(s) /\ GapsClosed(s) /\ GapOpened(s) /\ StatusMeans(s)
        /\ s.started \in Start..End /\ s.started <= now
    BY <1>1 DEF SessionInv, StatusMeans
  <1>3. OnHealthy(s, e.at) =
            IF QuietAt(s, e.at)
            THEN IF s.open = NoGap THEN s ELSE silent
            ELSE IF closed.open = NoGap THEN well ELSE closed
    BY DEF OnHealthy
  <1>4. ASSUME s.open # NoGap PROVE SessionInv(silent)
    <2>1. s.open \in OpenGaps
      BY <1>2, <1>4 DEF GapOpened
    <2> DEFINE gap == [s.open EXCEPT !.why = "HEARTBEAT_MISSED"]
    <2>2. gap \in OpenGaps /\ gap.from = s.open.from /\ gap.why = "HEARTBEAT_MISSED"
      BY <2>1 DEF OpenGaps
    <2>3. gap # NoGap
      BY <2>2, NoGapIsNone
    <2>4. silent = [s EXCEPT !.open = gap]
      BY <1>1 DEF Rows
    <2> HIDE DEF gap, silent
    <2>5. /\ Same(s, silent) /\ silent.open = gap /\ silent.health = s.health
          /\ silent.gaps = s.gaps /\ silent.beats = s.beats
      BY <1>1, <2>4 DEF Same, Rows
    <2>6. Heard(silent) /\ GapsClosed(silent)
      BY <1>2, <2>5 DEF Heard, GapsClosed
    <2>7. GapOpened(silent)
      BY <1>2, <1>4, <2>2, <2>5 DEF GapOpened
    <2>8. StatusMeans(silent)
      BY <1>1, <1>2, <1>4, <2>3, <2>5 DEF StatusMeans, Same, Active, Statuses
    <2> QED BY <2>6, <2>7, <2>8 DEF SessionInv
  <1>5. CASE QuietAt(s, e.at)
    BY <1>1, <1>3, <1>4, <1>5
  <1>6. CASE ~QuietAt(s, e.at) /\ s.open.why = "BROWSER"
    <2>1. s.open \in OpenGaps /\ s.open.from <= e.at
      BY <1>2, <1>6, NoGapIsNone DEF Recorded, GapOpened
    <2>2. e.at \in Times
      BY DEF Event
    <2>3. closed.open = NoGap
      BY <1>1, <1>6, CloseGapFields
    <2>4. well = [CloseGap(s, e.at) EXCEPT !.health = "ACTIVE"]
      BY <1>6
    <2>5. SessionInv(well)
      BY <1>1, <1>2, <2>1, <2>2, <2>4, CloseTimely
    <2> QED BY <1>3, <1>6, <2>3, <2>5
  <1>7. CASE ~QuietAt(s, e.at) /\ s.open.why # "BROWSER"
    <2>1. closed = s
      BY <1>7
    <2>2. CASE s.open # NoGap
      BY <1>1, <1>3, <1>7, <2>1, <2>2
    <2>3. CASE s.open = NoGap
      <3> DEFINE t == [s EXCEPT !.health = "ACTIVE"]
      <3>1. OnHealthy(s, e.at) = t
        BY <1>3, <1>7, <2>1, <2>3
      <3>2. /\ Same(s, t) /\ t.open = s.open /\ t.health = "ACTIVE"
            /\ t.gaps = s.gaps /\ t.beats = s.beats
        BY <1>1 DEF Same, Rows
      <3> HIDE DEF t
      <3>3. Heard(t) /\ GapsClosed(t) /\ GapOpened(t)
        BY <1>2, <3>2 DEF Heard, GapsClosed, GapOpened, Same
      <3>4. StatusMeans(t)
        BY <1>1, <1>2, <2>3, <3>2 DEF StatusMeans, Same, Active, Statuses
      <3> QED BY <3>1, <3>3, <3>4 DEF SessionInv
    <2> QED BY <2>2, <2>3
  <1> QED BY <1>5, <1>6, <1>7

\* The latest heartbeat, or the start, is in the past.
LEMMA SeenInThePast ==
  ASSUME NEW s, SessionInv(s), Active(s), now \in Times
  PROVE  LastSeen(s) \in Int /\ 0 <= LastSeen(s) /\ LastSeen(s) <= now
  <1>1. CASE s.beats = {}
    BY <1>1, TimesAssumption DEF LastSeen, SessionInv, StatusMeans
  <1>2. CASE s.beats # {}
    <2>1. \E b \in s.beats : \A c \in s.beats : c <= b
      BY <1>2 DEF SessionInv, Heard
    <2>2. LastSeen(s) = CHOOSE b \in s.beats : \A c \in s.beats : c <= b
      BY <1>2 DEF LastSeen
    <2>3. LastSeen(s) \in s.beats
      BY <2>1, <2>2
    <2>4. LastSeen(s) \in 0..now
      BY <2>3 DEF SessionInv, Heard
    <2> QED BY <2>4 DEF Times
  <1> QED BY <1>1, <1>2

LEMMA WatchTimely ==
  ASSUME NEW s, IsRow(s), SessionInv(s), Active(s), now \in Times
  PROVE  /\ SessionInv(Watch(s)) /\ IsRow(Watch(s)) /\ Active(Watch(s))
         /\ Watch(s).open # NoGap => Watch(s).open.from <= End
  <1> DEFINE gap == [from |-> LastSeen(s) + Beat, why |-> "HEARTBEAT_MISSED"]
             t == [s EXCEPT !.open = gap, !.health = "INTERRUPTED"]
  <1>1. DOMAIN s = Rows
    BY DEF IsRow
  <1>2. CASE /\ now >= LastSeen(s) + Silence /\ s.open = NoGap
             /\ LastSeen(s) + Beat < End
    <2>1. Watch(s) = t
      BY <1>2 DEF Watch
    <2>2. /\ LastSeen(s) + Beat \in Times /\ LastSeen(s) + Beat <= now
          /\ LastSeen(s) + Beat <= End
      BY <1>2, SeenInThePast, TimesAssumption DEF Beat, Silence, Times
    <2>3. gap \in OpenGaps /\ gap.from = LastSeen(s) + Beat /\ gap.why = "HEARTBEAT_MISSED"
      BY <2>2 DEF OpenGaps
    <2> HIDE DEF gap
    <2>4. /\ Same(s, t) /\ t.open = gap /\ t.health = "INTERRUPTED" /\ IsRow(t)
          /\ t.gaps = s.gaps /\ t.beats = s.beats
      BY <1>1 DEF Same, Rows, IsRow
    <2> HIDE DEF t
    <2>5. Heard(t) /\ GapsClosed(t)
      BY <2>4 DEF SessionInv, Heard, GapsClosed
    <2>6. GapOpened(t)
      BY <2>2, <2>3, <2>4 DEF GapOpened
    <2>7. StatusMeans(t) /\ Active(t)
      BY <2>3, <2>4, NoGapIsNone DEF SessionInv, StatusMeans, Same, Active, Statuses
    <2> QED BY <2>1, <2>2, <2>3, <2>4, <2>5, <2>6, <2>7 DEF SessionInv
  <1>3. CASE ~(/\ now >= LastSeen(s) + Silence /\ s.open = NoGap
               /\ LastSeen(s) + Beat < End)
    <2>1. Watch(s) = s
      BY <1>3 DEF Watch
    <2> QED BY <2>1 DEF SessionInv, GapOpened
  <1> QED BY <1>2, <1>3

\* A recorded event keeps what the rows say, as its refusals see to it.
LEMMA RecordTimely ==
  ASSUME NEW s, IsRow(s), SessionInv(s), s.log \in Seq(Event), now \in Times,
         NEW e \in Event, e.at <= now, s.log # <<>> => s.log[Len(s.log)].at <= e.at,
         ~Refused(s, e), ~Aborts(s, e)
  PROVE  SessionInv(Record(s, e))
  <1> DEFINE kept == [s EXCEPT !.log = Append(@, e)]
  <1>1. DOMAIN s = Rows
    BY DEF IsRow
  <1>2. /\ kept.log = Append(s.log, e) /\ kept.status = s.status /\ kept.started = s.started
        /\ kept.ended = s.ended /\ kept.open = s.open /\ kept.gaps = s.gaps
        /\ kept.beats = s.beats /\ kept.health = s.health /\ IsRow(kept) /\ DOMAIN kept = Rows
    BY <1>1 DEF Rows, IsRow
  <1>3. kept.log # <<>> /\ kept.log[Len(kept.log)] = e
    BY <1>2
  <1>4. /\ e.type \in EventTypes /\ e.at \in Times /\ Start <= e.at
        /\ e.type # "MONITORING_STOPPED" => e.at <= End
    <2>1. e.type \in EventTypes /\ e.at \in Times
      BY DEF Event
    <2> QED BY <2>1, TimesAssumption DEF Refused, OutsideWindow, Times
  <1>5. Heard(kept) /\ GapsClosed(kept) /\ StatusMeans(kept)
    BY <1>2 DEF SessionInv, Heard, GapsClosed, StatusMeans, Active
  <1>6. s.open.why = "BROWSER" => s.open.from <= e.at
    <2> SUFFICES ASSUME s.open.why = "BROWSER" PROVE s.open.from <= e.at
      OBVIOUS
    <2>1. s.open.from \in Times /\ s.log # <<>> /\ s.open.from <= s.log[Len(s.log)].at
      BY NoGapIsNone DEF SessionInv, GapOpened
    <2>2. s.log[Len(s.log)] \in Event /\ s.log[Len(s.log)].at <= e.at
      BY <2>1
    <2>3. s.log[Len(s.log)].at \in Times
      BY <2>2 DEF Event
    <2> QED BY <1>4, <2>1, <2>2, <2>3 DEF Times
  <1>7. GapOpened(kept)
    BY <1>2, <1>3, <1>6 DEF SessionInv, GapOpened
  <1>8. SessionInv(kept)
    BY <1>5, <1>7 DEF SessionInv
  <1>9. e.type # "MONITORING_STARTED" => Active(s) /\ Recorded(kept, e)
    <2>1. e.type # "MONITORING_STARTED" => Active(s)
      BY DEF Refused
    <2> QED BY <1>2, <1>3, <1>6, <1>8, <2>1 DEF Recorded, Active
  <1>10. CASE e.type = "MONITORING_STARTED"
    <2>1. Record(s, e) = [kept EXCEPT !.status = "MONITORING_ACTIVE", !.started = now,
                                      !.health = "ACTIVE"]
      BY <1>10 DEF Record
    <2>2. s.status = "CONSENTED" /\ now <= End /\ s.open = NoGap
      <3>1. s.log = <<>> /\ s.status = "CONSENTED"
        BY <1>10 DEF Refused
      <3>2. ~(now > End)
        BY <3>1 DEF Refused, Active
      <3> QED BY <3>1, <3>2, TimesAssumption DEF SessionInv, StatusMeans, Times
    <2>3. now \in Start..End
      BY <1>4, <2>2, TimesAssumption DEF Times
    <2> HIDE DEF kept
    <2>4. ASSUME NEW t, t = [kept EXCEPT !.status = "MONITORING_ACTIVE", !.started = now,
                                         !.health = "ACTIVE"]
          PROVE  SessionInv(t)
      <3>1. /\ t.status = "MONITORING_ACTIVE" /\ t.started = now /\ t.health = "ACTIVE"
            /\ t.open = kept.open /\ t.gaps = kept.gaps /\ t.beats = kept.beats
            /\ t.log = kept.log
        BY <1>2, <2>4 DEF Rows
      <3>2. Heard(t) /\ GapsClosed(t) /\ GapOpened(t)
        BY <1>5, <1>7, <3>1 DEF Heard, GapsClosed, GapOpened
      <3>3. StatusMeans(t)
        BY <1>2, <2>2, <2>3, <3>1 DEF StatusMeans, Active, Statuses, Times
      <3> QED BY <3>2, <3>3 DEF SessionInv
    <2> QED BY <2>1, <2>4
  <1>11. CASE e.type = "MONITORING_STOPPED"
    <2>1. Record(s, e) = Finish(kept, e.at, "AGENT")
      BY <1>11 DEF Record
    <2>2. EndingAt(kept, e.at) = EndingAt(s, e.at)
      BY <1>2 DEF EndingAt
    <2>3. s.started \in Start..End
      BY <1>9, <1>11 DEF SessionInv, StatusMeans
    <2>4. EndingAt(s, e.at) \in Times
      <3>1. e.at \in Int
        BY <1>4 DEF Times
      <3> QED BY <2>3, <3>1, EndingBounds
    <2>5. kept.open # NoGap => kept.open.from <= EndingAt(kept, e.at)
      <3> SUFFICES ASSUME kept.open # NoGap PROVE kept.open.from <= EndingAt(kept, e.at)
        OBVIOUS
      <3>1. s.open.from \in Times
        BY <1>2, NoGapIsNone DEF SessionInv, GapOpened
      <3>2. ~(EndingAt(s, e.at) < s.open.from)
        BY <1>2, <1>11 DEF Aborts, FinishAborts
      <3> QED BY <1>2, <2>2, <2>4, <3>1, <3>2 DEF Times
    <2>6. Active(kept) /\ e.at \in Int
      BY <1>4, <1>9, <1>11 DEF Recorded, Times
    <2> HIDE DEF kept
    <2> QED BY <1>2, <1>8, <2>1, <2>5, <2>6, FinishTimely
  <1>12. CASE e.type = "HEARTBEAT"
    <2>1. Record(s, e) = OnHeartbeat(kept)
      BY <1>12 DEF Record
    <2>2. Active(kept) /\ IsRow(kept)
      BY <1>9, <1>12 DEF Recorded
    <2> HIDE DEF kept
    <2> QED BY <1>8, <2>1, <2>2, HeartbeatTimely
  <1>13. CASE e.type = "UNHEALTHY"
    <2>1. Record(s, e) = OnUnhealthy(kept, e.at)
      BY <1>13 DEF Record
    <2>2. Recorded(kept, e) /\ e.at <= End
      BY <1>4, <1>9, <1>13
    <2> HIDE DEF kept
    <2> QED BY <2>1, <2>2, UnhealthyTimely
  <1>14. CASE e.type = "HEALTHY"
    <2>1. Record(s, e) = OnHealthy(kept, e.at)
      BY <1>14 DEF Record
    <2>2. Recorded(kept, e)
      BY <1>9, <1>14
    <2> HIDE DEF kept
    <2> QED BY <2>1, <2>2, HealthyTimely
  <1>15. CASE e.type = "EVIDENCE"
    <2>1. Record(s, e) = kept
      BY <1>15 DEF Record
    <2> QED BY <1>8, <2>1
  <1> QED BY <1>4, <1>10, <1>11, <1>12, <1>13, <1>14, <1>15 DEF EventTypes

-----------------------------------------------------------------------------
(* The steps *)

LEMMA MadeEvents == ChainInv => Made \subseteq Event
  BY DEF ChainInv, Typed, Agent, Made, Range

\* An agent at work numbers its next event after all that it has made.
LEMMA NumbersBelow ==
  ASSUME ChainInv, agent.mode # "gone", NEW x \in Made
  PROVE  x.n < agent.next
  <1>1. /\ Len(agent.queue) \in Nat /\ Len(session.log) \in Nat /\ agent.next \in Nat
        /\ First \in Int /\ First = agent.next - Len(agent.queue)
    BY DEF ChainInv, Typed, Agent, First
  <1>2. CASE x \in Range(agent.queue)
    <2>1. PICK k \in 1..Len(agent.queue) : x = agent.queue[k]
      BY <1>2 DEF Range, ChainInv, Typed, Agent
    <2>2. x.n = First + k - 1
      BY <2>1 DEF ChainInv, Chain, QueueNumbered
    <2> QED BY <1>1, <2>1, <2>2
  <1>3. CASE x \in Range(session.log)
    <2>1. PICK k \in 1..Len(session.log) : x = session.log[k]
      BY <1>3 DEF Range, ChainInv, Typed
    <2>2. x.n = k - 1
      BY <2>1 DEF ChainInv, Chain, LogNumbered
    <2>3. Len(session.log) <= First + 1 /\ (Len(session.log) = First + 1 => Len(agent.queue) > 0)
      <3>1. CASE Overlap
        BY <1>1, <3>1 DEF Overlap, ChainInv, Typed, Agent
      <3>2. CASE ~Overlap
        BY <1>1, <3>2 DEF ChainInv, Chain, Joined
      <3> QED BY <3>1, <3>2
    <2> QED BY <1>1, <2>1, <2>2, <2>3
  <1> QED BY <1>2, <1>3 DEF Made

\* Nothing new is made, while time may pass.
LEMMA OrderRests ==
  ASSUME ChainInv, InOrder, Made' \subseteq Made, now' \in Times, now <= now',
         agent'.mode \in {"starting", "monitoring", "stopping"} => Start <= now'
  PROVE  InOrder'
  <1>1. \A x \in Made' : Start <= x.at /\ x.at <= now'
    <2> TAKE x \in Made'
    <2>1. x \in Made /\ x \in Event /\ now \in Times
      BY MadeEvents DEF ChainInv, Typed
    <2>2. x.at \in Times
      BY <2>1 DEF Event
    <2> QED BY <2>1, <2>2, TimesAssumption DEF InOrder, Times
  <1> QED BY <1>1 DEF InOrder

LEMMA StartsRest ==
  ASSUME StartsOnce, Made' \subseteq Made, agent'.platform = agent.platform,
         agent'.next = agent.next, agent.started => agent'.started,
         ~agent.started /\ agent'.mode \in {"starting", "monitoring", "stopping"}
             => agent.mode \in {"starting", "monitoring", "stopping"}
  PROVE  StartsOnce'
  BY DEF StartsOnce, Windows

LEMMA RangeOfAppend ==
  ASSUME NEW S, NEW seq \in Seq(S), NEW e \in S
  PROVE  Range(Append(seq, e)) = Range(seq) \cup {e}
  <1> DEFINE n == Len(seq)
             all == Append(seq, e)
  <1>1. n \in Nat /\ DOMAIN seq = 1..n /\ DOMAIN all = 1..(n + 1)
    OBVIOUS
  <1>2. all[n + 1] = e /\ \A k \in 1..n : all[k] = seq[k]
    OBVIOUS
  <1> HIDE DEF n, all
  <1>3. \A k \in 1..(n + 1) : k \in 1..n \/ k = n + 1
    BY <1>1
  <1>4. \A k \in 1..n : k \in 1..(n + 1)
    BY <1>1
  <1>5. n + 1 \in 1..(n + 1)
    BY <1>1
  <1>6. Range(all) \subseteq Range(seq) \cup {e}
    BY <1>1, <1>2, <1>3 DEF Range
  <1>7. Range(seq) \cup {e} \subseteq Range(all)
    BY <1>1, <1>2, <1>4, <1>5 DEF Range
  <1> QED BY <1>6, <1>7 DEF all

\* The queue may have lost its head, and the log gained it.
LEMMA MadeRests ==
  ASSUME ChainInv, agent'.queue = agent.queue \/ (agent.queue # <<>> /\ agent'.queue = Tail(agent.queue)),
         \/ session'.log = session.log
         \/ agent.queue # <<>> /\ session'.log = Append(session.log, Head(agent.queue))
  PROVE  Made' \subseteq Made
  <1>1. agent.queue \in Seq(Event) /\ session.log \in Seq(Event)
    BY DEF ChainInv, Typed, Agent
  <1>2. agent.queue # <<>> => /\ Range(Tail(agent.queue)) \subseteq Range(agent.queue)
                              /\ Head(agent.queue) \in Range(agent.queue)
    BY <1>1 DEF Range
  <1>3. agent.queue # <<>> =>
            Range(Append(session.log, Head(agent.queue))) = Range(session.log) \cup {Head(agent.queue)}
    <2> SUFFICES ASSUME agent.queue # <<>>
                 PROVE  Range(Append(session.log, Head(agent.queue)))
                            = Range(session.log) \cup {Head(agent.queue)}
      OBVIOUS
    <2>1. Head(agent.queue) \in Event
      BY <1>1
    <2> QED BY <1>1, <2>1, RangeOfAppend
  <1> QED BY <1>2, <1>3 DEF Made

\* The agent makes an event now.
LEMMA OrderGrows ==
  ASSUME ChainInv, InOrder, StartsOnce, agent.mode # "gone",
         NEW type \in EventTypes, NEW mode, NEW started \in BOOLEAN,
         Enqueue(type, mode, started), UNCHANGED <<now, session>>, Start <= now,
         ~Windows => started /\ (type = "MONITORING_STARTED" => ~agent.started)
  PROVE  InOrder' /\ StartsOnce'
  <1> DEFINE e == [n |-> agent.next, type |-> type, at |-> now]
  <1>1. agent.queue \in Seq(Event) /\ agent.next \in Nat /\ now \in Times /\ agent \in Agent
    BY DEF ChainInv, Typed, Agent
  <1>2. e \in Event /\ e.n = agent.next /\ e.at = now /\ e.type = type
    BY <1>1 DEF Event
  <1>3. /\ agent'.queue = Append(agent.queue, e) /\ agent'.next = agent.next + 1
        /\ agent'.started = started /\ agent'.platform = agent.platform
    BY <1>1 DEF Enqueue, Agent
  <1> HIDE DEF e
  <1>4. Made' = Made \cup {e}
    <2>1. Range(Append(agent.queue, e)) = Range(agent.queue) \cup {e}
      BY <1>1, <1>2, RangeOfAppend
    <2> QED BY <1>3, <2>1 DEF Made
  <1>5. \A x \in Made : x.n < e.n /\ x.at <= e.at /\ x.n \in Nat
    BY <1>2, NumbersBelow, MadeEvents DEF InOrder, Event
  <1>6. InOrder'
    <2>1. \A x, y \in Made' : x.n <= y.n => x.at <= y.at
      <3> TAKE x, y \in Made'
      <3>1. CASE x \in Made /\ y \in Made
        BY <3>1 DEF InOrder
      <3>2. CASE y = e
        BY <1>1, <1>2, <1>4, <1>5, <3>2 DEF Times
      <3>3. CASE x = e /\ y \in Made
        BY <1>1, <1>2, <1>5, <3>3
      <3> QED BY <1>4, <3>1, <3>2, <3>3
    <2>2. \A x \in Made' : Start <= x.at /\ x.at <= now'
      BY <1>1, <1>2, <1>4 DEF InOrder, Times
    <2> QED BY <2>1, <2>2 DEF InOrder
  <1>7. StartsOnce'
    <2> SUFFICES ASSUME ~Windows
                 PROVE  /\ agent'.started
                        /\ \A x \in Made' : x.type = "MONITORING_STARTED" => x.n = 0
      BY <1>3 DEF StartsOnce, Windows
    <2>1. e.type = "MONITORING_STARTED" => e.n = 0
      BY <1>2 DEF StartsOnce
    <2> QED BY <1>3, <1>4, <2>1 DEF StartsOnce
  <1> QED BY <1>6, <1>7

\* What holds of a row holds of the session that it becomes.
LEMMA Carried ==
  ASSUME NEW t, SessionInv(t), session' = t, now' = now
  PROVE  SessionInv(session)'
  BY DEF SessionInv, Heard, GapsClosed, GapOpened, StatusMeans, Active

LEMMA SessionRests ==
  ASSUME SessionInv(session), UNCHANGED <<session, now>>
  PROVE  SessionInv(session)'
  BY Carried

\* Time passes.
LEMMA SessionAges ==
  ASSUME SessionInv(session), ChainInv, UNCHANGED session, now' \in Times, now <= now'
  PROVE  SessionInv(session)'
  <1>1. now \in Nat /\ now' \in Nat
    BY TimesAssumption DEF ChainInv, Typed, Times
  <1>2. Heard(session)'
    BY <1>1 DEF SessionInv, Heard
  <1>3. GapOpened(session)'
    <2>1. session.open # NoGap => session.open.from \in Times
      BY NoGapIsNone DEF SessionInv, GapOpened
    <2> QED BY <1>1, <2>1 DEF SessionInv, GapOpened, Times
  <1>4. StatusMeans(session)'
    BY <1>1, TimesAssumption DEF SessionInv, StatusMeans, Active
  <1> QED BY <1>2, <1>3, <1>4 DEF SessionInv, GapsClosed

LEMMA AgentTimely ==
  ASSUME ChainInv, TimelyInv,
         \/ Launch \/ Flushed \/ Begin \/ LeaveWaiting \/ Stop \/ Delivered \/ Exit
         \/ \E type \in Observed : Emit(type)
  PROVE  TimelyInv'
  <1>1. agent \in Agent /\ agent.queue \in Seq(Event) /\ now \in Times /\ agent.started \in BOOLEAN
    BY DEF ChainInv, Typed, Agent
  <1>2. UNCHANGED <<now, session>>
    BY DEF Launch, Flushed, Begin, LeaveWaiting, Stop, Delivered, Exit, Emit
  <1>3. SessionInv(session)'
    BY <1>2, SessionRests DEF TimelyInv
  <1>4. ASSUME agent'.queue = agent.queue, agent'.next = agent.next, agent'.platform = agent.platform,
               agent'.started = agent.started,
               agent'.mode \in {"starting", "monitoring", "stopping"} => Start <= now,
               ~agent.started /\ agent'.mode \in {"starting", "monitoring", "stopping"}
                   => agent.mode \in {"starting", "monitoring", "stopping"}
        PROVE  InOrder' /\ StartsOnce'
    <2>1. Made' \subseteq Made
      BY <1>2, <1>4, MadeRests
    <2> QED BY <1>1, <1>2, <1>4, <2>1, OrderRests, StartsRest DEF TimelyInv, Times
  <1>5. CASE Launch \/ Flushed \/ Exit \/ Delivered \/ (Begin /\ agent.started)
    <2>1. /\ agent'.queue = agent.queue /\ agent'.next = agent.next
          /\ agent'.platform = agent.platform /\ agent'.started = agent.started
          /\ agent'.mode \in {"starting", "monitoring", "stopping"} => Start <= now
          /\ ~agent.started /\ agent'.mode \in {"starting", "monitoring", "stopping"}
                 => agent.mode \in {"starting", "monitoring", "stopping"}
      BY <1>1, <1>5 DEF Launch, Flushed, Exit, Delivered, Begin, Agent, TimelyInv, InOrder
    <2> QED BY <1>3, <1>4, <2>1 DEF TimelyInv
  <1>6. CASE Begin /\ ~agent.started
    <2>1. /\ Enqueue("MONITORING_STARTED", "starting", ~Windows) /\ Start <= now
          /\ agent.mode # "gone"
      BY <1>6, TimesAssumption DEF Begin, ChainInv, Typed, Times
    <2>2. "MONITORING_STARTED" \in EventTypes /\ (~Windows) \in BOOLEAN
      BY DEF EventTypes, Windows
    <2> QED BY <1>2, <1>3, <1>6, <2>1, <2>2, OrderGrows DEF TimelyInv
  <1>7. ASSUME agent.mode = "monitoring", NEW type \in EventTypes \ {"MONITORING_STARTED"},
               NEW mode, Enqueue(type, mode, agent.started)
        PROVE  InOrder' /\ StartsOnce'
    <2>1. ~Windows => agent.started
      BY <1>7 DEF TimelyInv, StartsOnce
    <2> QED BY <1>1, <1>2, <1>7, <2>1, OrderGrows DEF TimelyInv, InOrder
  <1>8. CASE Stop
    <2>1. "MONITORING_STOPPED" \in EventTypes \ {"MONITORING_STARTED"}
      BY DEF EventTypes
    <2> QED BY <1>3, <1>7, <1>8, <2>1 DEF Stop, TimelyInv
  <1>9. CASE \E type \in Observed : Emit(type)
    <2>1. PICK type \in Observed : Emit(type)
      BY <1>9
    <2>2. type \in EventTypes \ {"MONITORING_STARTED"}
      BY AgentAssumption DEF EventTypes
    <2> QED BY <1>3, <1>7, <2>1, <2>2 DEF Emit, TimelyInv
  <1>10. CASE LeaveWaiting
    <2>1. agent'.queue = <<>> /\ agent'.mode = "gone" /\ agent'.next = agent.next
          /\ agent'.platform = agent.platform /\ agent'.started = agent.started
      BY <1>1, <1>10 DEF LeaveWaiting, Agent
    <2>2. Made' \subseteq Made
      BY <1>2, <2>1 DEF Made, Range
    <2> QED BY <1>1, <1>2, <1>3, <2>1, <2>2, OrderRests, StartsRest DEF TimelyInv, Times
  <1> QED BY <1>5, <1>6, <1>8, <1>9, <1>10 DEF Begin

\* The server takes the head of the queue, or has it already.
LEMMA SendTimely ==
  ASSUME ChainInv, Account, TimelyInv, NEW answered \in BOOLEAN, Send(answered)
  PROVE  TimelyInv'
  <1> DEFINE e == Head(agent.queue)
  <1>1. /\ agent \in Agent /\ agent.queue \in Seq(Event) /\ agent.queue # <<>>
        /\ now \in Times /\ session.log \in Seq(Event) /\ IsRow(session) /\ now' = now
    BY DEF ChainInv, Typed, Agent, Account, Send
  <1>2. e \in Event /\ e \in Made /\ Tail(agent.queue) \in Seq(Event)
    BY <1>1 DEF Made, Range
  <1>3. /\ agent'.queue = IF answered THEN Tail(agent.queue) ELSE agent.queue
        /\ agent'.next = agent.next /\ agent'.platform = agent.platform /\ agent'.mode = agent.mode
        /\ agent.started => agent'.started
    BY <1>1 DEF Send, Acknowledge, Agent
  <1> HIDE DEF e
  <1>4. session' = session \/
          (/\ ~Refused(session, e) /\ ~Aborts(session, e)
           /\ session' = Record(session, e) /\ session'.log = Append(session.log, e))
    BY <1>1, <1>2, RecordRows DEF Send, Ingest, e, IsRow
  <1>5. Made' \subseteq Made
    BY <1>1, <1>3, <1>4, MadeRests DEF e
  <1>6. InOrder' /\ StartsOnce'
    BY <1>1, <1>3, <1>5, OrderRests, StartsRest DEF TimelyInv, InOrder, Times
  <1>7. CASE session' = session
    BY <1>1, <1>6, <1>7, SessionRests DEF TimelyInv
  <1>8. CASE /\ ~Refused(session, e) /\ ~Aborts(session, e)
             /\ session' = Record(session, e)
    <2>1. e.at <= now
      BY <1>2 DEF TimelyInv, InOrder
    <2>2. session.log # <<>> => session.log[Len(session.log)].at <= e.at
      <3> SUFFICES ASSUME session.log # <<>>
                   PROVE  session.log[Len(session.log)].at <= e.at
        OBVIOUS
      <3>1. Len(session.log) \in 1..Len(session.log)
        BY <1>1
      <3>2. session.log[Len(session.log)] \in Made
        BY <1>1, <3>1 DEF Made, Range
      <3>3. session.log[Len(session.log)].n = Len(session.log) - 1
        BY <3>1 DEF ChainInv, Chain, LogNumbered
      <3>4. e.n = Len(session.log)
        BY <1>8 DEF Refused
      <3>5. session.log[Len(session.log)].n <= e.n
        BY <3>1, <3>3, <3>4
      <3> QED BY <1>2, <3>2, <3>5 DEF TimelyInv, InOrder
    <2>3. SessionInv(Record(session, e))
      BY <1>1, <1>2, <1>8, <2>1, <2>2, RecordTimely DEF TimelyInv
    <2>4. SessionInv(session)'
      BY <1>1, <1>8, <2>3, Carried
    <2> QED BY <1>6, <2>4 DEF TimelyInv
  <1> QED BY <1>4, <1>7, <1>8

\* Cron, users, report and clock.
LEMMA ServerTimely ==
  ASSUME ChainInv, Account, TimelyInv, ServerNext, UNCHANGED agent
  PROVE  TimelyInv'
  <1>1. /\ agent \in Agent /\ now \in Times /\ session.log \in Seq(Event) /\ IsRow(session)
        /\ DOMAIN session = Rows /\ SessionInv(session)
    BY DEF ChainInv, Typed, Account, TimelyInv
  <1>2. session'.log = session.log /\ now' \in Times /\ now <= now'
    <2>1. CASE Orchestrate
      <3>1. Keeps(session, Watch(session))
        BY <1>1, TriggerRows
      <3>2. Finish(Watch(session), End, "AUTHORIZED_WINDOW_ENDED").log = session.log
        BY <3>1, FinishRows DEF Keeps
      <3> QED BY <1>1, <2>1, <3>1, <3>2 DEF Orchestrate, Keeps, Times
    <2>2. CASE EndByUser
      BY <1>1, <2>2, FinishRows DEF EndByUser, Times
    <2>3. CASE StartFromWorkspace \/ Withdraw \/ Report
      <3>1. session'.log = session.log
        <4>1. CASE StartFromWorkspace
          BY <1>1, <4>1 DEF StartFromWorkspace, Rows
        <4>2. CASE Withdraw
          BY <1>1, <4>2 DEF Withdraw, Rows
        <4>3. CASE Report
          BY <1>1, <4>3 DEF Report, Rows
        <4> QED BY <2>3, <4>1, <4>2, <4>3
      <3>2. now' = now
        BY <2>3 DEF StartFromWorkspace, Withdraw, Report
      <3> QED BY <1>1, <3>1, <3>2 DEF Times
    <2>4. CASE Tick
      BY <1>1, <2>4, TimesAssumption DEF Tick, Times
    <2> QED BY <2>1, <2>2, <2>3, <2>4 DEF ServerNext
  <1>3. Made' \subseteq Made
    BY <1>2, MadeRests
  <1>4. InOrder'
    <2>1. agent'.mode \in {"starting", "monitoring", "stopping"} => Start <= now'
      BY <1>1, <1>2, TimesAssumption DEF TimelyInv, InOrder, Times
    <2> QED BY <1>2, <1>3, <2>1, OrderRests DEF TimelyInv
  <1>5. StartsOnce'
    BY <1>3, StartsRest DEF TimelyInv
  <1>6. SessionInv(session)'
    <2>1. CASE Orchestrate
      <3> DEFINE s == Watch(session)
      <3>1. /\ SessionInv(s) /\ IsRow(s) /\ Active(s)
            /\ s.open # NoGap => s.open.from <= End
        BY <1>1, <2>1, WatchTimely DEF Orchestrate
      <3>2. EndingAt(s, End) = End
        <4>1. s.started \in Start..End /\ End \in Int
          BY <3>1, TimesAssumption DEF SessionInv, StatusMeans
        <4> HIDE DEF s
        <4> QED BY <4>1, EndingBounds
      <3>3. SessionInv(Finish(s, End, "AUTHORIZED_WINDOW_ENDED"))
        <4>1. End \in Int
          BY TimesAssumption
        <4> HIDE DEF s
        <4> QED BY <3>1, <3>2, <4>1, FinishTimely
      <3> QED BY <2>1, <3>1, <3>3, Carried DEF Orchestrate
    <2>2. CASE EndByUser
      <3>1. session.started \in Start..End /\ now \in Int /\ Active(session)
        BY <1>1, <2>2 DEF SessionInv, StatusMeans, EndByUser, Times
      <3>2. session.open # NoGap => session.open.from <= EndingAt(session, now)
        <4> SUFFICES ASSUME session.open # NoGap
                     PROVE  session.open.from <= EndingAt(session, now)
          OBVIOUS
        <4>1. session.open.from \in Times /\ session.open.from <= now /\ session.open.from <= End
          BY <1>1, NoGapIsNone DEF SessionInv, GapOpened
        <4>2. EndingAt(session, now) \in Times /\ (now <= End => now <= EndingAt(session, now))
              /\ (End <= now => EndingAt(session, now) = End)
          BY <3>1, EndingBounds
        <4> QED BY <1>1, <4>1, <4>2, TimesAssumption DEF Times
      <3>3. SessionInv(Finish(session, now, "USER"))
        BY <1>1, <3>1, <3>2, FinishTimely
      <3> QED BY <2>2, <3>3, Carried DEF EndByUser
    <2>3. CASE StartFromWorkspace
      <3>1. ASSUME NEW t, t = [session EXCEPT !.status = "MONITORING_ACTIVE", !.started = now]
            PROVE  SessionInv(t)
        <4>1. /\ t.status = "MONITORING_ACTIVE" /\ t.started = now /\ t.log = session.log
              /\ t.open = session.open /\ t.gaps = session.gaps /\ t.beats = session.beats
              /\ t.health = session.health
          BY <1>1, <3>1 DEF Rows
        <4>2. Heard(t) /\ GapsClosed(t) /\ GapOpened(t)
          BY <1>1, <4>1 DEF SessionInv, Heard, GapsClosed, GapOpened
        <4>3. StatusMeans(t)
          BY <1>1, <2>3, <4>1 DEF SessionInv, StatusMeans, StartFromWorkspace, Active, Statuses, Times
        <4> QED BY <4>2, <4>3 DEF SessionInv
      <3> QED BY <2>3, <3>1, Carried DEF StartFromWorkspace
    <2>4. CASE Withdraw
      <3>1. ASSUME NEW t, t = [session EXCEPT !.status = "CANCELLED", !.ended = now]
            PROVE  SessionInv(t)
        <4>1. /\ t.status = "CANCELLED" /\ t.log = session.log
              /\ t.open = session.open /\ t.gaps = session.gaps /\ t.beats = session.beats
          BY <1>1, <3>1 DEF Rows
        <4>2. Heard(t) /\ GapsClosed(t) /\ GapOpened(t)
          BY <1>1, <4>1 DEF SessionInv, Heard, GapsClosed, GapOpened
        <4>3. StatusMeans(t)
          BY <4>1 DEF StatusMeans, Active, Statuses
        <4> QED BY <4>2, <4>3 DEF SessionInv
      <3> QED BY <2>4, <3>1, Carried DEF Withdraw
    <2>5. CASE Report
      <3>1. session' = session
        <4>1. session' = [session EXCEPT !.coverage = session.coverage]
          BY <2>5 DEF Report, Account, Accounted
        <4> QED BY <1>1, <4>1 DEF IsRow, Rows
      <3> QED BY <1>1, <2>5, <3>1, SessionRests DEF Report
    <2>6. CASE Tick
      BY <1>1, <1>2, <2>6, SessionAges DEF Tick
    <2> QED BY <2>1, <2>2, <2>3, <2>4, <2>5, <2>6 DEF ServerNext
  <1> QED BY <1>4, <1>5, <1>6 DEF TimelyInv

LEMMA NextTimely ==
  ChainInv /\ Account /\ TimelyInv /\ [Next]_vars => TimelyInv'
  <1> SUFFICES ASSUME ChainInv, Account, TimelyInv, [Next]_vars PROVE TimelyInv'
    OBVIOUS
  <1>1. CASE \E answered \in BOOLEAN : Send(answered)
    BY <1>1, SendTimely
  <1>2. CASE ServerNext /\ UNCHANGED agent
    BY <1>2, ServerTimely
  <1>3. CASE UNCHANGED vars
    <2>1. UNCHANGED <<now, session, agent>>
      BY <1>3 DEF vars
    <2>2. InOrder' /\ StartsOnce'
      BY <2>1 DEF TimelyInv, InOrder, StartsOnce, Made, Windows
    <2> QED BY <2>1, <2>2, SessionRests DEF TimelyInv
  <1>4. CASE \/ Launch \/ Flushed \/ Begin \/ LeaveWaiting \/ Stop \/ Delivered \/ Exit
             \/ \E type \in Observed : Emit(type)
    BY <1>4, AgentTimely
  <1> QED BY <1>1, <1>2, <1>3, <1>4 DEF Next, AgentNext

LEMMA InitTimely == Init => TimelyInv
  <1> SUFFICES ASSUME Init PROVE TimelyInv
    OBVIOUS
  <1>1. /\ now = 0 /\ session = Consented
        /\ agent.queue = <<>> /\ agent.next = 0 /\ agent.mode = "idle"
    BY DEF Init, ServerInit
  <1>2. Made = {}
    BY <1>1 DEF Made, Range, Consented
  <1>3. InOrder /\ StartsOnce
    BY <1>1, <1>2 DEF InOrder, StartsOnce
  <1>4. /\ session.status = "CONSENTED" /\ session.health = "PENDING" /\ session.open = NoGap
        /\ session.gaps = <<>> /\ session.beats = {}
    BY <1>1 DEF Consented
  <1>5. Heard(session) /\ GapsClosed(session) /\ GapOpened(session)
    BY <1>4, NoGapIsNone DEF Heard, GapsClosed, GapOpened
  <1>6. StatusMeans(session)
    BY <1>4 DEF StatusMeans, Active, Statuses
  <1> QED BY <1>3, <1>5, <1>6 DEF TimelyInv, SessionInv

\* The inductive invariant: along the chain the agent's clock runs forward, and
\* every open or closed interruption, the start and the end lie where they may.
THEOREM TimelyInvariance == Spec => [](ChainInv /\ Account /\ TimelyInv)
  <1>1. ChainInv /\ Account /\ TimelyInv /\ [Next]_vars => TimelyInv'
    BY NextTimely
  <1> QED BY AlwaysChain, AlwaysAccount, InitTimely, <1>1, PTL DEF Spec

\* The health that the recruiter sees is red exactly while an interruption is
\* open, whichever of heartbeats, browser evidence and cron opened, took it over
\* or closed it, and none is left open at the end.
THEOREM HealthIsTrue == Spec => []HealthMatchesGaps
  <1>1. TimelyInv => HealthMatchesGaps
    BY DEF TimelyInv, SessionInv, StatusMeans, HealthMatchesGaps
  <1> QED BY TimelyInvariance, <1>1, PTL

\* A completed session was monitored inside the window the candidate consented
\* to, its interruptions end after they begin, and its coverage follows from them.
THEOREM FinalAccountIsRight == Spec => []FinalAccount
  <1>1. Account /\ TimelyInv => FinalAccount
    BY DEF Account, Accounted, TimelyInv, SessionInv, StatusMeans, GapsClosed, FinalAccount
  <1> QED BY TimelyInvariance, <1>1, PTL

\* No order of crashes, restarts, lost answers and cron runs leaves an agent with
\* an event that the server refuses as long as monitoring lasts, but for the
\* second start of a Windows agent that was restarted before its first was
\* answered.
THEOREM AgentsAreHeard == Spec => []NeverBlocked
  <1>1. ChainInv /\ TimelyInv => NeverBlocked
    <2> SUFFICES ASSUME ChainInv, TimelyInv, Active(session), session.log # <<>>, now <= End,
                        agent.queue # <<>>, ~Replayed(session, Head(agent.queue)),
                        ~(Windows /\ Head(agent.queue).type = "MONITORING_STARTED")
                 PROVE  ~Refused(session, Head(agent.queue))
      BY DEF NeverBlocked
    <2> DEFINE e == Head(agent.queue)
    <2>1. agent.mode # "gone" /\ ChainTypes /\ Chain
      BY ChainInvTypes DEF ChainInv, Chain
    <2>2. agent.queue \in Seq(Event) /\ now \in Times /\ session.log \in Seq(Event)
      BY DEF ChainInv, Typed, Agent
    <2>3. e \in Event /\ e \in Made
      BY <2>2 DEF Made, Range
    <2>4. e.n = Len(session.log)
      <3>1. e = agent.queue[1] /\ agent.queue[1].n = First /\ ~Overlap
        BY <2>1, HeadReplayed DEF Replayed
      <3> QED BY <2>1, <3>1 DEF Chain, Joined
    <2> HIDE DEF e
    <2>5. Start <= e.at /\ e.at <= now /\ e.at \in Times
      BY <2>3 DEF TimelyInv, InOrder, Event
    <2>6. ~OutsideWindow(e)
      BY <2>2, <2>5, TimesAssumption DEF OutsideWindow, Times
    <2>7. e.type # "MONITORING_STARTED"
      <3> SUFFICES ASSUME e.type = "MONITORING_STARTED", ~Windows PROVE FALSE
        BY DEF e
      <3>1. e.n = 0
        BY <2>3 DEF TimelyInv, StartsOnce
      <3>2. Len(session.log) # 0
        BY <2>2
      <3> QED BY <2>4, <3>1, <3>2
    <2>8. ~(now > End) /\ ~(now > End + Grace)
      BY <2>2, TimesAssumption DEF Times
    <2>9. ~Refused(session, e)
      BY <2>4, <2>6, <2>7, <2>8 DEF Refused, Active
    <2> QED BY <2>9 DEF e
  <1> QED BY TimelyInvariance, <1>1, PTL

-----------------------------------------------------------------------------
(* The coverage is a percentage *)

Counts(g, started, ending) == g.from < ending /\ g.to > started
Clipped(g, started, ending) ==
    IF Counts(g, started, ending) THEN LEAST(g.to, ending) - GREATEST(g.from, started) ELSE 0

\* The sum over some of the interruptions, as it is added up from the sums of fewer.
Some(s) == CHOOSE x \in s : TRUE
AddsUp(f, gaps, started, ending) ==
    [s \in SUBSET DOMAIN gaps |->
        IF s = {} THEN 0
        ELSE IF Counts(gaps[Some(s)], started, ending)
        THEN f[s \ {Some(s)}] + LEAST(gaps[Some(s)].to, ending)
                              - GREATEST(gaps[Some(s)].from, started)
        ELSE f[s \ {Some(s)}]]

\* The fold of Interrupted is a recursive function on sets of places in the sequence.
LEMMA InterruptedAddsUp ==
  ASSUME NEW gaps, NEW started, NEW ending
  PROVE  Interrupted(gaps, started, ending) =
             (CHOOSE f : f = AddsUp(f, gaps, started, ending))[DOMAIN gaps]
  BY DEF Interrupted, FoldSeq, FoldFunction, FoldFunctionOnSet, MapThenFoldSet, AddsUp, Counts, Some

LEMMA LeastNumber ==
  ASSUME NEW S, S \subseteq Nat, S # {}
  PROVE  \E m \in S : \A y \in S : m <= y
  <1>1. PICK m \in S : \A y \in S : ~ (<<y, m>> \in OpToRel(<, Nat))
    BY WFMin, NatLessThanWellFounded
  <1>2. \A y \in S : m <= y
    <2> TAKE y \in S
    <2>1. m \in Nat /\ y \in Nat
      OBVIOUS
    <2>2. y < m => <<y, m>> \in OpToRel(<, Nat)
      BY <2>1, Zenon DEF OpToRel
    <2>3. ~ (y < m)
      BY <1>1, <2>2, Zenon
    <2> QED BY <2>1, <2>3
  <1> QED BY <1>2

\* A set with one element fewer.
LEMMA SomeAndTheRest ==
  ASSUME NEW D, IsFiniteSet(D), NEW s \in SUBSET D, s # {}
  PROVE  /\ Some(s) \in s /\ s \ {Some(s)} \in SUBSET D
         /\ Cardinality(s) \in Nat /\ Cardinality(s \ {Some(s)}) \in Nat
         /\ Cardinality(s) = Cardinality(s \ {Some(s)}) + 1
  <1>1. Some(s) \in s
    BY DEF Some
  <1>2. IsFiniteSet(s) /\ IsFiniteSet(s \ {Some(s)}) /\ Some(s) \notin s \ {Some(s)}
    BY FS_Subset
  <1>3. s = (s \ {Some(s)}) \cup {Some(s)}
    BY <1>1
  <1>4. Cardinality(s) \in Nat /\ Cardinality(s \ {Some(s)}) \in Nat
    BY <1>2, FS_CardinalityType
  <1>5. Cardinality((s \ {Some(s)}) \cup {Some(s)}) = Cardinality(s \ {Some(s)}) + 1
    BY <1>2, FS_AddElement
  <1> QED BY <1>1, <1>3, <1>4, <1>5

\* f sums up the numbers W of the elements of any part of D.
SumOf(f, D, W) ==
    /\ f \in [SUBSET D -> Nat]
    /\ \A s \in SUBSET D : f[s] = IF s = {} THEN 0 ELSE f[s \ {Some(s)}] + W[Some(s)]

\* Sums of the elements of a finite set exist.
LEMMA SumsExist ==
  ASSUME NEW D, IsFiniteSet(D), NEW W \in [D -> Nat]
  PROVE  \E f : SumOf(f, D, W)
  <1> DEFINE Upto(n) == {s \in SUBSET D : Cardinality(s) <= n}
             Sums(f, n) == /\ f \in [Upto(n) -> Nat]
                           /\ \A s \in Upto(n) : f[s] = IF s = {} THEN 0 ELSE f[s \ {Some(s)}] + W[Some(s)]
             Bad == {n \in Nat : ~ \E f : Sums(f, n)}
  <1>1. \A s \in SUBSET D : Cardinality(s) \in Nat /\ (Cardinality(s) = 0 <=> s = {})
    BY FS_Subset, FS_CardinalityType, FS_EmptySet
  <1>2. Bad = {}
    <2> SUFFICES ASSUME Bad # {} PROVE FALSE
      OBVIOUS
    <2>1. PICK m \in Bad : \A n \in Bad : m <= n
      <3> HIDE DEF Bad
      <3>1. Bad \subseteq Nat
        BY DEF Bad
      <3> QED BY <3>1, LeastNumber
    <2>2. CASE m = 0
      <3>1. \A s \in Upto(0) : s = {}
        BY <1>1
      <3>2. Sums([s \in Upto(0) |-> 0], 0)
        BY <3>1
      <3> QED BY <2>2, <3>2
    <2>3. CASE m # 0
      <3>1. m \in Nat /\ m - 1 \in Nat /\ m - 1 \notin Bad
        <4>1. m \in Nat
          BY <2>1
        <4>2. m - 1 \in Nat /\ ~ (m <= m - 1)
          BY <2>3, <4>1
        <4> HIDE DEF Bad
        <4> QED BY <2>1, <4>1, <4>2
      <3>2. PICK f : Sums(f, m - 1)
        BY <3>1
      <3> DEFINE g == [s \in Upto(m) |-> IF s = {} THEN 0 ELSE f[s \ {Some(s)}] + W[Some(s)]]
      <3>3. ASSUME NEW s \in Upto(m), s # {}
            PROVE  /\ s \ {Some(s)} \in Upto(m - 1) /\ s \ {Some(s)} \in Upto(m) /\ Some(s) \in D
        <4>1. Some(s) \in s /\ s \ {Some(s)} \in SUBSET D
              /\ Cardinality(s) \in Nat /\ Cardinality(s \ {Some(s)}) \in Nat
              /\ Cardinality(s) = Cardinality(s \ {Some(s)}) + 1
          BY <3>3, SomeAndTheRest
        <4>2. Cardinality(s) <= m
          OBVIOUS
        <4> QED BY <3>1, <4>1, <4>2
      <3>4. ASSUME NEW s \in Upto(m), s # {}
            PROVE  f[s \ {Some(s)}] \in Nat /\ g[s \ {Some(s)}] = f[s \ {Some(s)}]
        <4> DEFINE t == s \ {Some(s)}
        <4>1. t \in Upto(m - 1) /\ t \in Upto(m)
          BY <3>3, <3>4
        <4>2. f[t] \in Nat /\ f[t] = IF t = {} THEN 0 ELSE f[t \ {Some(t)}] + W[Some(t)]
          BY <3>2, <4>1
        <4>3. g[t] = IF t = {} THEN 0 ELSE f[t \ {Some(t)}] + W[Some(t)]
          BY <4>1
        <4> QED BY <4>2, <4>3
      <3>5. \A s \in Upto(m) : g[s] \in Nat /\ g[s] = IF s = {} THEN 0 ELSE g[s \ {Some(s)}] + W[Some(s)]
        <4> TAKE s \in Upto(m)
        <4>1. CASE s = {}
          BY <4>1
        <4>2. CASE s # {}
          <5>1. g[s] = f[s \ {Some(s)}] + W[Some(s)]
            BY <4>2
          <5>2. W[Some(s)] \in Nat
            BY <3>3, <4>2
          <5>3. f[s \ {Some(s)}] \in Nat /\ g[s \ {Some(s)}] = f[s \ {Some(s)}]
            BY <3>4, <4>2
          <5> HIDE DEF g, Upto
          <5> QED BY <4>2, <5>1, <5>2, <5>3
        <4> QED BY <4>1, <4>2
      <3>6. Sums(g, m)
        <4>1. g = [s \in Upto(m) |-> g[s]]
          OBVIOUS
        <4> HIDE DEF g
        <4> QED BY <3>5, <4>1
      <3> QED BY <2>1, <3>6
    <2> QED BY <2>2, <2>3
  <1>3. Cardinality(D) \in Nat /\ \A s \in SUBSET D : Cardinality(s) <= Cardinality(D)
    BY FS_CardinalityType, FS_Subset
  <1>4. Upto(Cardinality(D)) = SUBSET D
    BY <1>3
  <1>5. PICK f : Sums(f, Cardinality(D))
    BY <1>2, <1>3
  <1> QED BY <1>4, <1>5 DEF SumOf

\* However the interruptions are added up, they take no time away.
LEMMA InterruptedIsNatural ==
  ASSUME NEW gaps \in Seq(Gaps), \A k \in 1 .. Len(gaps) : gaps[k].from <= gaps[k].to,
         NEW started \in Int, NEW ending \in Int, started < ending
  PROVE  Interrupted(gaps, started, ending) \in Nat
  <1> DEFINE D == DOMAIN gaps
             W == [k \in D |-> Clipped(gaps[k], started, ending)]
             F == CHOOSE f : f = AddsUp(f, gaps, started, ending)
  <1>1. IsFiniteSet(D) /\ D = 1 .. Len(gaps)
    BY FS_Interval
  <1>2. \A k \in D : /\ gaps[k].from \in Int /\ gaps[k].to \in Int
                     /\ Clipped(gaps[k], started, ending) \in Nat
    <2> TAKE k \in D
    <2>1. gaps[k] \in Gaps /\ gaps[k].from <= gaps[k].to
      BY <1>1
    <2>2. gaps[k].from \in Int /\ gaps[k].to \in Int
      BY <2>1, TimesAssumption DEF Gaps, Times
    <2> QED BY <2>1, <2>2 DEF Clipped, Counts, LEAST, GREATEST
  <1>3. W \in [D -> Nat]
    BY <1>2
  <1> PICK f : SumOf(f, D, W)
    <2> HIDE DEF D, W
    <2> QED BY <1>1, <1>3, SumsExist
  <1>4. /\ f \in [SUBSET D -> Nat]
        /\ \A s \in SUBSET D : f[s] = IF s = {} THEN 0 ELSE f[s \ {Some(s)}] + W[Some(s)]
    BY DEF SumOf
  \* One more interruption adds what is clipped of it.
  <1>5. ASSUME NEW h, NEW s \in SUBSET D, s # {}, h[s \ {Some(s)}] \in Nat
        PROVE  /\ AddsUp(h, gaps, started, ending)[s] = h[s \ {Some(s)}] + W[Some(s)]
               /\ W[Some(s)] \in Nat
    <2> DEFINE k == Some(s)
    <2>1. k \in D
      BY <1>5 DEF Some
    <2>2. W[k] = Clipped(gaps[k], started, ending) /\ W[k] \in Nat
      BY <1>2, <2>1
    <2>3. AddsUp(h, gaps, started, ending)[s] =
             IF Counts(gaps[k], started, ending)
             THEN h[s \ {k}] + LEAST(gaps[k].to, ending) - GREATEST(gaps[k].from, started)
             ELSE h[s \ {k}]
      BY <1>5 DEF AddsUp
    <2>4. LEAST(gaps[k].to, ending) \in Int /\ GREATEST(gaps[k].from, started) \in Int
      BY <1>2, <2>1 DEF LEAST, GREATEST
    <2> HIDE DEF k, W
    <2>5. AddsUp(h, gaps, started, ending)[s] = h[s \ {k}] + W[k]
      BY <1>5, <2>2, <2>3, <2>4 DEF Clipped, k
    <2> QED BY <2>2, <2>5 DEF k
  <1>6. f = AddsUp(f, gaps, started, ending)
    <2>1. \A s \in SUBSET D : f[s] = AddsUp(f, gaps, started, ending)[s]
      <3> TAKE s \in SUBSET D
      <3>1. CASE s = {}
        BY <1>4, <3>1 DEF AddsUp
      <3>2. CASE s # {}
        <4>1. s \ {Some(s)} \in SUBSET D
          OBVIOUS
        <4> HIDE DEF W, D
        <4>2. f[s \ {Some(s)}] \in Nat
          BY <1>4, <4>1
        <4> QED BY <1>4, <1>5, <3>2, <4>2
      <3> QED BY <3>1, <3>2
    <2>2. AddsUp(f, gaps, started, ending) =
             [s \in SUBSET D |-> AddsUp(f, gaps, started, ending)[s]]
      BY DEF AddsUp
    <2>3. f = [s \in SUBSET D |-> f[s]]
      BY <1>4
    <2> QED BY <2>1, <2>2, <2>3
  <1>7. F = AddsUp(F, gaps, started, ending)
    BY <1>6
  <1> HIDE DEF F, W
  <1>8. F[{}] = 0
    BY <1>7 DEF AddsUp
  <1> DEFINE Bad == {s \in SUBSET D : F[s] \notin Nat}
             Sizes == {Cardinality(s) : s \in Bad}
  <1>9. Bad = {}
    <2> SUFFICES ASSUME Bad # {} PROVE FALSE
      OBVIOUS
    <2> HIDE DEF D
    <2>1. Sizes \subseteq Nat /\ Sizes # {}
      <3>1. \A s \in SUBSET D : Cardinality(s) \in Nat
        BY <1>1, FS_Subset, FS_CardinalityType
      <3>2. Bad \subseteq SUBSET D
        OBVIOUS
      <3> HIDE DEF Bad
      <3> QED BY <3>1, <3>2
    <2>2. PICK n \in Sizes : \A m \in Sizes : n <= m
      <3> HIDE DEF Sizes
      <3> QED BY <2>1, LeastNumber
    <2>3. PICK s \in Bad : Cardinality(s) = n
      BY <2>2
    <2>4. s \in SUBSET D /\ s # {}
      <3>1. s \in SUBSET D /\ F[s] \notin Nat
        BY <2>3
      <3>2. 0 \in Nat
        OBVIOUS
      <3>3. s # {}
        BY <1>8, <3>1, <3>2, Zenon
      <3> QED BY <3>1, <3>3
    <2>5. /\ s \ {Some(s)} \in SUBSET D
          /\ Cardinality(s) \in Nat /\ Cardinality(s \ {Some(s)}) \in Nat
          /\ Cardinality(s) = Cardinality(s \ {Some(s)}) + 1
      <3>1. IsFiniteSet(D)
        BY <1>1
      <3> QED BY <2>4, <3>1, SomeAndTheRest
    <2>6. Cardinality(s \ {Some(s)}) \notin Sizes
      <3>1. ~ (n <= Cardinality(s \ {Some(s)}))
        <4>1. \A i, j \in Nat : i = j + 1 => ~ (i <= j)
          OBVIOUS
        <4> QED BY <2>3, <2>5, <4>1
      <3> HIDE DEF Sizes
      <3> QED BY <2>2, <3>1
    <2>7. F[s \ {Some(s)}] \in Nat
      BY <2>5, <2>6
    <2>8. F[s] = F[s \ {Some(s)}] + W[Some(s)] /\ W[Some(s)] \in Nat
      BY <1>5, <1>7, <2>4, <2>7
    <2> QED BY <2>3, <2>7, <2>8
  <1>10. F[D] \in Nat
    BY <1>9
  <1> QED BY <1>10, InterruptedAddsUp DEF F, D

LEMMA Hundredth ==
  ASSUME NEW n \in Int, NEW d \in Nat \ {0}, n <= 100 * d
  PROVE  n \div d \in Int /\ n \div d <= 100
  OBVIOUS

\* What is told to the customer is a percentage.
LEMMA CoverageIsPercentage ==
  ASSUME NEW gaps \in Seq(Gaps), \A k \in 1 .. Len(gaps) : gaps[k].from <= gaps[k].to,
         NEW started \in Int, NEW ending \in Int
  PROVE  Coverage(gaps, started, ending) \in 0 .. 100
  <1>1. CASE ending <= started
    BY <1>1 DEF Coverage
  <1>2. CASE started < ending
    <2> DEFINE d == ending - started
               n == 100 * (ending - started - Interrupted(gaps, started, ending))
    <2>1. Interrupted(gaps, started, ending) \in Nat
      BY <1>2, InterruptedIsNatural
    <2>2. d \in Nat \ {0} /\ n \in Int /\ n <= 100 * d
      BY <1>2, <2>1
    <2> HIDE DEF n, d
    <2>3. n \div d \in Int /\ n \div d <= 100
      BY <2>2, Hundredth
    <2>4. GREATEST(0, n \div d) \in 0 .. 100
      <3>1. \A t \in Int : t <= 100 => GREATEST(0, t) \in 0 .. 100
        BY DEF GREATEST
      <3> QED BY <2>3, <3>1
    <2> QED BY <1>2, <2>4 DEF Coverage, n, d
  <1>3. ending <= started \/ started < ending
    OBVIOUS
  <1> QED BY <1>1, <1>2, <1>3, Zenon
-----------------------------------------------------------------------------
(* The types of the rows *)

Healths == {"PENDING", "ACTIVE", "INTERRUPTED", "COMPLETED"}
Reasons == {"NONE", "AGENT", "USER", "AUTHORIZED_WINDOW_ENDED"}

\* What SessionInv does not say of the rows.
Filled(s) ==
    /\ s.health \in Healths /\ s.reason \in Reasons
    /\ s.status # "COMPLETED" => /\ s.coverage = NoTime
                                 /\ s.started \in Times \cup {NoTime}
                                 /\ s.ended \in Times \cup {NoTime}

\* The rows that an operation on interruptions does not fill.
Unfilled(s, t) ==
    /\ t.health \in Healths /\ t.status = s.status /\ t.reason = s.reason
    /\ t.coverage = s.coverage /\ t.started = s.started /\ t.ended = s.ended

LEMMA UnfilledStays ==
  ASSUME NEW s, Filled(s), NEW t, Unfilled(s, t)
  PROVE  Filled(t)
  BY DEF Filled, Unfilled

LEMMA TriggersFill ==
  ASSUME NEW s, IsRow(s), Filled(s), NEW at
  PROVE  /\ Filled(OnHeartbeat(s)) /\ Filled(OnUnhealthy(s, at))
         /\ Filled(OnHealthy(s, at)) /\ Filled(Watch(s))
  <1>1. DOMAIN s = Rows /\ s.health \in Healths
    BY DEF IsRow, Filled
  <1>2. Unfilled(s, OnHeartbeat(s))
    BY <1>1 DEF Rows, OnHeartbeat, CloseGap, Unfilled, Healths
  <1>3. Unfilled(s, OnUnhealthy(s, at))
    BY <1>1 DEF Rows, OnUnhealthy, Unfilled, Healths
  <1>4. Unfilled(s, OnHealthy(s, at))
    BY <1>1 DEF Rows, OnHealthy, CloseGap, Unfilled, Healths
  <1>5. Unfilled(s, Watch(s))
    BY <1>1 DEF Rows, Watch, Unfilled, Healths
  <1> QED BY <1>2, <1>3, <1>4, <1>5, UnfilledStays

LEMMA FinishFills ==
  ASSUME NEW s, IsRow(s), NEW requested, NEW why \in Reasons
  PROVE  Filled(Finish(s, requested, why))
  <1> DEFINE ending == EndingAt(s, requested)
             closed == IF s.open = NoGap THEN s ELSE CloseGap(s, ending)
             coverage == Coverage(closed.gaps, s.started, ending)
  <1>1. DOMAIN closed = Rows
    BY CloseGapRows DEF IsRow
  <1>2. Finish(s, requested, why) =
            [closed EXCEPT !.status = "COMPLETED", !.health = "COMPLETED", !.ended = ending,
                 !.coverage = coverage, !.reason = why]
    BY DEF Finish
  <1> HIDE DEF closed, ending, coverage
  <1>3. ASSUME NEW t, t = [closed EXCEPT !.status = "COMPLETED", !.health = "COMPLETED",
                               !.ended = ending, !.coverage = coverage, !.reason = why]
        PROVE  Filled(t)
    <2>1. t.status = "COMPLETED" /\ t.health = "COMPLETED" /\ t.reason = why
      BY <1>1, <1>3 DEF Rows
    <2> QED BY <2>1 DEF Filled, Healths
  <1> QED BY <1>2, <1>3

LEMMA RecordFills ==
  ASSUME NEW s, IsRow(s), Filled(s), s.status # "COMPLETED", now \in Times, NEW e \in Event
  PROVE  Filled(Record(s, e))
  <1> DEFINE kept == [s EXCEPT !.log = Append(@, e)]
  <1>1. DOMAIN s = Rows
    BY DEF IsRow
  <1>2. IsRow(kept) /\ Filled(kept) /\ DOMAIN kept = Rows /\ kept.status # "COMPLETED"
    BY <1>1 DEF IsRow, Rows, Filled
  <1> HIDE DEF kept
  <1>3. e.type \in EventTypes
    BY DEF Event
  <1>4. CASE e.type = "MONITORING_STARTED"
    <2>1. Record(s, e) = [kept EXCEPT !.status = "MONITORING_ACTIVE", !.started = now,
                                      !.health = "ACTIVE"]
      BY <1>4 DEF Record, kept
    <2>2. ASSUME NEW t, t = [kept EXCEPT !.status = "MONITORING_ACTIVE", !.started = now,
                                         !.health = "ACTIVE"]
          PROVE  Filled(t)
      <3>1. /\ t.status = "MONITORING_ACTIVE" /\ t.started = now /\ t.health = "ACTIVE"
            /\ t.reason = kept.reason /\ t.ended = kept.ended /\ t.coverage = kept.coverage
        BY <1>2, <2>2 DEF Rows
      <3> QED BY <1>2, <3>1 DEF Filled, Healths
    <2> QED BY <2>1, <2>2
  <1>5. CASE e.type = "MONITORING_STOPPED"
    <2>1. Record(s, e) = Finish(kept, e.at, "AGENT") /\ "AGENT" \in Reasons
      BY <1>5 DEF Record, kept, Reasons
    <2> QED BY <1>2, <2>1, FinishFills
  <1>6. /\ Filled(OnHeartbeat(kept)) /\ Filled(OnUnhealthy(kept, e.at))
        /\ Filled(OnHealthy(kept, e.at))
    BY <1>2, TriggersFill
  <1>7. CASE e.type = "HEARTBEAT"
    BY <1>6, <1>7 DEF Record, kept
  <1>8. CASE e.type = "UNHEALTHY"
    BY <1>6, <1>8 DEF Record, kept
  <1>9. CASE e.type = "HEALTHY"
    BY <1>6, <1>9 DEF Record, kept
  <1>10. CASE e.type = "EVIDENCE"
    BY <1>2, <1>10 DEF Record, kept
  <1> QED BY <1>3, <1>4, <1>5, <1>7, <1>8, <1>9, <1>10 DEF EventTypes

LEMMA NextFills ==
  ASSUME ChainInv, Account, Filled(session), [Next]_vars
  PROVE  Filled(session)'
  <1>1. IsRow(session) /\ DOMAIN session = Rows /\ now \in Times
    BY DEF Account, IsRow, ChainInv, Typed
  <1>2. CASE session' = session
    BY <1>2 DEF Filled, Times, Healths, Reasons, NoTime
  <1>3. ASSUME NEW t, Filled(t), session' = t
        PROVE  Filled(session)'
    BY <1>3 DEF Filled, Times, Healths, Reasons, NoTime
  <1>4. CASE \E answered \in BOOLEAN : Send(answered)
    <2>1. PICK answered \in BOOLEAN : Send(answered)
      BY <1>4
    <2>2. CASE /\ ~Refused(session, Head(agent.queue))
               /\ session' = Record(session, Head(agent.queue))
      <3>1. agent.queue \in Seq(Event) /\ agent.queue # <<>>
        BY <2>1 DEF Send, ChainInv, Typed, Agent
      <3>2. Head(agent.queue) \in Event
        BY <3>1
      <3>3. session.status # "COMPLETED"
        BY <2>2 DEF Refused
      <3>4. Filled(Record(session, Head(agent.queue)))
        BY <1>1, <3>2, <3>3, RecordFills
      <3> QED BY <1>3, <2>2, <3>4
    <2> QED BY <1>2, <2>1, <2>2 DEF Send, Ingest
  <1>5. CASE Orchestrate
    <2>1. IsRow(Watch(session)) /\ Filled(Watch(session))
      BY <1>1, TriggerIsRow, TriggersFill
    <2>2. Filled(Finish(Watch(session), End, "AUTHORIZED_WINDOW_ENDED"))
      <3>1. "AUTHORIZED_WINDOW_ENDED" \in Reasons
        BY DEF Reasons
      <3> QED BY <2>1, <3>1, FinishFills
    <2> QED BY <1>3, <1>5, <2>1, <2>2 DEF Orchestrate
  <1>6. CASE EndByUser
    <2>1. Filled(Finish(session, now, "USER"))
      <3>1. "USER" \in Reasons
        BY DEF Reasons
      <3> QED BY <1>1, <3>1, FinishFills
    <2> QED BY <1>3, <1>6, <2>1 DEF EndByUser
  <1>7. CASE StartFromWorkspace
    <2>1. ASSUME NEW t, t = [session EXCEPT !.status = "MONITORING_ACTIVE", !.started = now]
          PROVE  Filled(t)
      <3>1. /\ t.status = "MONITORING_ACTIVE" /\ t.started = now /\ t.health = session.health
            /\ t.reason = session.reason /\ t.ended = session.ended /\ t.coverage = session.coverage
        BY <1>1, <2>1 DEF Rows
      <3> QED BY <1>1, <1>7, <3>1 DEF Filled, StartFromWorkspace
    <2> QED BY <1>3, <1>7, <2>1 DEF StartFromWorkspace
  <1>8. CASE Withdraw
    <2>1. ASSUME NEW t, t = [session EXCEPT !.status = "CANCELLED", !.ended = now]
          PROVE  Filled(t)
      <3>1. /\ t.status = "CANCELLED" /\ t.ended = now /\ t.health = session.health
            /\ t.reason = session.reason /\ t.started = session.started
            /\ t.coverage = session.coverage
        BY <1>1, <2>1 DEF Rows
      <3> QED BY <1>1, <1>8, <3>1 DEF Filled, Withdraw
    <2> QED BY <1>3, <1>8, <2>1 DEF Withdraw
  <1>9. CASE Report
    <2>1. session' = [session EXCEPT !.coverage = session.coverage]
      BY <1>9 DEF Report, Account, Accounted
    <2> QED BY <1>1, <1>2, <2>1 DEF IsRow, Rows
  <1> QED BY <1>2, <1>4, <1>5, <1>6, <1>7, <1>8, <1>9
        DEF Next, AgentNext, ServerNext, vars, Launch, Flushed, Begin, LeaveWaiting,
            Emit, Stop, Delivered, Exit, Tick

\* Agent and server keep their types: of every completed session, however its
\* interruptions overlap each other and its ends, the coverage that the customer is
\* told lies between 0 and 100 (035:67).
THEOREM TypesAreKept == Spec => []TypeOK
  <1>1. Init => Filled(session)
    BY DEF Init, ServerInit, Consented, Filled, Healths, Reasons, NoTime
  <1>2. ChainInv /\ Account /\ Filled(session) /\ [Next]_vars => Filled(session)'
    BY NextFills
  <1>3. ChainInv /\ Account /\ TimelyInv /\ Filled(session) => TypeOK
    <2> SUFFICES ASSUME ChainInv, Account, TimelyInv, Filled(session) PROVE TypeOK
      OBVIOUS
    <2>1. /\ now \in Times /\ agent \in Agent /\ session.log \in Seq(Event)
          /\ session = [field \in Rows |-> session[field]]
          /\ Accounted(session) /\ SessionInv(session)
      BY DEF ChainInv, Typed, Account, IsRow, TimelyInv
    <2>2. /\ session.gaps \in Seq(Gaps) /\ session.open \in OpenGaps \cup {NoGap}
          /\ session.status \in Statuses /\ session.beats \subseteq 0..now
          /\ \A k \in 1..Len(session.gaps) : session.gaps[k].from <= session.gaps[k].to
      BY <2>1 DEF SessionInv, GapsClosed, GapOpened, StatusMeans, Heard
    <2>3. /\ session.started \in Times \cup {NoTime} /\ session.ended \in Times \cup {NoTime}
          /\ session.coverage \in (0..100) \cup {NoTime}
      <3>1. CASE session.status = "COMPLETED"
        <4>1. session.started \in Start..End /\ session.ended \in session.started..End
          BY <2>1, <3>1 DEF SessionInv, StatusMeans
        <4>2. session.started \in Times /\ session.ended \in Times
          BY <4>1, TimesAssumption DEF Times
        <4>3. session.started \in Int /\ session.ended \in Int
          BY <4>2, TimesAssumption DEF Times
        <4>4. Coverage(session.gaps, session.started, session.ended) \in 0..100
          BY <2>2, <4>3, CoverageIsPercentage
        <4> QED BY <2>1, <3>1, <4>2, <4>4 DEF Accounted
      <3>2. CASE session.status # "COMPLETED"
        BY <3>2 DEF Filled
      <3> QED BY <3>1, <3>2
    <2>4. session.beats \in SUBSET Times
      <3>1. 0..now \subseteq Times
        BY <2>1, TimesAssumption DEF Times
      <3> QED BY <2>2, <3>1
    <2>5. session = [status |-> session.status, health |-> session.health,
                     started |-> session.started, ended |-> session.ended,
                     reason |-> session.reason, coverage |-> session.coverage,
                     open |-> session.open, gaps |-> session.gaps,
                     beats |-> session.beats, log |-> session.log]
      BY <2>1 DEF Rows
    <2>6. session.health \in Healths /\ session.reason \in Reasons
      BY DEF Filled
    <2>7. session \in Session
      BY <2>1, <2>2, <2>3, <2>4, <2>5, <2>6, Zenon
         DEF Session, Healths, Reasons, Gaps, OpenGaps, Statuses
    <2> QED BY <2>1, <2>7 DEF TypeOK, ServerTypeOK
  <1> QED BY TimelyInvariance, <1>1, <1>2, <1>3, PTL DEF Spec
=============================================================================
