------------------------------ MODULE LiveLogs ------------------------------
(***************************************************************************)
(* The live log of one interview: the transactions that write its events,   *)
(* the feed by which the API polls them for the tabs of one recruiter, and   *)
(* the panels that the recruiter extension shows in those tabs.              *)
(*                                                                         *)
(* An event has no content here but its sequence, the BIGSERIAL id that the  *)
(* database hands out before the event's transaction commits. A panel asks   *)
(* for the events after the highest sequence it knows, so an event that      *)
(* became visible below it would never be shown.                            *)
(***************************************************************************)
EXTENDS Naturals, FiniteSetsExt

CONSTANTS
    Panels,      \* tabs of one recruiter in the meeting
    Writers,     \* transactions that may be open at once
    MaxSequence,   \* bound of the model on the sequences handed out
    PageLimit,   \* rows of one read of the log (500 in the code)
    MaxFaults    \* bound of the model on broken streams, lost tokens and reloads

ASSUME BoundsAssumption ==
    /\ {MaxSequence, MaxFaults} \subseteq Nat
    /\ PageLimit \in Nat \ {0}

VARIABLES
    nextId,       \* the sequence that the database hands out next
    open,         \* the sequences each open transaction has inserted
    log,          \* the committed events
    token,        \* does the server still accept the token that the extension stores?
    phase, shown, \* each panel: what it does, and the events it shows
    feed,         \* the feed of the recruiter and the interview
    channel,      \* events on their way from the feed to each panel
    faults

dbVars == <<nextId, open, log>>
panelVars == <<phase, shown>>
logVars == <<nextId, open, log, token, phase, shown, feed, channel, faults>>

Sequence == 1..MaxSequence

\* The type invariant.
LogTypeOK ==
    /\ nextId \in 1..(MaxSequence + 1)
    /\ open \in [Writers -> SUBSET Sequence] /\ log \subseteq Sequence
    /\ token \in {"accepted", "rejected"}
    /\ phase \in [Panels -> {"discover", "load", "connect", "stream"}]
    /\ shown \in [Panels -> SUBSET Sequence]
    /\ feed \in [poll : {"none", "scheduled", "reading"}, after : 0..MaxSequence,
                cursors : UNION {[tabs -> 0..MaxSequence] : tabs \in SUBSET Panels},
                participants : SUBSET Panels]
    /\ feed.participants \subseteq DOMAIN feed.cursors
    /\ channel \in [Panels -> SUBSET Sequence]
    /\ faults \in 0..MaxFaults

NoCursors == [p \in {} |-> 0]
NoFeed == [poll |-> "none", after |-> 0, cursors |-> NoCursors, participants |-> {}]

LogInit ==
    /\ nextId = 1 /\ open = [w \in Writers |-> {}] /\ log = {}
    /\ token \in {"accepted", "rejected"}
    /\ phase = [p \in Panels |-> "discover"] /\ shown = [p \in Panels |-> {}]
    /\ feed = NoFeed /\ channel = [p \in Panels |-> {}] /\ faults = 0

-----------------------------------------------------------------------------
(***************************************************************************)
(* Writers. Ingestion, the missed-heartbeat sweep and the end of monitoring  *)
(* lock the verification session before they insert an event of its         *)
(* interview; the transitions before monitoring lock the interview itself.   *)
(***************************************************************************)
SessionUnlocked == \A w \in Writers : open[w] = {}

\* A transaction locks the session and inserts one or two events.
WriteEvents(w) ==
    /\ SessionUnlocked
    /\ \E inserted \in 1..2 :
        /\ nextId + inserted <= MaxSequence + 1
        /\ open' = [open EXCEPT ![w] = nextId..(nextId + inserted - 1)]
        /\ nextId' = nextId + inserted
    /\ UNCHANGED <<log, token, panelVars, feed, channel, faults>>

Commit(w) ==
    /\ open[w] # {}
    /\ log' = log \union open[w]
    /\ open' = [open EXCEPT ![w] = {}]
    /\ UNCHANGED <<nextId, token, panelVars, feed, channel, faults>>

\* A rolled back transaction leaves a gap: its sequences are not handed out again.
Abort(w) ==
    /\ open[w] # {}
    /\ open' = [open EXCEPT ![w] = {}]
    /\ UNCHANGED <<nextId, log, token, panelVars, feed, channel, faults>>

\* authenti8_recruiter_logs: the first rows of the log after a cursor.
Page(after) ==
    {s \in log : s > after /\ Cardinality({t \in log : t > after /\ t < s}) < PageLimit}

-----------------------------------------------------------------------------
(***************************************************************************)
(* The extension's token.                                                  *)
(***************************************************************************)
Fault == faults < MaxFaults /\ faults' = faults + 1

\* The token expires before a refresh succeeds, or the answer to a refresh is
\* lost after the server has revoked the old token.
TokenLost ==
    /\ token = "accepted" /\ Fault
    /\ token' = "rejected"
    /\ UNCHANGED <<dbVars, panelVars, feed, channel>>

\* The web application hands the extension a new token.
Provision ==
    /\ token = "rejected"
    /\ token' = "accepted"
    /\ UNCHANGED <<dbVars, panelVars, feed, channel, faults>>

-----------------------------------------------------------------------------
(***************************************************************************)
(* The feed. A poll reads the log from the least cursor of the subscribers   *)
(* that are there when it starts, its participants, and publishes to them.   *)
(***************************************************************************)
Cursor(p) == Max(shown[p] \union {0})

\* A subscriber goes; the feed goes with the last one.
Without(p) ==
    LET left == [q \in DOMAIN feed.cursors \ {p} |-> feed.cursors[q]]
    IN IF DOMAIN left = {} THEN NoFeed
       ELSE [feed EXCEPT !.cursors = left, !.participants = @ \ {p}]

Subscribed(p, after) ==
    [feed EXCEPT !.cursors = [q \in DOMAIN @ \union {p} |-> IF q = p THEN after ELSE @[q]],
                 !.poll = IF @ = "none" THEN "scheduled" ELSE @]

BeginPoll ==
    /\ feed.poll = "scheduled"
    /\ feed' = [feed EXCEPT !.poll = "reading",
                            !.participants = DOMAIN feed.cursors,
                            !.after = Min({feed.cursors[p] : p \in DOMAIN feed.cursors})]
    /\ UNCHANGED <<dbVars, token, panelVars, channel, faults>>

\* Seeded fault: events go to everybody who is subscribed when the answer arrives.
AudienceNow == DOMAIN feed.cursors

Audience == feed.participants

\* The events of a page that publishFeedEvent sends to a subscriber.
NewTo(p, page) == {s \in page : s > feed.cursors[p]}

\* Seeded fault: only a poll that found events schedules the next one.
PollSucceedsOnce ==
    /\ feed.poll = "reading"
    /\ LET page == Page(feed.after)
           to(p) == IF p \in Audience THEN NewTo(p, page) ELSE {}
       IN /\ channel' = [p \in Panels |-> channel[p] \union to(p)]
          /\ feed' = [feed EXCEPT !.poll = IF page = {} THEN "none" ELSE "scheduled", !.participants = {},
                          !.cursors = [p \in DOMAIN @ |-> Max(to(p) \union {@[p]})]]
    /\ UNCHANGED <<dbVars, token, panelVars, faults>>

\* The read returns: its events are published and the next poll is scheduled.
PollSucceeds ==
    /\ feed.poll = "reading"
    /\ LET page == Page(feed.after)
           to(p) == IF p \in Audience THEN NewTo(p, page) ELSE {}
       IN /\ channel' = [p \in Panels |-> channel[p] \union to(p)]
          /\ feed' = [feed EXCEPT !.poll = "scheduled", !.participants = {},
                          !.cursors = [p \in DOMAIN @ |-> Max(to(p) \union {@[p]})]]
    /\ UNCHANGED <<dbVars, token, panelVars, faults>>

\* The read fails: the stream of every subscriber ends in an error, also of those
\* that joined in the meantime, and the feed is dropped.
PollFails ==
    /\ feed.poll = "reading" /\ Fault
    /\ feed' = NoFeed
    /\ channel' = [p \in Panels |-> {}]
    /\ phase' = [p \in Panels |-> IF p \in DOMAIN feed.cursors THEN "load" ELSE phase[p]]
    /\ UNCHANGED <<dbVars, token, shown>>

-----------------------------------------------------------------------------
(***************************************************************************)
(* The panels.                                                             *)
(***************************************************************************)
Become(p, to) == phase' = [phase EXCEPT ![p] = to]
Clear(p) == shown' = [shown EXCEPT ![p] = {}]

\* discoverMeeting finds the protected interview of the tab's meeting.
Discover(p) ==
    /\ phase[p] = "discover" /\ token = "accepted"
    /\ Become(p, "load")
    /\ UNCHANGED <<dbVars, token, shown, feed, channel, faults>>

\* The panel fetches what follows its cursor, before it opens a stream.
Load(p) ==
    /\ phase[p] = "load" /\ token = "accepted"
    /\ shown' = [shown EXCEPT ![p] = @ \union Page(Cursor(p))]
    /\ Become(p, "connect")
    /\ UNCHANGED <<dbVars, token, feed, channel, faults>>

Connect(p) ==
    /\ phase[p] = "connect" /\ token = "accepted"
    /\ feed' = Subscribed(p, Cursor(p))
    /\ Become(p, "stream")
    /\ UNCHANGED <<dbVars, token, shown, channel, faults>>

\* 401: the panel is taken down, and the tab starts from an empty one.
Denied(p) ==
    /\ phase[p] \in {"load", "connect"} /\ token = "rejected"
    /\ Become(p, "discover") /\ Clear(p)
    /\ UNCHANGED <<dbVars, token, feed, channel, faults>>

\* What the feed sends to a panel follows what it sent before: it arrives in order.
Receive(p) ==
    /\ phase[p] = "stream"
    /\ \E s \in channel[p] :
        /\ \A t \in channel[p] : s <= t
        /\ shown' = [shown EXCEPT ![p] = @ \union {s}]
        /\ channel' = [channel EXCEPT ![p] = @ \ {s}]
    /\ UNCHANGED <<dbVars, token, phase, feed, faults>>

\* The connection, the API process or the extension's worker goes away, the
\* token of the stream runs out, or it is revoked: what was on its way is lost.
StreamBreaks(p) ==
    /\ phase[p] = "stream" /\ Fault
    /\ feed' = Without(p)
    /\ channel' = [channel EXCEPT ![p] = {}]
    /\ Become(p, "load")
    /\ UNCHANGED <<dbVars, token, shown>>

\* The tab is reloaded, or leaves the meeting and comes back.
Navigate(p) ==
    /\ phase[p] # "discover" /\ Fault
    /\ feed' = Without(p)
    /\ channel' = [channel EXCEPT ![p] = {}]
    /\ Become(p, "discover") /\ Clear(p)
    /\ UNCHANGED <<dbVars, token>>

LogNext ==
    \/ \E w \in Writers : WriteEvents(w) \/ Commit(w) \/ Abort(w)
    \/ TokenLost \/ Provision
    \/ BeginPoll \/ PollSucceeds \/ PollFails
    \/ \E p \in Panels :
        \/ Discover(p) \/ Load(p) \/ Connect(p) \/ Denied(p)
        \/ Receive(p) \/ StreamBreaks(p) \/ Navigate(p)

\* Panels retry for ever, the feed's timer runs and reads return. Nobody need
\* write anything or provision a token.
LogFairness ==
    /\ WF_logVars(BeginPoll) /\ WF_logVars(PollSucceeds)
    /\ \A p \in Panels :
        WF_logVars(Discover(p)) /\ WF_logVars(Load(p)) /\ WF_logVars(Connect(p)) /\ WF_logVars(Receive(p))

LogSpec == LogInit /\ [][LogNext]_logVars /\ LogFairness

-----------------------------------------------------------------------------
\* A panel never passes over an event: what is committed at or below its cursor
\* it shows, also what a transaction commits late, what other tabs of the feed
\* were sent meanwhile, and what was on its way when a stream broke.
PanelMissesNothing ==
    \A p \in Panels : \A s \in log : s <= Cursor(p) => s \in shown[p]

\* As long as the extension is authorized, an open panel catches up with the log,
\* whoever joins and leaves its feed and however streams and polls failed before.
PanelsCatchUp ==
    \A p \in Panels : []<>(token = "rejected" \/ log \subseteq shown[p])

=============================================================================
