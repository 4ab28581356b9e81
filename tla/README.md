# TLA+ specifications of Authenti8

Authenti8 finds interviews in recruiters' calendars, reserves a credit for each,
asks the candidate for consent, and monitors the interview with agents on the
candidate's device. The program is a NestJS API (`apps/api`) in front of
PostgreSQL; much of its logic is in the PL/pgSQL functions of
`infrastructure/postgres`, each of which runs as one transaction. Cron jobs, webhooks,
calendar notifications, e-mail links, browsers and agents call them concurrently, over
calls that time out, and the agents and extensions keep state of their own across crashes.

These specifications model that logic, check it with TLC on small instances, and
prove the most important invariants with TLAPS for every instance. File names below are
relative to the repository; a number such as 022 is the migration of that number in
`infrastructure/postgres`, and 022:178 its line.

## 1. The system: inventory

| Component | State | Operations | Hard behaviour | What makes it correct |
|---|---|---|---|---|
| **Interview lifecycle** (022, 023, 027, 035, 043) | `interviews.status`, schedule, `protection_status` | calendar upsert/removal, orchestrator, expiry, start, finish | unlocked cursor reads, triggers, cron overlap | legal order of statuses; every wait ends |
| **Credits** (010, 014, 016, 018, 027, 048) | `credit_transactions`, `credit_reservations`, `subscriptions` | reserve, consume, release, reconcile, allowance | deferred triggers, refunds in mid-verification, month change | no overbooking; exactly the monitored interviews are charged |
| **Verification delivery** (022, `interview-lifecycle.service.ts`) | `verification_delivery_jobs`, `candidate_verification_tokens` | claim, complete, fail | leases, retries, late and lost answers, crashes | one worker's answer counts; links only for pending consent |
| **Consent and sessions** (022, 027) | `candidate_consents`, `verification_sessions` | accept, decline, start | replays, withdrawal, re-detection | one consented session while connecting |
| **Accounts** (001, 005-009, 044, `apps/api/src/auth`, `organizations`) | users, tokens, sessions, members | sign up, verify, log in, reset, invite, accept, manage | requests of several browsers between database calls, late and repeated mails | passwords only through one's own link; an owner stays |
| **Member wallets** (047, 048) | `hr_wallet_transactions`, `responsible_user_id` | grant, reduce, reserve, charge, reassign, suspend | reassignment locks only its interview | a wallet pays for each of its interviews once |
| **E-mail outbox** (025, 038, 044, 045, `mail.service.ts`) | three outbox tables | enqueue, claim, renew, validate, send, complete, fail | leases, duplicates, crashes, lost answers | bounded transmissions; every mail ends; a report is true |
| **Reports, recovery** (038, 039, 041, 043) | `report_generation_jobs`, `operational_failures` | end of meeting, process, fail, recover | attempts, an operator's job racing the queue | every meeting gets its report or is visibly failed |
| **Billing** (010, 016, 017, 019-021, 046, `billing`) | checkouts, intents, inbox, subscription, ledger | checkout, webhook, activate, reverse, recover | duplicate, late, reordered events, workers that die | credits follow payments; nothing is acknowledged unapplied that the code does not let go |
| **Enterprise contracts** (044, 045, 049, `commercial`) | staff, leads, agreements, invoices, payments | qualify, convert, propose, invoice, confirm | edits between invoice and payment, confirmations at once | contracted credits once per paid invoice |
| **Calendar sync** (011, 023, 026, 051, `google-calendar.service.ts`) | `calendar_sync_jobs`, `calendar_sync_states`, sources | enqueue, claim, list, apply, connect, disconnect | superseded jobs, stale results, several calendars, revoked consent | no request is lost; nothing outlives its connection |
| **Monitoring and telemetry** (029-036) | `telemetry_events`, `agent_heartbeats`, `monitoring_interruptions` | start, ingest, heartbeat, interrupt, stop | replays, gaps, silence, grace period | gap-free hash chain; interruptions and health agree |
| **Device enrollment** (028, 030, 033, both agents) | secrets, devices, pending keys on disk | consent, prepare, challenge, complete, replay | crashes between key, disk and server; two machines | the enrolled machine keeps its key |
| **Windows and macOS agents** (`apps/*-agent`) | event chain, queue, spool, installed files | monitor, send, stop, update, roll back | restarts, offline, power loss in an update | nothing is lost or sent twice; parts advance together |
| **Candidate extension** (`apps/candidate-extension`) | rule pack cache, native host | report health and matches | spooling while the verifier is away | evidence arrives once, in order |
| **Detection** (036, 037, `packages/detection-rules`) | rules, packs, incidents | approve, publish, disable, match, evaluate | order of arrival, packs replaced under way | incidents do not depend on the order |
| **Live logs** (036, `recruiter-extension`) | `live_logs`, feeds, panels | write, poll, stream, load, refresh | gaps in sequences, several tabs, broken streams | a panel misses nothing and catches up |
| **Accuracy release** (041, 042, `scripts`, workflow) | `accuracy_runs`, `application_versions` | test, attest, record, release | partial refusal, repeated jobs, packs replaced meanwhile | both platforms or neither |
| **Governance otherwise** (040, 050) | policies, change requests, disputes | retention, approval, readiness | who acts in which order | two people for sensitive changes |
| **Web, shared packages, deployment** | - | presentation, validation, schedules | - | - |

Interaction: the *calendar* writes `interviews`; its triggers reserve and release
*credits*, an HR member's wallet pays if one is responsible; the *orchestrator* cron reads
both and creates *delivery jobs*; the delivery worker creates a *token* and an *e-mail*;
the candidate's answer creates a *session* or returns the credit, and prepares the
*enrollment* of a device; the agent's start consumes the credit and opens the *session*
that the agent's events, the monitoring cron or a user end; each event may become an
*incident* and a *live log*; the end of the session makes a *report*; *billing* and
*contracts* change the balance, and a deferred trigger on the ledger and on subscriptions
re-distributes reservations and may expire verifications. What fails is recorded in one
ledger and retried by one job. `PROJECT.json` lists every component with its files and
status, and under "hazards" what is hard to test in this code, with the properties that
cover it.

## 2. Modules

| Module | Role |
|---|---|
| `ConsentContract` | abstract: what candidates and customers are promised |
| `InterviewLifecycle` | the code: lifecycle, credits, delivery, consent, start, billing effects of one organization |
| `EvidenceLog` | abstract: what the telemetry of a session promises |
| `MonitoringSession` | the code: one session on the server, ingestion, interruptions, the monitoring cron, every end |
| `AgentTelemetry` | the code: the Windows or macOS agent with its queue and restarts, composed with the session |
| `MailPromise` | abstract: what one may count on after handing over an e-mail |
| `EmailOutbox` | the code: three queues, their deliveries, leases and failures; implements `MailPromise` |
| `FailureLedger` | the code: the ledger of failures and what its recovery does to an entry |
| `Reports` | the code: from the end of a meeting to its report |
| `Operations` | sum of `EmailOutbox` and `Reports`, which share the ledger's code |
| `Accounts` | the code: sign-up, login, reset, organizations, members; built on `MailPromise` |
| `CreditWallets` | the code: allocations of HR members and interviews paid from them |
| `Workspace` | sum of `Accounts` and `CreditWallets` |
| `Billing` | the code: checkouts, provider, webhook inbox, workers, subscription, credits of one organization |
| `EnterpriseContracts` | the code: staff, lead, agreement, invoices, payments |
| `Commerce` | sum of `Billing` and `EnterpriseContracts` |
| `CalendarSync` | the code: connections, jobs, synchronizations and a shared meeting |
| `Webhooks` | sum of `Billing` and `CalendarSync`, which other services notify |
| `LiveLogs` | the code: writers, the polled feed of the API, streams, panels in the tabs of a recruiter |
| `DeviceEnrollment` | the code: from consent to an enrolled device |
| `BrowserEvidence` | the code: browser, native host, spool, event chain; extends `DeviceEnrollment` |
| `AccuracyRelease` | the code: workflow, attested results, registration of released versions |
| `CandidateSoftware` | sum of `BrowserEvidence` and `AccuracyRelease` |
| `VerifierUpdate` | the code: update, rollback and recovery of the installed Windows verifier |
| `Detections` | the code: rules, packs, matching, evaluation; extends `VerifierUpdate`, as a verifier works only while it runs |
| `InterviewLifecycleProofs`, `AgentTelemetryProofs` | theorems about the module of that name, and that it implements its abstract module |
| `OperationsProofs`, `WorkspaceProofs`, `CommerceProofs`, `CalendarSyncProofs` | theorems about e-mail queues and reports, accounts and wallets, billing and contracts, the calendars |
| `CandidateSoftwareProofs`, `LiveEventsProofs` | theorems about enrollment, browser evidence and releases; about the live log, the decisions on detections and the update of the verifier |
| `MC*` | constants and symmetries for TLC; `MCInterviewLifecycle` extends the proofs, so that their assumptions are evaluated too |

**Sums.** `Operations`, `Workspace`, `Commerce`, `Webhooks` and `CandidateSoftware` put two components side
by side whose rows are disjoint: every behaviour follows one of the two while the other
stays in its initial state. Nothing is lost that a property of either could tell, because no
action of one reads what the other writes; the module's head says why that is so. Where
components do share state, they are composed for real: agent with session, mails with ledger,
accounts with mails, enrollment with browser evidence, detection with updates.

**Faults.** A call of the database (`supabase.service.ts` `rpc`, ten seconds) can fail before or
after it takes effect; both outcomes are in every module that makes calls. A process can die
between any two steps. Where the repository can be broken in a telling way, the module holds
the broken form beside the right one ("Seeded fault"): it is what shows that each property
of section 3 can fail.
### How `InterviewLifecycle` corresponds to the code

`iv[i]` joins the rows of all tables keyed by interview `i` (the module's head lists
which field is which column); `bank` is the newest subscription's status and the
ledger's balance of the current period, split as `authenti8_consume_credit` splits it
(allowance and extra); `seen` holds what a running orchestrator's cursor has returned
and the loop body has not yet used; `claim` holds what workers remember of the jobs they
claimed. One action is one transaction, with two exceptions that are finer than the code:
one iteration of the orchestrator's loop and one event of a calendar batch are separate
steps, which admits more interleavings than the row locks do.

| Actions | Code |
|---|---|
| `CalendarInsert`, `CalendarUpsert`, `CalendarRemove` | `authenti8_apply_calendar_sync`, calendar disconnection and member disabling (051) |
| `Cleanup`, `RescheduleJob`, `CreditTrigger`, `Commit` | row triggers (023:3, 018:213) and deferred constraint triggers (014:99-122) that every UPDATE fires; they are operators inside the actions, never actions |
| `ExpireWindow`, `OrchestratorRead`, `OrchestratorApply` | `authenti8_orchestrate_interviews` (022:200): locked expiry, unlocked cursor, loop body |
| `ClaimDelivery`, `CompleteDelivery`, `FailDelivery`, `FailExhausted`, `LeaseExpires`, `WorkerCrash` | delivery RPCs (022:270-387) and `deliverNext` |
| `EmailSent`, `EmailUndeliverable`, `EmailFailed` | outcomes of the outbox (025) |
| `RecordConsent`, `ConsumeCredit`, `FinishMonitoring` | 022:388-482, 022:149, 035:45 |
| `ReleaseCredit`, `ReserveManually` | 027:24, workspace controller |
| `ExtraCredits`, `SubscriptionChanges`, `PeriodEnds` | what webhooks and the calendar month do to the ledger |
| `Reconcile`, `ReconcileExpired` | 016:240, 019:69, both over `authenti8_reconcile_entitlement` (`Reconciled`) |
| `Tick` | `now()` passes a boundary the SQL compares with |

Abstractions, each chosen to keep every guard and state change:

- **Time** is the phase of `now()` relative to the current schedule; the phases are cut
  at exactly the instants the SQL compares with (start - 7 days, - 15 min, - 1 min,
  end, end + 30 min). A job made from an older start is marked `stale`, and may become due
  at any time. Interviews have equal length, so phases order their starts.
- Back-off delays are part of time: a failed job may be claimed at once or much later.
- `WAITING_FOR_CANDIDATE` is entered and left within one transaction and so is never visible;
  no function sets `SYNC_FAILED`; interruptions are in `MonitoringSession`, report states in `Reports`.
- `claim_token` is a fresh UUID per claim; a worker holds one claim at a time, so the
  worker's name plays its part.
- The e-mail outbox is one flag per interview; its leases are in `EmailOutbox`, whose promise (a
  mail arrives never, once or several times; a report of it is final) is what the flag does.
  The 48-hour cap on a token's life is ignored (verification starts one minute before
  the interview, and interviews are shorter).
- The responsible member is an owner or manager and stays active; HR wallets are in `CreditWallets`.
- One subscription row. The two kinds of allowance transactions are one number.
- Reconciling twice in one transaction equals reconciling once.

`MaxExtra`, `MaxChanges` and `Slots` bound the environment for TLC; they are guards of
environment actions only. `MaxAttempts` and `Allowance` are the code's own constants.

### How `MonitoringSession` and `AgentTelemetry` correspond to the code

`session` joins the rows of one verification session: `verification_sessions`,
`monitoring_interruptions` (at most one is open, by the partial unique index of 035:18),
`agent_heartbeats` and `telemetry_events`. `agent` is the identity an agent keeps encrypted
on the device (`EnrolledIdentity`: queue, chain state, `monitoringStarted`) with what `run()`
holds in memory. A request and its ingestion are one step, because the session row is
locked for the whole of it.

| Actions | Code |
|---|---|
| `Send` | `TelemetryDelivery.flush` posts the head of the queue, `authenti8_ingest_agent_event` (034) answers; the answer may be lost |
| `Record`, `OnHeartbeat`, `OnUnhealthy`, `OnHealthy`, `Finish` | the triggers of an inserted event (036:416-480) and `authenti8_finish_monitoring`; operators inside `Send`, never actions |
| `Orchestrate` | `authenti8_orchestrate_monitoring` (035:122) for this session |
| `EndByUser`, `Withdraw`, `StartFromWorkspace`, `Report` | candidate and recruiter end (035:157, 050:309), expiry or cancellation (022:133, 023:22), start through the workspace endpoint (027:2), coverage in the report (038:180) |
| `Launch`, `Flushed`, `Begin`, `LeaveWaiting`, `Emit`, `Stop`, `Delivered` | the stages of `run()`, `windows-agent.ts:34` and `macos-agent.ts:23`; where they differ the action says so |
| `Exit` | a crash, an error of a sensor or rule pack, a full queue, or a flush that was given up: the identity stays on disk |
| `Tick` | five seconds pass |

Abstractions:

- **Time** is a number of five-second heartbeats, and the clocks of server and agent
  agree. `Grace` stands for five minutes: what matters is that it is longer than nothing.
- **The chain**: the hash of the previous event, the signature and the event id of an
  honest agent determine, and are determined by, the event's number and content.
- **Events** that only become evidence are one type; browser failures (`BROWSER_PROFILE_HEALTH`
  not verified, `PERMISSION_CHANGED` of the browser) and recovery are the types the triggers
  tell apart.
- A request the server handles late finds its event recorded, which is a replay, or is
  itself the delivery whose answer was lost.
- Whether the credit can be consumed at the start is decided by `InterviewLifecycle`; here the
  server may refuse to answer at any time, which covers it.
- The device is enrolled in `Init`, and is the session's only device. The queue's limit of
  1000 events acts like `Exit`: the event that does not fit was never persisted.
- Coverage is an integer percentage; the code rounds to two decimals.


### How `EmailOutbox`, `FailureLedger` and `Reports` correspond to the code

`outbox[m]` is a row of `auth_email_outbox`, `notification_email_outbox` or
`commercial_email_outbox`; its kind says which, and a candidate's invitation is an
authentication mail whose end changes an interview. A delivery is one run of
`deliverClaimedMessage`, `deliverNotification` or `deliverCommercial` with what it holds in
memory.

| Actions | Code |
|---|---|
| `Enqueue`, `Lapses`, `CompleteFollowUp` | `prepareOutbox`, and a notification to each of its recipients; the purpose of a mail ends (consent answered, link used, notice seen, follow-up done) |
| `Claim` | `drainOutbox`, `drainNotificationOutbox`, `drainCommercialOutbox`: first close what expired in its last attempt (`SweptLink`, `SweptNotice`; `SweptReminder` reopens instead), then lease the first row that is due (025, 045, 050) |
| `Validate`, `Send`, `Complete`, `RecordFailure`, `Renew` | the stages of a delivery, each one call that can fail before or after it takes effect (`CallFails`) |
| `LeaseExpires`, `Crash` | 45 s pass without renewal; the process ends |
| `Observed`, `RecoverNotice` | the trigger that enters failures of a notification in the ledger, one entry for the copies to all its recipients (`Copies`), and resolves it as soon as any copy is SENT (041:131, 041:219); its recovery resets every copy that is not, unless one is (041:266, 043:55) |
| `CompleteMeeting`, `ProcessReports`, `RecoverReports` | end of monitoring, `authenti8_process_reports` (038, 039) and `authenti8_recover_operations` (041:250, 043:33) |

`FailureLedger` holds the operators on one entry of `operational_failures`: captured, due,
retried, closed, buried. Back-off times are left out: what waits may be looked at any time.

### How `Accounts` and `CreditWallets` correspond to the code

A request of a browser is the sequence of database calls of one controller method, with the
row it has read between two of them; a link is a row of the token tables.

| Actions | Code |
|---|---|
| `Signup`, `CreateSignupToken`, `DispatchLink`, `VerifyEmail`, `CompleteSignup`, `Login`, `UpsertGoogleUser`, `CreateSession`, `RequestPasswordReset`, `ResetPassword` | `auth.service.ts`, one action per call |
| `CreateOrganization`, `Invite`, `AcceptInvitation`, `ManageMember` | `organizations.service.ts`, `members.service.ts` over 044:359-450, with the roles that may do so |
| `LinkExpires`, `MailArrives`, `Crash`, `SessionEnds` | time, `MailPromise`, the process, logout |
| `AskAdjustment`, `AdjustWallet` | 047:36-42 before and 047:43-61 after the organization is locked |
| `ReserveMeeting`, `ReleaseMeeting`, `ConsumeMeeting` | 048:55, 027:49, 022:193 with the wallet trigger of 048:32 |
| `ReadForReassignment`, `Reassign` | 048:113-127 reads, 048:128-147 writes, with only the interview locked |
| `ManageWalletOwner`, `Join` | suspension, removal (047:97) and return of a member |

### How `Billing` and `EnterpriseContracts` correspond to the code

`remote` and `events` are the provider: a payment, a subscription, its refunds, and the
events about them in the order they happened. `inbox` is `billing_webhook_inbox`, `jobs` are
workers in mid-processing, `request` an API request between two calls.

| Actions | Code |
|---|---|
| `CreateCheckout`, `BeginCheckout`, `InsertIntent`, `RequestCheckout`, `CompleteIntent`, `Activate` | `billing.service.ts` 31-60, 162-263; `authenti8_begin_checkout` reads before it locks (046:110), so it is two steps; an answer 4xx fails the intent, also a reused one whose session is open |
| `Pays`, `Collects`, `Lifecycle`, `Refunds` | the provider (external): what it may do, not when |
| `EnqueueWebhook`, `ClaimWebhook`, `LookUp`, `ApplyWebhook`, `CompleteWebhook`, `FailWebhook` | controller, worker, routing, effects; a lock that ran out lets another worker claim. An event says that it is of a checkout, of nothing (no usable metadata) or of another product (`Says`); `LookUp` routes it (`Routed`), defers it (`Waits`), or lets it go (`Dismissed`: `billing-event-route.ts` 22-45, `billing.service.ts` 103-144) |
| `ApplyBillingEvent`, `ApplyBillingReversal`, `ApplyDunningRecovery` | 016:50-162, 010:335-382, 020:176; operators inside those steps |
| `OpenWorkspace`, `ManageStaff`, `UpdateLead`, `ConvertLead`, `Propose`, `IssueInvoice` | `commercial.service.ts` over 044, 045, 049 |
| `Collect`, `Confirm`, `ApplyPayment`, `CallDies` | a customer pays (external); the internal endpoint and `authenti8_apply_enterprise_payment` (049:128-171), read and write apart |

### How `CalendarSync` corresponds to the code

`now` ticks whenever a calendar changes; a copy of the meeting has the time of its last change,
a list that of its drawing up, and a sync token that of the list it came with. `begun` is the order
in which the synchronizations that may still be applied began: the code refuses the result of one
that began before another whose result was applied (051:233), so an applied one takes out of
`begun` all that are older (`Overtaken`).

| Actions | Code |
|---|---|
| `CalendarChanges` | Google (external): copies come, change and go |
| `EnqueueChannel`, `EnqueueStale` | notification (011:186), sweep (011:211) |
| `ClaimJob`, `RunSyncJob`, `ListEvents`, `MarkReauth`, `ApplySync`, `CompleteSyncJob`, `FailSyncJob` | `google-calendar.service.ts` 110-235 with 051:221-419 (`Overtaken`, `Missing`, `Removed`, `Upsert`) and 011:249-278 |
| `Sync` | a member's own synchronization, without a job |
| `TouchChannel` | the renewal of a watched channel (`renewChannel`, `preparePreviousChannel`) |
| `UpsertIntegration`, `Finish`, `Disconnect` | connecting (`begin`, `finish`, `registerInitialWatch`), disconnecting |
| `DropSource` | operator inside those: both triggers on a connection that ends or changes its calendar, 051:149, which withdraws what was known through it alone, and 026:3, which withdraws what was first found in its calendar (`origin`) |
| `FoundByColleague` | a colleague's list finds the same meeting |

### How `LiveLogs` corresponds to the code

| Actions | Code |
|---|---|
| `WriteEvents`, `Commit`, `Abort` | `authenti8_project_live_log` inside the transaction that ingests (036:372), serialised by the session's row lock (034:5); an abort leaves a gap in the sequence |
| `BeginPoll`, `PollSucceeds`, `PollFails` | `pollFeed` and `publishFeedEvent` of `recruiter-extension.service.ts`, which all streams of a token share |
| `Discover`, `Load`, `Connect`, `Receive`, `StreamBreaks`, `Denied`, `Navigate` | `content.ts` of one tab and the stream that `background.ts` proxies |
| `TokenLost`, `Provision` | rotation of the token whose answer is lost; the recruiter signs in anew |

### How `DeviceEnrollment` and `BrowserEvidence` correspond to the code

| Actions | Code |
|---|---|
| `Consent`, `Prepare`, `PrepareFails`, `LeavePortal`, `SecretExpires` | portal, `consent` of `interview-lifecycle.service.ts`, 028:49 |
| `Launch`, `AskChallenge`, `GenerateKeys`, `Post`, `SaveIdentity` | `enrollment-client.ts` (Windows saves the key before it posts) and `enrollment.ts` (macOS saves it afterwards) |
| `Recheck`, `Complete`, `Replay` | the three calls of `device-enrollment.service.ts` 24-56; a request goes on when its sender is gone |
| `Report` | `candidate-extension/src/background.ts`, native host, `browser-evidence-store.ps1` |
| `Claim`, `Move`, `Acknowledge`, `CompleteBrowserClaim`, `ReportUnavailable`, `Send`, `ExitVerifier` | `transferBrowserEvidence` and `telemetry-delivery.ts` |

### How `VerifierUpdate`, `Detections` and `AccuracyRelease` correspond to the code

The installed verifier is the version of three parts (executable, native sensors, installer)
and the native host; the helper and the recovery are sequences of file operations, taken one
at a time, each of which may be the last before the power fails.

| Actions | Code |
|---|---|
| `Launch`, `Recover`, `InstallUpdate`, `Help`, `HelperFails`, `Redeploy` | `cli.ts` 10-29, `update-recovery.ts`, `update-verifier.ts`, `apply-update.ps1`, and what the server offers |
| `Operators` (`Approve`, `Publish`, `Disable`) | 036:78-179 |
| `Work`, `RefreshRules`, `Stops` | loading a pack, asking for a fresh one before the expiry, ending |
| `Observe` | `MatchSnapshot`, `News`: `detection-matcher.ts`, `matcher.ts`, `sendDetectionSignals`, `evidenceChanges` |
| `ReportExtension` | `chrome-rule-pack.ts`, `browser-monitor.ts` |
| `Ingest` | `authenti8_evaluate_detection_event` (037:102), which evaluates the signal and those it supports |
| `PublishPack`, `WithdrawPack` | 036 again, as far as a release depends on it |
| `Dispatch`, `TestCandidate`, `Attest` | `accuracy-release.yml`, `run-native-accuracy.mjs`, `verify-native-accuracy.mjs`, `accuracy-harness.mjs`, `upload-accuracy-results.mjs` |
| `RecordRun`, `CheckPack`, `RegisterVersion`, `CommitRelease`, `LoseRelease` | `authenti8_record_accuracy_run` (041), `authenti8_record_accuracy_release` (042), `authenti8_register_application_version` (041:402) |

Time in `Detections` counts publications and withdrawals. `DecideDetection` is the reference of
`packages/detection-rules`, `Evaluated` the SQL; they are two definitions, and a property
compares them. The scenarios of a native suite, signatures and digests are left out of
`AccuracyRelease`: a build is a model value, and a result is for one build, commit and pack.

## 3. What TLC checks

| Run | Instance | Question |
|---|---|---|
| `lifecycle_one` | 1 interview, 2 workers, 2 attempts, 3 changes, new schedules far / soon / live; fairness | what each row keeps under every interleaving, and what the crons alone bring to an end |
| `lifecycle_contract` | 2 interviews, 1 credit, 1 worker, 1 change, new schedules live | who gets the credit, who is charged, and that the code implements `ConsentContract` |
| `telemetry_restarts` | a Windows or macOS agent, 2 launches, the start and 3 heartbeats, window of 3 beats and grace of 1; fairness | the chain, the refinement of `EvidenceLog`, and the end of every session |
| `telemetry_browser` | a Windows agent, 1 launch, the start and 3 heartbeats, browser failures or recoveries | whether health and coverage agree with the interruptions, and a closed session stays closed |
| `operations` | 1 mail of any of 4 kinds and 2 deliveries, or a notification with 2 copies and 1 delivery, 2 attempts, 1 recovery; or 1 report with 3 attempts; fairness | floods, forgotten mails and reports, and the refinement of `MailPromise` |
| `workspace` | 2 people, 2 passwords, 2 browsers, 2 links, 1 organization; or an owner, 1 HR member, 2 meetings, 2 adjustments | who sets a password, who owns, what a wallet pays |
| `billing_workers` | 1 checkout, 3 events, 2 workers, 2 attempts, 1 request; or 2 staff, 2 organizations, 2 terms, 2 invoices, 2 payments, 2 calls | whether money and credits agree |
| `webhooks` | 2 checkouts, 3 events, 2 requests, 1 worker; or 1 member and 1 colleague, 2 synchronizations, 2 changes, 2 connections | which purchase decides on the subscription; lost requests, stale results, shared meetings |
| `live` | 2 tabs, 2 writers, 5 events, pages of 2, 2 faults; fairness | whether panels miss or stop at an event |
| `device` | a Windows and a macOS machine, 2 keys, 3 challenges, 3 items, spool of 2; or 2 workflows, 2 uploads, 3 commits, 2 packs | keys, spooled evidence, releases |
| `verifier` | either platform, 2 manifests, 2 failures, 3 rules, 2 packs, 2 signals | installed parts, and the server against the reference decision |
| `verifier_overlap` | the same | what an update comes to when the link is opened while its helper works: expects the violation of section 5 |

Properties, and why they are not obvious:

- `ReservationBacksVerification`: six functions release reservations; none may leave a
  candidate being verified without one.
- `ScheduledHasLiveJob`: job and status live in two tables, written by nine functions and a
  trigger; if they part, an interview waits for ever or a candidate is asked for
  consent after a cancellation.
- `OneConsentedSession`: a leftover session makes every later start abort.
- `LinkIsForPendingConsent`, `InvitedInTime`: links, e-mails and jobs of an older round.
- `NoOverbooking`: reservations against a balance that refunds and starts lower.
- `ChargedIffStarted`, `ManualReleaseIsFinal`, `KeepsContract`: the promises to customers.
- `ReservationsSettle`, `VerificationsEnd`: liveness, see below.
- `ChainIntact`, `KeepsEvidence`: log and queue join into one chain through lost answers and
  restarts, and the log only ever grows by the next event the device produced.
- `NeverBlocked`: no interleaving leaves an agent with an event the server will never take,
  but for observations 5 and 7 of section 5.
- `HealthMatchesGaps`: the heartbeat trigger, two kinds of browser events and the cron
  each open, relabel and close the one open interruption, and each sets the health.
- `FinalAccount`: coverage is computed twice, at the end and for the report, by code that
  sees interruptions opened in the past and ends requested by any clock.
- `NothingAfterTheEnd`: six operations look at a session's status before they write.
- `TransmissionsBounded`: a mail whose completion is lost is sent again, by a delivery that
  may overlap with the one that lost its lease, and recovery starts the count anew.
- `KeepsPromise`: a delivery that has lost its lease must neither close nor reopen another's row.
- `MailsSettle`, `ReportsSettle`: the last attempt may die with its process, and a report's
  failure is seen by two jobs that treat it differently. A copy of a notification may end FAILED with
  its entry RESOLVED, because another recipient has got it; the property counts this as an end
  (section 5).
- `PasswordNeedsLink`: sign-up keeps a password in the token until the mail is answered; a
  second sign-up, a login by Google and a reset touch the same account in between.
- `OwnerStays`: roles come from invitations accepted later than the guards were read.
- `WalletsBalance`: reservation, release, charge and reassignment write a wallet by a trigger
  that looks at the present role, not at that of the time of the reservation.
- `CreditsMatchPayments`, `ProcessedIsApplied`: a webhook can be claimed again while its first
  worker is still at it, refunds are cumulative and may precede their payment. `ProcessedIsApplied`
  excepts what the code lets go (`Dismissible`): recoveries, events of another product, and
  payments that nothing attributes.
- `OnlyNewerTakesOver`: activation by the purchaser, webhooks of two purchases and recovery
  change one subscription.
- `ContractedOnce`: a proposal may be revised between invoice and payment; two confirmations
  of one invoice read before either writes.
- `RequestsAreServed`: a job is superseded while a run is at it, and the run's success must not
  remove the newer request.
- `SourcesAreConnected`, `SharedInterviewStays`: old results arrive after a disconnection; one
  member's cancellation must not withdraw the others' meeting, and the end of a connection does so
  only if the meeting was first found in its calendar (section 5).
- `PanelMissesNothing`, `PanelsCatchUp`: sequences are handed out before their transaction
  commits, polls are shared by tabs that join and leave, and a stream can break with events on
  their way.
- `EnrolledKeyIsKept`: the answer that enrolls can be lost in three places, and the verifier
  can die between any two writes.
- `EvidenceOnce`: the spool's claim, the saved position and the event chain are three writes.
- `PlatformsReleaseTogether`: "either both production versions advance or neither does"
  (`docs/phases-36-40-operations.md`).
- `AdvanceTogether`: helper and recovery meet every state a power failure leaves behind. It is claimed
  as long as no link was opened while a helper worked; `EveryUpdateAdvancesTogether`, which claims it of those
  cases too, is violated.
- `DecidesAsReference`: the SQL evaluates signal by signal in the order of arrival, and must
  agree with the function on the whole set.
- `ActiveToolIsConfirmed`: agents report only what is new to them, so a pack replaced between
  two observations, or a restart, could leave a tool unreported for good.

**Why the bounds are enough.** One interview with two workers shows every pair of
delivery answers; two attempts distinguish retry from exhaustion; three environment
changes allow cancel-return-cancel and reschedule-refund-cancel. Two interviews and one
credit are the smallest competition: one wins, one waits, and every release re-grants.
What
section 4 lists does not depend on the bounds at all: it is proved for every instance.
In the telemetry runs two launches show every crash between two steps and the recovery from it;
a window of three beats leaves room for a heartbeat, the silence that follows it and its
return, and the clock runs past the grace; the chain itself is proved for any number.

In the other runs, two of each kind of actor that races (deliveries, browsers, workers, calls,
synchronizations, tabs, writers, uploads) make every pair of overlapping operations, and
each queue is given more attempts than it takes to fail, retry and exhaust. One mail suffices
because rows of the outbox share nothing but the order in which they are claimed, which the
model leaves open. Three events of the provider are a payment, its refund and one more;
two checkouts are an old and a new purchase. Pages of two in a log of five make a panel
catch up in several reads. Three commits, the second of which changes one platform only, are
the smallest release history in which the platforms could part. Two failures are an
interrupted update and an interrupted recovery from it. In `verifier`, behaviours in which the link is
opened while a helper works go on without publications of packs, which the installed parts do not
depend on (`McNext` of `MCDetections`). In `operations`, either one mail waits alone, for two deliveries,
or the two copies of a notification do, for one (`McNext` of `MCOperations`). The payments of both billing runs
say their checkout or nothing, or only their checkout in `webhooks`; events of another product, which the code
dismisses before it looks at anything, are covered by the proofs. In `webhooks` the
synchronizations and requests, and in `workspace` the browsers, links and passwords, are
interchangeable; no liveness is checked there.

**Fairness.** Of the lifecycle, only the passing of time and two crons: the lifecycle cron calls
the orchestrator every 10 seconds and the calendar cron ends every drain with
`authenti8_reconcile_expired_credits` (schedules in
`infrastructure/supabase/mail-worker-cron.example.sql`,
`google-calendar.service.ts:116`). Nothing is assumed of workers, e-mail, candidates,
users, calendars or billing: a reservation settles and a verification ends without them.
The same cron calls `authenti8_orchestrate_monitoring` (`interview-lifecycle.service.ts:28`):
`SessionEnds` needs it and the passing of time, and nothing of agents and users.
`MailsSettle` assumes that a delivery that has begun goes on (it may still die: `Crash` is not
prevented, and lease, crash and failure are then the next claim's business), that the drains of
`mail.service.ts:39` come again and again, that leases run out, and that the recovery job runs.
`ReportsSettle` assumes the two jobs, as `docs/phases-36-40-operations.md` schedules them
(the example of cron jobs in the repository does not list the recovery). `PanelsCatchUp` assumes that polls are made and
answered, and that an open tab retries, as the timers of `content.ts`
and `recruiter-extension.service.ts` do; faults are bounded by `MaxFaults`, and a rejected
token ends the obligation.

Deadlock is checked in the lifecycle runs and in `live`: an interview can always be touched by
someone and a tab can always poll. It is not elsewhere, because what those models follow
does end: a closed session, a mail that was sent, a payment that was refunded.

## 4. What TLAPS proves

Every theorem is about a specification with its constants left open: any finite sets of actors, any
bounds. The assumptions on the constants are the `ASSUME`s of the components (TLC evaluates each
of them in some run); they say that counters are numbers, that limits which the code divides by or
compares with are positive, that sentinels are none of the values they stand beside, and that
`Interviews`, `Deliveries`, `Invoices` and `Meetings`, which are counted, are finite. Nothing else is
assumed.

| Component | Inductive invariant | Proved of every behaviour |
|---|---|---|
| interview lifecycle | `IInv`, `SInv` | `TypeOK`, `ReservationBacksVerification`, `ChargedIffStarted`, `ScheduledHasLiveJob`, `OneConsentedSession`, `LinkIsForPendingConsent`, `InvitedInTime`, `NoOverbooking`, `ManualReleaseIsFinal`, `KeepsContract` |
| its contract | - | `PaidIffMonitored`, of the lifecycle through the refinement mapping |
| telemetry | `ChainInv`, `TimelyInv` | `TypeOK`, `ChainIntact`, `KeepsEvidence`, `NothingAfterTheEnd`, `HealthMatchesGaps`, `FinalAccount`, `NeverBlocked` |
| e-mail queues | `MailInv` | `OperationsTypeOK`, `TransmissionsBounded`, `KeepsPromise` |
| accounts | `AccountsInv` | `OwnerStays`, `PasswordNeedsLink` |
| member wallets | `WalletInv` | `WalletsBalance` |
| contracts | `ContractInv` | `ContractedOnce` |
| billing | `Sound`, `BillingInv` | `OnlyNewerTakesOver`, `ProcessedIsApplied`, `CreditsMatchPayments` |
| calendars | `CalendarInv` | `SourcesAreConnected`, `RequestsAreServed`, `SharedInterviewStays` |
| enrollment | `EnrollmentInv` | `EnrolledKeyIsKept` |
| browser evidence | `EvidenceInv` | `EvidenceOnce` |
| releases | `ReleaseInv` | `PlatformsReleaseTogether` |
| live log | `LogInv` | `PanelMissesNothing` |
| detections | `DecisionInv` | `DecidesAsReference`, `ActiveToolIsConfirmed` |
| update of the verifier | `UpdateInv` | `AdvanceTogether` |

`ConsentContract` and `MailPromise` are implemented step by step (`ContractIsKept`,
`QueuesKeepPromise`), and so is `EvidenceLog` (`AgentKeepsEvidence`).

**Lifecycle, row by row.** `IInv == TypeOK /\ iv \in [Interviews -> GoodRow]`: every row is
*coherent*. A coherent row satisfies the invariants and three facts that make them inductive: a row that
waits to be scheduled has no job left (`Unscheduled`: otherwise scheduling could find a
`COMPLETED` job and would not make a new one), undelivered e-mails belong only to rows
that were offered (`Linked`), and a leased job that is not stale is in its time (`InTime`:
completing it later needs no check of the clock). The lemmas follow the code's structure:
first the row transformers (release, expire, clean up, mark, grant), then the parts of a
transaction (trigger, trim, settle, reconcile, commit), then one lemma per operation;
`NextGood` splits `Next` into its actions. Snapshots, claims and the change counter are
separate, smaller lemmas.

**Lifecycle, rows among each other.** `SInv` adds to `IInv` that a reservation belongs to an
interview that may still start (`Settled`) and that no more is reserved than the ledger holds
(`NoOverbooking` itself). Each action is one of five kinds of step, a kind being a relation between
old and new rows: it touches at most one row and reserves nothing (`Quiet`), it writes rows or the ledger and settles
both when it commits (`Writes`), monitoring starts and pays (`Starts`), the month changes (`NewMonth`), or
everything is trimmed and granted again (`Reconciles`). The kinds rest on two facts about
counting: trimming keeps the entitled interviews, of which there are at most as many as credits, and
granting reserves for the first that wait, at most as many as credits are left. Both sets are "the
rows that fewer than n precede" in an order without ties; `FewPrecede` maps such a row
to the number of those before it, an injection into `0..n-1`. The same relations, seen through the
refinement mapping, are the steps of the contract.

**Telemetry, the chain.** `ChainInv` says that the log is numbered from 0, that the queue is numbered
without gap up to `next`, and that the two meet, or overlap in exactly one event, the same on both
sides, whose answer was lost. Every step has one of five shapes: it makes an event, takes in an
event, acknowledges the head, discharges the device, or leaves log and queue alone. Each shape keeps
the invariant, and each is a `Produce`, `Keep`, `Discharge` or `Close` of `EvidenceLog`, or a stutter. Only
the report writes a completed session, so `Account` (the stored coverage is the one that the
interruptions imply) makes its writing a stutter.

**Telemetry, the times.** `TimelyInv` says that times never fall along the chain, across the log and the
queue (`InOrder`); that a macOS agent makes one start only (`StartsOnce`); and of the session that an
open interruption began before now and before the end, one of the browser no later than
the last event recorded (`GapOpened`), that closed ones end after they began (`GapsClosed`), and what
each status implies (`StatusMeans`). The clause on interruptions of the browser is what excludes an event
that would close one before it began; a stop after the cron's interruption is the exception that
`NeverBlocked` leaves (section 5, item 7).

**Telemetry, the coverage.** That coverage lies between 0 and 100 is a statement about a fold over the
interruptions. The fold is unfolded into what it is defined as, a recursive function on sets of
positions (`AddsUp`); that such a function exists follows from the functions that add up fewer positions, by taking a
least counterexample (`SumsExist`), and so does that it is a natural number. Library theorems
that take an operator as a parameter are avoided in this way.

**E-mail.** `WithinAllowance` is the heart of `MailInv`: transmissions plus the deliveries at work that
have yet to transmit never exceed the claims that were made, counted over recoveries. A delivery that
has lost its lease still holds its own claim, which is why overlapping deliveries need no further
argument. Recoveries are counted in the one entry that all copies of a notification share, so a row has
at most as many as its entry. For the promise, each row either keeps its report or makes a step of `MailPromise`.

**Accounts.** An organization has exactly one owner, active, once it has any member (`OneOwner`); an invitation is never
for the owner and only organizations with members have sent any (`InvitesOthers`: so a late acceptance
cannot give the owner another role); a sign-up completes only by a link that arrived (`Completes`).

**Wallets.** What interviews took from a wallet is a sum over entries of one credit each, hence a difference of two
numbers of entries, and an entry that is new changes it by one. `Keyed` says that the entries of a meeting
carry versions its reservation has had, so that an entry a step writes is new; `Held` that a reserved credit is its
responsible member's and whose role is settled; `MovesAsRead` that what a reassignment read before the lock
still holds when it writes. Without the last, a return between the two would charge a wallet for a credit
nobody has.

**Billing and contracts.** In `BillingInv`, what is acknowledged has been applied or is dismissible
(`AcknowledgedIsApplied`, for the inbox and for workers that are about to acknowledge; whether an event is dismissible
depends on what it says and never changes); a purchase of extra credits has
one payment (`PaidOnce`); and what was refunded here, with the refunds that are yet to be applied, is at
most what the provider refunded (`RefundsCovered`). The last is a sum over events, stated by a
function of partial sums (`AddsUp`) instead of a recursion, so that a step can exhibit the next one.
`ContractInv` says that invoices agree with the agreement while it is theirs, and that calls under way carry payments that were
collected.

**Calendars.** Of synchronizations that may still be applied, `OrderOK` says that they are totally
ordered and started in that order; `RunOK` that each works with the present connection or an older one;
`JobOK` and `ServiceOK` that a lock is in the hands of a run of that member which, unless somebody asked
again, started after the request. A run that was overtaken may therefore remove its job: the
request has been served by the one that overtook it.

**Devices and releases.** A Windows machine writes its key to disk before it sends it, so every key
of the machine, on its way or bound, is that one (`OneKey`); a registered version is backed by a passed
run of the same commit on both platforms (`Backed`, `UploadOfOneCommit`, `WritesOfOneCommit`).

**Browser evidence.** An item is known by its place in what the browser reported. The trail of a machine
(recorded, then in the chain, then what the claim has left, then the queue) is strictly increasing in
place and holds every place that was not dropped (`Accounted`). `ClaimInOrder` is what crashes could break:
the position saved with the chain is where the claim goes on, and what is queued came after all
of it. `OwnKeys` and `OnDevice` say that only the bound machine ever claims, which keeps the trails of two
machines apart.

**Live log.** A panel shows the log up to its cursor (`Shows`); what lies between this and the cursor that the
feed keeps for it is on its way, in order (`InStep`); and a poll reads from a cursor that none of its
participants is behind (`Polls`: a tab that joins during a poll is not one of them). `Written` is why sequences may
be trusted: at most one transaction of a session is open, and what it took is above the log.

**Detections.** The two decisions look at different things: the reference at all signals that were valid when made,
the server at each signal when it arrives. `Made` says that they agree on every signal for good: a pack once withdrawn
and a rule once disabled stay so, and both keep the time it happened. `incidents` is then
a function of what is stored (`DecisionInv`, last conjunct), for which it is enough that evaluating a signal and those
it supports reaches every signal whose confirmation it can change. `Told` is why a tool in use is confirmed: what a
verifier remembers as reported is queued or stored, also after a pack was replaced or the verifier restarted.

**Update.** Helper and recovery are plans, and after `k` operations `Rest(plan, k)` is left: `Replacing`, `GivingUp` and
`Restoring` say for each `k` where every part is and what the journal says. `Resting` is what a power failure needs:
whichever `k` it meets, the parts are of one version, or the journal is there and each part can be restored
(`Kept`). The facts are claimed only while operations failed or the machine did, not both, and no link was opened
while a helper worked (`Claimed`), as in the property: from then on nothing but types is claimed.

Only model-checked: liveness (`ReservationsSettle`, `VerificationsEnd`, `SessionEnds`, `MailsSettle`,
`ReportsSettle`, `PanelsCatchUp`), because fairness and `ENABLED` are beyond the prover. Every other
property of section 3 that holds is a theorem. What the sums of specifications add is that the other component stays in its
initial state, which each proof uses as a case of its own.

## 5. What the models found

In building the models we met the following. Items 1-8 are behaviours of the models, which TLC
shows when the property named is stated without its exemption; the others were met in
translating the code, and the models follow the code in them unless it is said that they
are left out.

**Lifecycle and telemetry**

1. **A reservation that cannot be spent** (022:178). For plans whose period is the calendar month, a
   start in the first moments of a month finds an empty allowance, because `consume_credit`
   does not call `ensure_allowance`. "Every reservation can be consumed" fails.
2. **An invitation at the old time** (022:258). A meeting moved between the orchestrator's cursor
   read and its job insert keeps the old delivery time. Such a job is *stale*;
   `ReservationBacksVerification` and `InvitedInTime` exempt it.
3. **A refund that ends a paid verification** (027:77). An open interview without a reservation takes
   one of the entitled places, so a verification that is within the entitlement can be expired.
4. **A mark without a credit** (027:113). `protection_status` stays `RESERVED` on interviews that were
   out of their window when their reservation was released; the orchestrator trusts it when
   the event moves to the future.
5. **A restart that blocks the agent** (`windows-agent.ts:57`). A Windows agent restarted before its
   start was acknowledged makes a second one, refused for ever once the first is recorded.
   `NeverBlocked` exempts it.
6. **A grace that is not given** (035:148). The monitoring cron completes the session at its end;
   evidence made before and delivered after is refused.
7. **A stop that cannot be recorded** (035:67). A stop delivered after the cron has opened an
   interruption with a later start aborts on a CHECK until the window ends.

8. **A credit reserved and taken back at once** (014:99-122). A reservation may be released by the
   reconciliation at the end of its own transaction, in favour of an interview that starts earlier. It takes
   three interviews to see it. `ConsentContract` therefore lets one step take an interview from "none"
   to "returned"; it promised more before the refinement was proved.

Smaller: the branches of claim and completion for jobs whose interview is not
`VERIFICATION_SCHEDULED` are unreachable (a consequence of `ScheduledHasLiveJob`). An interview whose
credit was given back by hand alternates between `NO_CREDITS` and `DETECTED` while credits remain. A
session started through the workspace endpoint refuses its agent's start, and so all of its
evidence. An agent that exits after its stop was acknowledged and before its identity is
removed begins to observe again when launched inside the window; the server takes nothing of
it. A macOS agent stopped while it waits deletes evidence that was not delivered. Browser
events delivered late can open an interruption inside one that is closed already, and coverage
then counts the same seconds twice.

**Accounts and wallets**

- Two reassignments at once, or a reduction between a reassignment's read and its write, overdraw an
  HR wallet: 048:125 reads the balance without locking the organization. `docs/phases.md` calls
  allocation changes atomic under concurrent requests; `WalletsBalance` therefore says where each
  credit went, not that the sum is never negative.
- Reservations of owners and managers ignore allocations, so what is allocated can exceed what is
  available (050:22 checks for it afterwards).
- The release trigger reads the *present* role (048:37). A member removed and invited again in another
  role loses an allocation, or gains one that was never granted. Left out of the model.
- A grant is checked before the organization is locked (047:36-43) and can reach a member suspended
  in between.
- A user can become active in two organizations by accepting two invitations (044:392-450). The mail of a
  sign-up or invitation is a separate call after the token: when it fails the token exists and
  nobody has it until the request is repeated.

**Mail, reports, recovery**

- Commercial mails have no limit of attempts when their lease expires (045:16).
- A notification has one entry in the ledger for all its recipients (041:219, 041:266, 043:55). Once one copy
  is SENT, the entry is RESOLVED, and a copy that FAILED is neither retried nor given up by
  anybody, though it had one round of attempts only. `MailsSettle` counts it as ended. Recovery resets rows that are in someone's hands and counts attempts from 0
  (043:52), so an attempt's number can recur.
- If the recovery job sees a failed report before its third attempt, it buries the entry for good
  (043:33-36, 041:111), and a later exhaustion is never retried. The entry stays `DEAD` although a
  report exists later.
- The jobs for recovery and retention are scheduled in `docs/phases-36-40-operations.md` only.

**Billing and contracts**

- `payment.succeeded` and `payment.completed` of one payment would be credited twice if two workers processed
  them at the same moment; one after the other they are not.
- `begin_checkout` reads the pending intent before it locks the organization: two requests can leave
  two payable sessions.
- Recovery stamps what it read with the time of writing, so an answer that has become stale in
  between looks newer than an event that arrives late. A reordered activation can give the plan of a
  subscription that has ended. A dead-lettered webhook loses its effect.
- A paid purchase whose event has lost its metadata (`billing-event-route.ts` 36-45), or names a product id that is
  not configured any more (`billing.service.ts` 111-121), is acknowledged and not credited; nothing enters
  the ledger of failures. `ProcessedIsApplied` fails of every event without its exception.
- A second request that reuses a pending intent and is answered 4xx fails it while the session of the first is
  open (`billing.service.ts` 45-48); when that session is then paid, 016:77 refuses it as
  `UNAUTHORIZED_CHECKOUT`, and the payment is not credited.
- A second invoice of one agreement can be issued while the first waits for its payment, and both be
  paid. Of two confirmations of one payment at once, the slower is told `PAYMENT_MISMATCH` and not
  that it is a duplicate; a second payment of a paid invoice is refused and leaves no record.
- The configured founder is restored by every overview, also after another founder removed him
  (045:194-216).

**Calendar**

- The end of a connection withdraws, and releases the reservation of, every interview without consent that was
  *first found* in its calendar, also when colleagues still have it (026:10-27, never dropped; 051:149
  replaced the other trigger, of 023, by one that looks at the sources). `member-calendar-migration.test.ts` asserts
  that a shared meeting stays, but lets a member go in whose calendar it was not first found. A colleague's
  next list that contains the meeting revives it. `SharedInterviewStays` names this exception.
- After a revoked consent, connecting the same account again keeps the sync token (051:76-80, 011:138): a
  meeting withdrawn on revocation that has not changed stays withdrawn until the next full list,
  up to 24 hours.
- A source row of a cancelled copy with an older `updated` is not removed by incremental lists, a full list
  removes rows without comparing `updated`, and an eligible copy older than another member's
  cancellation does not revive the interview.
- A notification that arrives while the channel is renewed is ignored; the sweep every 30 minutes
  makes up for it.

**Devices, updates, detection, release**

- The enrollment secret is derived from the candidate link and is unique (`crypto.ts:20`, 028:6): when it
  has expired, preparing again fails. macOS saves its key only after the completion; the
  completed enrollment is then of use only to the process that made it. Two verifier processes
  can overwrite each other's pending key.
- The browser spool belongs to the user of the machine, not to a session.
- When a Windows update cannot be put in place, the handler removes directories that it had not yet
  saved (`apply-update.ps1:82-97`). After such a loss, a later interrupted update leaves new native
  files beside an old executable (`update-recovery.ts:20-22`). Recovery deletes the native host when it
  was interrupted before the host was saved (25-30).
- A link opened again while the helper works, hidden and detached, lets recovery and helper interleave, because
  `cli.ts:11` recovers whatever the state of the update: the native directory is put back, the helper goes on
  to replace the executable, and the new verifier runs beside the old native parts. The run
  `verifier_overlap` shows it; `apps/windows-agent/README.md` says that they advance together.
- An update between enrollment and resumption makes the server refuse every event (034, `DEVICE_MISMATCH`).
- Publishing a pack withdraws the old one at once, while a running agent keeps it until a minute
  before its expiry; what it detects in between is ignored (036:116, `windows-agent.ts` 76-90). The
  properties exempt such agents. A rule is published at most once.
- The server confirms a HIGH rule on Windows by product metadata alone, because a process that runs
  counts as active evidence (037:31-37). `decideDetection` of `packages/detection-rules` leaves open what goes into its
  `technicalEvidence`, one array for both severities, and no application calls it; `HasTechnicalEvidence` fills it as
  the SQL fills its own (037:30-38), and with this `DecidesAsReference` holds.
- An administrator's approved `DISABLE_RULE` (040:338) does not withdraw the published pack, unlike 036's.
- A repeated last job of an older workflow run moves both minimum versions back, together; a pack replaced
  between its reading and the commit is not noticed by the release (pilot readiness then refuses).
- A token refresh of the recruiter extension whose answer is lost after the server rotated the
  secret locks the extension out until it is provisioned again (`background.ts:61`).

## 6. What is not modelled, and what is left to prove

Not modelled:

- **Row locks and their order.** A transaction is one step, except where the code reads without a lock
  what it uses later. Reserve locks the interview before the organization, consume and release the
  other way round (048:60, 022:154, 027:31); PostgreSQL aborts one of two transactions that wait for each
  other, and an aborted call is a failed call, which the models have.
- **Administrative transactions on single rows**: retention, disputes, partners, pilot readiness, two-person
  change requests, delegated spending limits (046).
- **The web application, other presentation, validation, configuration, installers, and what sensors read from an
  operating system.** They keep no state that another part relies on. The texts of mails and the contents of
  reports are left out too.
- **Cryptography.** A signature, token or digest is the value it stands for; nobody forges one.

Left to prove: the liveness properties, should the prover come to reason about `ENABLED`; and, once the
code keeps a link from being opened while the helper works, `EveryUpdateAdvancesTogether`.
`AdvanceTogether` says nothing of an installation in which operations failed *and* the machine did;
section 5 says what can be lost then.
