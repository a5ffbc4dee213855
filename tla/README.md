# GTM-Autopilot in TLA+

GTM-Autopilot takes a HubSpot form submission, decides whether the contact is new, qualified and
to be contacted, gives the lead an owner, and enrolls it at a sales engagement platform; jobs in
the background watch the SLA and look for the meetings that came of it. This directory models
that machinery in TLA+, checks it with TLC and proves its main invariants with TLAPS.

Paths below are relative to the source directory `src/` of the repository unless they name a
document at its root.

## 1. The system

### 1.1 Parts, state, operations

| Part | State it keeps | Operations | Correct when |
|---|---|---|---|
| webhook receiver (`routes/webhooks.ts`) | none; reads `event_log.idempotency_key` | look an event up, add a job | an event answered with "duplicate" has become a play |
| queues (`queue/setup.ts`, BullMQ) | jobs in Redis: waiting, active, completed, failed; attempts, stalls | add, start, retry, stall | a job is never lost |
| inbound lead worker (`queue/workers/inbound-lead.worker.ts`) | one `leads` and one `play_instance` row per execution | insert lead, insert play, log `webhook_received`, run the graph | see the play |
| inbound lead play (`workflows/inbound-lead`) | `leads.stage`, `leads.is_duplicate`, `play_instance.status`, `first_touch_at` | validate, enrich, account match, qualify, nurture, route, first touch, complete | no contact twice within the re-enrollment window; no lead vanishes |
| route node and routing agent (`nodes/route.ts`, `agents/routing`) | `play_instance.assigned_owner_id`, `routing_state.counter`; Salesforce leads and tasks | snapshot, propose, human review, assign | owners stay near their limit; the owner a row names was given the lead |
| first touch (`nodes/first-touch.ts`, `connectors/outreach`, `connectors/base.ts`) | tokens in memory and in `connector_config`; prospects and sequence states at Outreach | find, create, enroll, refresh, store | a recorded touch is an enrollment; stored tokens work |
| SLA timer (`queue/jobs/sla-timer.ts`) | `play_instance.sla_breached`, `sla_breached` events | select, log, mark, enqueue | breaches are real and are found |
| escalation worker (`queue/workers/escalate.worker.ts`) | `escalation_sent` events; Slack messages | load, post, log | what is recorded as sent was sent |
| outcome poller and window closer (`queue/jobs/outcome-*.ts`) | `outcome_signal` rows, `outcome_status`, `meetings_count_in_window`, `late_meeting_flag` | query Salesforce, record, announce, flip; close | every outcome has its evidence and is reached |
| action executor (`actions/action-executor.ts`) | writes the rows of the parts above; `action_execution_state` | one case per action type | a finished play has had all its effects, and the trail says so |
| event log (`events`) | `event_log` (append only), its projection | `writeEvent`, `processEvent` | appended once, projection follows |
| enrichment, evidence (`nodes/enrich.ts`, `evidence`, `connectors/clearbit`, `connectors/apollo`) | `companies`, `evidence`, enrichment events | ask Clearbit, then Apollo; store facts; announce; snapshot | every outcome is reported; a snapshot lists the rows it announces; the lead is judged by the best source of those asked |
| qualification (`nodes/qualify.ts`, `agents/qualification`) | `leads.icp_score` and what goes with it | gates, points, tier, reasons | fit and tier stand for signals of the company, at the limits of the points too |
| Salesforce connector (`connectors/salesforce`, `connectors/base.ts`) | leads and tasks at Salesforce | find, create, read back, assign, create task, each with retries | what is recorded is in Salesforce; a refusal is final; a run makes a lead only if there was none when it looked |
| OAuth (`routes/outreach-oauth.ts`, `routes/salesloft-oauth.ts`) | `oauth_nonces`, `connector_config` | start, callback, store tokens | a late landing asks for nothing; the page tells the truth; no writer loses another's fields |
| settings page and connector API (`dashboard/.../connector-credentials-form.tsx`, `routes/api/connectors.ts`) | the form's state in the browser, `connector_config` | test, save | badges are earned; the form settles |
| REST reads, tenancy, other pages of the dashboard | none of their own | reads, policy updates | |

### 1.2 How they interact

The webhook receiver adds a job; BullMQ gives it to a worker, possibly several times and, when a
lock expires, to two workers at once. Each execution inserts rows of its own and runs the play,
whose nodes call the executor, which writes the rows and calls the platforms. Play, SLA timer,
outcome poller and window closer share nothing but `play_instance` and `event_log`: they meet in
rows they read at one time and write at another. supabase-js reports an error in its result and
does not throw, and most reads of the code ignore it, so a failed read looks like an empty one.

The executor asks `action_execution_state` whether an action was executed before; that table is a
projection of the event log which `writeEvent` starts and nobody awaits. The enrich node writes evidence
rows and events, and the snapshot of a decision reads them back. `connector_config` is written by the OAuth
callbacks, and by the worker (refreshed tokens) with a read and an upsert of the whole JSON object, and
by the settings page with an upsert alone.

### 1.3 What is hard about it

- several runs of one contact, of one job or of several (concurrency 5 per process, retries, stalls);
- decisions on state read some awaited calls earlier (duplicate check, owner workloads, round-robin
  counter, `currentStatus` of the poller, the timer's list of plays);
- sequences of writes that stop in the middle (event, row, external system, in different orders);
- requests repeated because an answer was lost, in retry loops inside retry loops; refresh tokens
  that can be used once;
- read-modify-write of one row by a web process and a worker; redirects that are delivered twice;
- a form with several requests under way and timers that fire after the state they were set for;
- events that cannot be written, or are written without their writer knowing, and catch blocks that write
  another one;
- Salesforce leads that several plays of one contact share;
- providers that fail, know nothing or know less than the one asked before;
- things that must happen in the end: jobs settle, neglected leads are found, plays get an outcome.

PROJECT.json lists each at its line, with the properties aimed at it.

## 2. The modules

| Module | Models | Built on |
|---|---|---|
| `ContactPolicy` | what deduplication and re-enrollment promise, without jobs or rows | |
| `PlayRow` | the row of one play as the background jobs read it, and what they rely on | |
| `InboundPlay` | webhook, queue, worker, play: from submission to first touch | implements `ContactPolicy` and, for every play, `PlayRow` |
| `ActionLedger` | executor, event log and projection of one play | the actions of `InboundPlay` with their events and keys |
| `IcpScore` | the qualification rules as a function, and what holds of a scored lead | |
| `Enrichment` | enrich and qualify nodes with Clearbit and Apollo | extends `IcpScore`; the steps `MatchAccount` and `Qualify` of `InboundPlay` hide it |
| `OwnerRouting` | route node, routing agent, assign_owner, Salesforce | the steps `AssignOwner` and `RequestHumanReview` of `InboundPlay` in detail |
| `CrmSync` | what assign_owner may rely on from Salesforce, without requests | |
| `CrmCalls` | the requests of assign_owner and the retry loops around them | implements `CrmSync`; the Salesforce steps of `OwnerRouting` in detail |
| `SepEnrollment` | first touch, Outreach connector, token refresh, retries, health checks | the step `Enroll` of `InboundPlay` in detail |
| `SlaEscalation` | SLA timers, escalation queue and worker on one play | the steps of `PlayRow`, behind which is `InboundPlay` |
| `OutcomeLog` | what outcome tracking promises: rows follow the event log | |
| `OutcomeDetection` | pollers and closers on one play | implements `OutcomeLog` |
| `OAuthConnect` | nonces, callbacks, token rows, and runs that store refreshed tokens | |
| `ConnectorSettings` | credentials form, test and save endpoints | |

`MC*` modules instantiate them for TLC (`CrmCalls` needs none), `*Proofs` hold the theorems. `SlaEscalation` and
`ConnectorSettings` are proved about together with a second specification, so the names of their
`Init`, `Next`, `Spec` and `TypeOK` bear a prefix.

In all of them one action is one awaited call (database, queue or HTTP) together with the code up
to the next one, so that other processes may act wherever the program awaits. A call that may
throw has an action for it (`Fail`, `PollerAborts`, `TimerAborts`, `Abort`, `Throw`, `WorkFails`), and so
has a process that dies (`Crash`, `WorkerDies`, `Drop`). A failed read that the code takes for an empty
result is a disjunct of the read.

**InboundPlay.** `jobState`, `runs`, `fails`, `stalls` are BullMQ's view of a job. A run
`<<j, n>>` is the n-th execution of job j; because every execution inserts a lead and a play, a
run also names these. `pc` is the next call of a run. `Start` is a worker taking the job;
`InsertLead`, `InsertPlay`, `LogReceived` are the worker's writes; `CheckDuplicate`,
`ReadRivals`, `ReadLatestPlay` are the three reads of `validate`, the latter two with the
result of the first kept in `seen`; the remaining actions are the nodes. `Stall` lets BullMQ start
a job again while its run goes on. Enrichment, matching and scoring only choose the branch, so
`MatchAccount` and `Qualify` are nondeterministic; stale results that LangGraph's checkpointer
keeps across attempts of a job lead to branches the model has anyway. `firstTouchAt`,
`updatedAt` and the window are in days. `enrolledAt` and `escalated` are history the rows do not have.

**ActionLedger.** `act` is the action a run is at, `pc` where it is in `executeAction` or in the node
around it: propose, choose (the risk registry), check the key, log `started`, work, log `succeeded` or
`failed`. `written` counts the writes of an action that took effect (`Writes` says how many it has),
`log` is the run's part of `event_log`. `pending` holds projections that were started and not awaited;
`Project` applies one of them, in any order, to `table`, and `LoseProjection` is one that fails.
`EventRefused` is an insert into `event_log` that throws (`Thrown`): either no row is stored, which `lost`
counts, or the row of one of the `Due` events is stored and only the answer was lost (`Store`; it is not
projected then). The executor's catch writes a failure, which may come to stand beside a stored success, and
the node's catch writes one more event. Likewise a write of an action may take effect although it throws
(`WorkFails`). Events that tell of no action and whose writing decides nothing are left out (those of a missing
account match, and of the catch of `account_match`). Runs of one job share keys and may overlap.

**IcpScore, Enrichment.** A company is its size, industry and country; a lead its kind of address, title and
form. The fields the rules do not look at are left out, and so is the text of the reasons. `ask` is a
request to the provider `source`; `Replies` enumerates what the connector can return (`Spelled`: Apollo
spells countries out, and the rules know codes). `StoreClearbit` and `StoreApollo` insert the evidence in one
statement; the upsert of the company always fails (its conflict target has no unique index) and is therefore
no change. `Merge`, `LoadExisting` decide which company goes to `Qualify`, which reads the
stored row once for the decision snapshot (`audit`) and once for the score.

**OwnerRouting.** `seen` is `ownerWorkloads` of the decision snapshot, `read` the value of the
counter a run read last. Territory rules carry countries, queue and owners; the policy query does
not order them, so any matching rule may come first. `withRetry` is a number of POSTs between one
and `MaxPosts`. Salesforce knows a lead by its email: `sfEmail` says whose it is, `sfOwner` who has it, and
`FindSfLead` takes any lead of the play's contact, also one another play created and assigned. Plays of one
contact may be routed at the same time (two that pass the duplicate check, or a retry beside a run that
stalled). `AssignSfOwner` overwrites whoever has the lead, and `AssignLate` is an attempt of that PATCH that arrives
after its retry did.

**CrmSync, CrmCalls.** `CrmSync` is a run's way through find, create, assign and task: which writes it may
make and when the next call may follow. `CrmCalls` has one action per request (`FindLeadByEmail`,
`PostLead`, `ReadLead`, `AssignLeadOwner`, `PostTask`, `ReadTask`), each with every group of answers
`withRetry` tells apart. After an unclear failure Salesforce may or may not have acted. `Catch` is the
loop's catch block; `getLeadById` has a loop of its own (`reads`) inside the one of `createLead`
(`tries`). Pauses are the time between two actions.

**SepEnrollment.** Tokens are pairs of a grant (`env`: the environment variables; `oauth`: the
dashboard's flow) and a generation; `refreshable` says which generation's refresh token is unused,
`fresh` which access tokens work. Runs start with the environment's pair and report a refresh through
`onTokenRefresh`; health checks start with the stored pair and report nothing.

**PlayRow.** `status`, whether `first_touch_at` is set, and whether the run that writes the row goes on:
`Insert`, `Touch` (one update sets the time and completes the play), `Park` (the play ends as a duplicate, in
nurture, or waits for a human) and `RunEnds`. The updates of the code carry no condition on the status;
that they come in no other order is what `ImplementsRow` says.

**SlaEscalation.** `Touch`, `Park`, `RunEnds` are those of `PlayRow`, from the insert on; `EscalateNoSep` is
the escalation `start_sequence` asks for when no platform is connected. A first touch is three steps: the lead
is enrolled (`Contact`), the clock is read for `first_touch_at` (`Stamp`), and the database carries the update
out (`Touch`). The deadline and the timer may come between any two of them, and the run may end there;
`when` remembers on which side of the deadline each took place. A retry of the escalation follows a
`writeEvent` that threw, with or without having stored the event.

**OutcomeDetection.** Plays are handled independently, so the module has one. `batch`, `current`,
`known`, `base` are the local variables of a poller's pass (`sfEvents`, `event`,
`currentStatus`, `freshPlay.meetings_count_in_window`). Events of the log are counted per meeting.

**OAuthConnect.** A flow is one press of Connect and has one nonce; a landing is one request of
`/callback`, and the same redirect may land several times. `LookUp`, `Consume`, `Exchange`, `ReadConfig`,
`WriteConfig` are the callback's awaits; first-touch runs write the same row with the last two. `late`
remembers landings that came after their flow's tokens had been asked for, `leftOver` nonces whose
delete failed, which the code does not notice. The module follows `outreach-oauth.ts`;
`salesloft-oauth.ts` is the same code for another vendor.

**ConnectorSettings.** `status` and `draft` are the form's React state, `calls` its requests, `timers` the
four-second timers an answer starts and nobody cancels. `ServeTest` and `ServeSave` are the two endpoints,
`Lose` is a request that breaks off.

## 3. What the runs check

| Run | Instance | Shows |
|---|---|---|
| InboundWindow | 3 jobs, 2 events, 1 contact, 1 attempt, no stall, window 2, days 0..2 | `NoRepeatContact`, `DuplicateDeliveryHasPlay`, `ImplementsPolicy`, with `ContactInvariant` |
| InboundProgress | 1 job, 2 attempts, 1 stall, failing reads | `NoSilentDisappearance`, `ImplementsRow`, `JobsSettle` |
| LedgerTrail | 1 job, 2 attempts that may overlap, 2 projections under way, events refused or stored unnoticed | `FinishedHasEffects`, `TrailTruthful`, `EffectsAreTold` |
| EnrichmentOutcomes | 4 leads, 6 companies, 3 tries, failing reads | `OutcomesReported`, `SnapshotShowsRows`, `BestSourceWins`, `TierBySignals` |
| OwnerRouting | 3 plays of 2 contacts, up to 3 Salesforce leads, 2 owners, 2 overlapping rules, cap 1, 2 workers | `OverloadBounded`, `OwnerSynced`, `CounterBacked` |
| CrmRetries | 2 runs on one contact, 2 attempts | `FindFirst`, `RefusalIsFinal`, `KeepsPromise`, `EveryRunEnds`, with `CrmInvariant` |
| SepTokens | 2 runs, 1 health check, 2 attempts, 2 generations per grant | `EnrolledPerAttempt`, `LivePairStored` |
| SlaTimer | 2 timers, 1 escalation, 2 attempts, 1 stall | `BreachIsReal`, `SentIsDelivered`, `NeglectedIsMarked`, `EscalationsSettle` |
| OutcomeSafety | 2 meetings, 2 pollers, 2 closers | `AnnouncedOnce`, `OutcomeHasEvidence`, `BookingStands`, `ImplementsLog` |
| OutcomeSettling | 1 meeting, 1 poller, 1 closer | `OutcomeSettles` |
| OAuthLandings | 2 flows, 3 landings, 1 run | `LateLandingRefused`, `LandingTruthful`, `ConfigKept`, with `OAuthInvariant` |
| SettingsForms | 1 form, 4 requests | `BadgesEarned`, `FormSettles`, with `SettingsInvariant` |

`ContactInvariant`, `CrmInvariant`, `OAuthInvariant` and `SettingsInvariant` contain the modules'
type invariants. `LogInvariant`, `SlaInvariant`, `RoutingInvariant`, `SepInvariant`, `EnrichmentInvariant`,
`LedgerInvariant` and `PlayInView` are proved for all constants (section 5); each can be added to the INVARIANTS of
its module's configuration.

**What some properties say, and what they do not.** `BreachIsReal` is about what the timer can see: the
row. A lead that was contacted, or whose touch was stamped, in time may still be marked when the update
comes through late (`BreachedIsUncontacted`, `StampedIsNotBreached` in section 4). `OwnerSynced` allows the
lead to belong to another owner by now, but only to the one chosen by another play of the same contact that was
given the same lead (`OwnerStays` in section 4). `TrailTruthful` allows an action to have both succeeded and
failed, but only the last one of a run that got no further (`OneEnding`). `BestSourceWins` ranks
the sources that were asked; that a Clearbit without a match keeps Apollo from being asked is part of it.
`OutcomesReported` is about the kinds of events a provider leaves, not their number. `FindFirst` says which
runs may make a lead at all, `CrmInvariant` how many (an attempt each). `OverloadBounded` counts plays
that failed while `running`, too.

**Bounds and why they are enough.**

- *Deduplication.* Everything it is about concerns leads of one address, so one contact is enough. Two runs
  are enough for a pair to overtake each other, three for an admitted lead between two rejected ones; the
  second event lets a job be about something that is not a redelivery. Window 2 with three days has a day
  within the window, one on its edge and none beyond that differs from the edge. Retries and stalls of
  a job are in InboundProgress: one stall gives two runs of one job at the same time, a second attempt a
  retry after a throw. `NoRepeatContact` and `ImplementsPolicy` with any number of them are proved.
- *Ledger.* Keys of different jobs differ, so one job is enough; two attempts that overlap are the smallest
  instance in which a key is used twice. Backlog 2 lets two projections overtake each other.
- *Enrichment.* The companies lie on both sides of the limits of size and differ in which facts are known; the
  leads have each kind of address, form and title, such that some scores lie exactly on the limits of the two
  tiers (45 and 70). Three tries are the code's own number.
- *Routing.* Cap 1 with two workers is the smallest instance in which a stale snapshot matters, and three
  plays let the bound Cap + Workers - 1 = 2 be missed. Two of the plays share a contact, so each may find the
  lead of the other, take it over, or make a second one.
- *SLA.* A second timer is one whose query is older than the first one's mark. One escalation suffices, as
  nothing is shared between them; a second attempt and a stall are its ways to be repeated.
- *Salesforce.* Two runs can both find no lead. Two attempts have a first and a last one in each loop and a loop
  inside another; a third differs from the second in nothing.
- *Tokens.* Two generations per grant allow a token to be refreshed, used up and refreshed again.
- *Outcome.* Two of each process give every race between two writers of one row, and two meetings a batch
  longer than the status read for it.
- *OAuth.* Two flows of one organization and three landings give a repeated landing of one flow while another
  flow is stored; one run is a writer that is not a landing.
- *Settings.* Four requests let a test, a save and two late timers overlap.

`MaxAttempts`, `MaxStalls`, `MaxDay`, `MaxPosts`, `MaxGen`, `MaxTries`, `MaxSends`, `Attempts` and `Backlog`
are constants of the modules; the theorems do not need them to be small. `CHECK_DEADLOCK FALSE` is set in
every cfg: the instances run out of jobs, days, requests or token generations and then stop, as a system
without work does.

**Mutants.** Each property has a definition marked "Mutant:" beside the one it stands for, the way
the code would look after a plausible slip; with it TLC finds the property violated.

**Fairness.** `InboundPlay`: BullMQ hands out waiting jobs (weak fairness of `Start`) and a run's
awaited call returns or throws (weak fairness of `Step \/ Fail`); nothing makes a call succeed.
`OutcomeDetection`: the job schedulers start passes for ever, and a call repeated for ever does not
fail for ever (strong fairness of the poller's and the closer's steps). `SlaEscalation`: the timer
comes back every two minutes, its event and its update do not fail for ever; for the worker weak
fairness as above. `CrmCalls`: a request is answered, breaks or is ended by its timeout of 8 seconds.
`ConnectorSettings`: a request of the browser is answered or broken off by the browser (the API itself may wait
for HubSpot without a limit). No fairness makes a process
survive, a Slack call succeed or an enqueueing succeed.

## 4. Where documents and code disagree

These are claims of the repository's documents and comments that the code does not keep. Each is stated in its
module under the name given here; put into the named configuration (as an INVARIANT; `EveryBreachEscalates`,
`WorksAcrossRestarts` and `SaveMerges` as a PROPERTY), TLC shows a behaviour that breaks it.

| Claim | Configuration | Says | What happens |
|---|---|---|---|
| `SomeLeadKept` | InboundWindow | README.md:3 "Every lead qualified, routed, and enrolled" | two submissions of one contact in process at the same time reject each other as duplicates, and nobody is contacted |
| `DuplicateOfAnotherJob` | InboundProgress | ARCHITECTURE.md:233 "Idempotent, safe to retry" | a retried job meets the rows of its failed attempt and rejects its own contact |
| `EveryBreachEscalates` | SlaTimer | DEMO.md:114 "Every breach triggers an escalation" | the play is marked before the escalation is enqueued; a failure in between is never made up for |
| `BreachedIsUncontacted` | SlaTimer | `queue/workers/escalate.worker.ts`:64 "Lead Uncontacted — SLA Breached" | the lead is enrolled in time, and the timer looks before the play's row says so |
| `StampedIsNotBreached` | SlaTimer | as above | `first_touch_at` is before the deadline, and the update that brings it comes through after the timer's query |
| `OwnerStays` | OwnerRouting | `actions/action-executor.ts`:282 "assigned_owner_id is still written to play_instance so the dashboard can surface it" | another play of the contact finds the same lead and gives it to its own owner; the first play goes on naming its own |
| `WorksAcrossRestarts` | SepTokens | `routes/outreach-oauth.ts`:5-6 "so the connector works across restarts" | the first-touch node never reads the stored tokens and starts with the environment's used-up ones |
| `ApolloRegardless` | EnrichmentOutcomes | `nodes/enrich.ts`:227 "Runs regardless of Clearbit outcome" | when Clearbit fails or has no match the node returns before Apollo |
| `ApolloAdds` | EnrichmentOutcomes | `nodes/enrich.ts`:227 "additive, not exclusive" | Apollo's company replaces Clearbit's as a whole; facts only Clearbit knew are lost, and points with them |
| `SucceededHasRows` | EnrichmentOutcomes | `nodes/enrich.ts`:15 "data returned AND evidence rows written" | an answer without facts is announced as a success |
| `DecisionReplayable` | EnrichmentOutcomes | ARCHITECTURE.md:30 "any action can be replayed" | the upsert of the company fails (no unique index for its conflict target), so the snapshot lacks the company the score came from |
| `ExecutedOnce` | LedgerTrail | `actions/action-executor.ts`:7 "deduplicate if already executed" | only a keyed `action_proposed` inserts the row the check looks for, and proposals have no key |
| `OneEnding` | LedgerTrail | README.md:80 "action_execution_succeeded\|failed", "the event log is the source of truth" | the insert of the success is stored and its answer lost; the catch logs a failure beside it |
| `ThreeEvents` | LedgerTrail | README.md:80 "Every action produces three events" | only qualify and route write `action_proposed` |
| `ProposalsProjected` | LedgerTrail | ARCHITECTURE.md:540 "action_proposed → INSERT" | see `ExecutedOnce` |
| `AccountOnlyQualifies` | LedgerTrail | `workflows/inbound-lead/graph.ts`:67 "net-new or account-only match" | every match sets `_bypassQualification` |
| `MatchedOwnerAssigned` | LedgerTrail | `nodes/account-match.ts`:6 "route to AE directly" | the owner is put into the graph's state, and no assign_owner is executed |
| `OwnTokensOnly` | OAuthLandings | `repositories/connector-config.repository.ts`:109 "Called by OAuth callback routes" | the first-touch node calls it too, with tokens refreshed from those of the environment |
| `SaveMerges` | SettingsForms | `repositories/connector-config.repository.ts`:66 "Merges the provided config fields" | saving credentials removes the `portal_id` by which the worker finds the organization |
| `TimeoutIsFinal` | CrmRetries | `connectors/base.ts`:74 "never retry" | a timeout of the inner read arrives in the outer loop as status 408, and the POST is repeated |
| `RetriesOnlyListed` | CrmRetries | `connectors/base.ts`:60 "Retries on 429/503 and network errors" | `retryOn` is never read: all but 400, 401, 403 and 404 are retried |
| `OnlyConnectorErrors` | CrmRetries | `connectors/base.ts`:33 "The only error type allowed to escape" | `query()` is in no `withRetry`; network errors escape as they are |
| `TaskDueAtDeadline` | CrmRetries | `actions/action-executor.ts`:261 "due at the SLA deadline" | it passes `due_date`, `createTask` reads `dueDate`; the task has no date |

Others we met, which no definition states:

- With a failing read in `repositories/lead.repo.ts`:50 `NoRepeatContact` does not hold
  (`ReadErrors = TRUE` in InboundWindow shows it), nor with an attribution window longer than the
  re-enrollment window (`LongAttribution = TRUE`): the outcome jobs move `updated_at` of an old play
  past that of a later contact, and `getLatestPlayForEmail` then decides on the old one.
- ARCHITECTURE.md:58 "prevents duplicate processing": a redelivery before `webhook_received` is
  written is enqueued again. It is stopped by deduplication, not by the event id.
- ARCHITECTURE.md:351 and DEMO.md:93 name a play status `duplicate`; the executor writes `completed`.
- `queue/jobs/outcome-detection-poller.ts`:282 "hard cutoff is permanent": a poller that read
  `no_outcome_yet` before the closer's update books the closed play.
- A poller that dies between the signal and the event leaves a signal every later pass skips: that
  meeting is never counted.
- The poller only selects plays without an outcome, so a second or a late meeting found in a later
  pass is never seen; `meetings_count_in_window` is the count read before the batch plus one.
- `routes/api/connectors.ts`:69: a health check that meets an expired token uses up the stored
  refresh token and keeps the new pair to itself.
- `actions/action-executor.ts`:405 writes `cadence_id`, a column no migration creates: a Salesloft
  enrollment succeeds and its play fails.
- `nodes/route.ts`:28 reads the counter of `inbound-leads` whichever queue is chosen, while
  `incrementRoutingStateIndex` advances the chosen one's (DEMO.md:54 "Round-robin is fair").
- A failed play stays `running`: its owner's capacity is never given back, and the comment in
  `.agent/rules/queue.md` "If max retries exceeded, mark play as failed" has no code.
- `escalate.worker.ts`:25: a failed read of the play completes the job without message or event.
- `agents/qualification/rules.ts`:146: a lead with 45 points is a fit; ARCHITECTURE.md:397 says from 50.
  At :43 the title "coordinator" contains "coo" and counts as senior.
- Two landings of one flow that both look the nonce up before either deletes it both exchange the code
  (select and delete are two calls); only later landings are kept out.
- `db/migrations/006_policy_rules.sql`:24 "lower number = higher priority": `loadSlaMins` sorts that way,
  `loadAttributionWindowDays` (`queue/workers/inbound-lead.worker.ts`:91), `loadOutcomeDetectionConfig` and
  the validate node the other way.
- PUT `/api/policies/:id` drops the `sla_minutes` the settings page sends (`routes/api/policies.ts`:86), and
  the page shows the minutes of `conditions` (:55) where the worker takes those of `actions`.
- `routes/api/metrics.ts`: the submission is taken to be 15 minutes before the deadline whatever the policy
  says (:63); `sla_breached` leaves out late touches before the timer's pass (:55); `total_qualified` counts
  all plays (:80); the meeting rate counts bookings of open windows (:91; :93 says closed ones).
- `queue/workers/escalate.worker.ts` reads a policy of `rule_type` 'escalation', which the schema does not allow.
- The ZoomInfo and Apollo connectors turn timeouts into errors of status 0, which are retried; the HubSpot
  connector has no timeout.

## 5. What is proved

`tlapm` checks every proof; nothing is assumed but the named assumptions on the constants.

| Module | Theorems | Assuming |
|---|---|---|
| `InboundPlayProofs` | `TypeCorrect`, `NoSilentDisappearanceHolds`, `DuplicateDeliveryHasPlayHolds`, `PlayImplementsRow`, `EveryPlayIsARow`, `PolicySpacesContacts` | `InboundPlayAssumption` |
| | `InvariantHolds`, `NoRepeatContactHolds`, `PlayImplementsPolicy` | also `~ReadErrors`, `~LongAttribution` |
| `ActionLedgerProofs` | `LedgerHolds`, `FinishedAlwaysHasEffects`, `TrailAlwaysTruthful`, `EffectsAlwaysTold` | `LedgerAssumption` |
| `EnrichmentProofs` | `EnrichmentSafe`, `OutcomesAlwaysReported`, `SnapshotsAlwaysShowRows`, `BestSourceAlwaysWins`, `RejectionsExplained`, `DataNeverHurts`, `TiersAlwaysBySignals` | `EnrichmentAssumption`, `CompaniesAssumption` |
| `OwnerRoutingProofs` | `RoutingInvariantHolds`, `OverloadBoundedHolds` | `RoutingAssumption`, `~ReadErrors` |
| | `OwnerSyncedHolds`, `CounterBackedHolds` | `RoutingAssumption` |
| `CrmCallsProofs` | `CrmInvariantHolds`, `FindAlwaysFirst`, `RefusalAlwaysFinal`, `CallsKeepPromise` | `CrmAssumption` |
| `SepEnrollmentProofs` | `SepInvariantHolds`, `EnrolledPerAttemptHolds`, `LivePairStoredHolds` | `SepAssumption` |
| `PlayJobsProofs` | `RowPromise` | nothing |
| | `SlaInvariantHolds`, `BreachIsRealHolds`, `SentIsDeliveredHolds` | `SlaAssumption` |
| | `LogInvariantHolds`, `AnnouncedOnceHolds`, `OutcomeHasEvidenceHolds`, `BookingStandsHolds`, `DetectionImplementsLog` | `OutcomeAssumption` |
| `ConnectorConfigProofs` | `OAuthInvariantHolds`, `LateLandingRefusedHolds`, `LandingTruthfulHolds`, `ConfigKeptHolds` | `OAuthAssumption` |
| | `SettingsInvariantHolds`, `BadgesEarnedHolds` | `SettingsAssumption` |

**Deduplication** (`ContactInvariant`). Lead rows are inserted before they are looked for, so of two
runs between their two reads (`pc = "latest"`) at least one has seen the other, and every admitted
lead of the contact was seen (`RivalsSeen`). A run is admitted only past the window of the latest
play it saw; a play is updated only while younger than the window (`TimesOrdered`, where
`~LongAttribution` is needed), so the latest one is the one that matters, and admissions are a window
apart (`AdmissionsSpaced`). Enrollments happen on the day of admission. `RowsFollowSteps` ties the
rows to the steps and makes the rest inductive. `PolicySpacesContacts` is the promise of `ContactPolicy` alone
(`PolicyInvariant`), stated of its instance in `InboundPlay`.

**No lead disappears** (`PlayInView`). A run keeps its play watched (running, untouched) from the insert until
the one step that parks it, rejects it or contacts the lead, so wherever the run is torn off the play is in
one of these states; owners come with routing only and an escalation is a run's last step. Neither this
nor `DuplicateDeliveryHasPlay` needs the reads to succeed: the event id is recorded by a run that has both
rows, and rows and the events of their jobs stay (`PlaysStay`, `EmailKept`).

**The play as others see it** (`PlayRow`). The same invariant says where a run may be when its play is
watched, and so that each unguarded update of the row meets the status it takes for granted, however
often jobs are retried and runs overlap: every step of `InboundPlay` is, for every play, a step of
`PlayRow` or leaves its row alone (`StepIsRowStep`). `SlaEscalation` lets the row take these steps at any time;
what is proved of its timers therefore holds of the plays `InboundPlay` makes, whose verdicts stand
(`RowPromise`).

**Ledger** (`LedgerInvariant`). Proposals carry no key, so no projection ever inserts a row (`NeverARow`) and
nothing is taken for executed: this is why a finished play has had all its effects, and also why
`ExecutedOnce` fails. `PlaceOfRun` says for each place what the actions before the current one have
achieved and that later ones are untouched; with at most one event missing the run passes `report`
with its effect told. An insert that throws never lets its run go on to another action, so a success
that is stored unnoticed is contradicted by a failure of the action the run ends with, and of no other.

**Enrichment** (`EnrichmentInvariant`). `RunConsistent` says how far the run is with each provider (one not
yet asked is `Untouched`), `CompanyReady` that what `Merge` or `LoadExisting` chose is the best known. The
score of what was judged is then the score of the best source. `TierBySignals` follows from the points of
the signals: form and title together stay below each limit a signal is demanded for. `DataNeverHurts` is a
statement about the rules alone and not about the providers (Apollo's company replaces Clearbit's, section
4): each signal's points are non-negative and an unknown fact earns none, but for the gates.

**Outcome** (`LogInvariant`). The unique constraint gives each meeting to one poller; a poller that is
to decide on a meeting (`pc = "decide"`) is the only one that ever announces it (`SignalsClaimed`).
The count is below the signals because what a poller read was covered by other signals than its own
(`CountBacked`). The refinement needs both and `ClosersLogged`.

**SLA.** A timer past its query works on a play that was overdue and untouched in its row when it looked;
an update that comes through after that is recorded late, whenever the touch was made, and no step makes
a missed deadline good (`TimersJustified`).

**Routing** (`LoadsBounded`). Plays an owner has, together with the runs that still believe the owner
below the cap, are at most Cap + Workers - 1: when a run takes the snapshot that gives it hope the owner
has at most Cap - 1 plays, and at most Workers runs are active, one of which it is itself. A lead that was ever
assigned belongs to the choice of a run that assigned it (`LeadsAssigned`), although PATCHes of several plays
overwrite each other and arrive late; a run that records an owner has assigned its lead (`RunConsistent`).

**Salesforce** (`CrmInvariant`). `Progress` bounds the writes of a loop by its failed attempts, which gives
the bounds of the counters, and says that only a run that saw no lead comes to the POST, which gives `FindFirst`;
`made > 0` and `tasks > 0` behind the reads are the guards of `CrmSync`'s steps. A refusal ends both loops, as the inner
one throws it on as it is.

**First touch** (`SepInvariant`). Each enrollment at the platform is paid for with an attempt
(`Counted`); a pair a run has just received is known to that run alone until it stores it (`Exclusive`),
as health checks hold only pairs that were stored.

**OAuth** (`OAuthInvariant`). The tokens of a flow are asked for in the step that deletes its nonce
(`AskedFlowsClosed`), so a lookup that finds a nonce after that finds one whose delete failed
(`LandingsTraced`). Every writer of `connector_config` upserts the fields other than the tokens as it read them,
and nobody changes those, so a copy in a writer's hands agrees with the row in them (`ReadersCurrent`) even
when its tokens are stale; the tokens are those of a writer that stored them (`TokensOwned`).

**Settings** (`SettingsInvariant`). A busy form has a request under way (`BusyHasCall`). An answer on its way
has been earned (`RepliesEarned`). Each request starts at most one timer, so the timers and
the requests that may yet start one are no more than the form has sent (`AnswersCounted`, by cardinality).

Model-checked only: liveness (`JobsSettle`, `OutcomeSettles`, `NeglectedIsMarked`, `EscalationsSettle`,
`EveryRunEnds`, `FormSettles`), which is out of the prover's reach. Every other property of the runs has
a theorem.

## 6. Not modelled, and the plan

Order of what is left, most important first:

1. Compositions like that of `PlayRow`, proved, for the other steps of `InboundPlay` that a module of its own
   gives in detail (`AssignOwner` in `OwnerRouting`, `Enroll` in `SepEnrollment`).
2. The Salesloft path, as an instance of `SepEnrollment` (its last update fails, see section 4).
3. The policy rules (which of several rules a reader takes) and the dashboard's metrics, as functions
   against what the pages say they show.

Not modelled: the Salesloft, HubSpot and ZoomInfo connectors (HTTP clients whose answers are inputs of the
modules that use them; ZoomInfo is called by no node); Salesforce's token handling and its reads for account
matching and outcomes (inputs of `InboundPlay` and `OutcomeDetection`); loading of the outcome
configuration (numbers the modules take as constants); the REST reads (no state of their own);
`policies/policy-engine.ts`, which only its tests call.

Left out for good: rendering of messages and briefing cards, signature arithmetic, HTTP paging, the
pages of the dashboard other than the credentials form, row level security (enforced by PostgreSQL).
