# Switchboard: a verification project

TLA+ specifications of the parts of Switchboard (`src/src/switchboard/`) whose
correctness depends on the order in which things happen: the trend-to-content
pipeline with its human gates and its job worker; the morning plans with their
approvals, their dispatch to outside services and the spend caps; and around
them the trend scout, the shared memory, the review of drafts, the voices they
are written in, the morning cycle of the agents, the console's accounts and
weights, and the cost of it all. TLC checks them on small instances; TLAPS proves
safety properties of each of these components for any number of jobs, plans, workers,
trends, entries, people, cycles and (where it says so) overlapping transactions.

Paths below are relative to `src/src/switchboard/` unless they begin with `src/`.

## 1. The system

Switchboard is a set of marketing agents around one Postgres database. A FastAPI
process serves editors and administrators, a scheduler process runs feeders,
sweeps and the morning cycle, a CLI does the same by hand. They share nothing
but the database: every interaction is through rows, and every unit of work is
one SQLAlchemy session (`db/base.py:69`, `context.py`) that commits at its end.

| component | state it keeps | operations | it meets |
|---|---|---|---|
| trend lifecycle rules (`trends/lifecycle.py`, `db/enums.py`) | none | transition tables, open and terminal sets | everything that changes a trend, pipeline or job |
| content pipeline engine (`trends/pipeline.py`, `trends/repo.py`) | `trend`, `content_pipeline`, `content_job` rows | approve, decline, close, claim, generate, roll up, recover, review, regenerate, publish, dismiss, expire | generators, editor routes, scheduler, Emaki |
| content generators (`trends/generators.py`) | `external_ref` of a job, topics at hc-viral-hits | intake, poll, draft; or one call | the engine, outside services |
| editor routes (`api/routes.py`, `api/json_api.py`) | none of their own | HTML and JSON forms of every human action | engine, plans, memory |
| scheduler (`scheduler/scheduler.py`) | none | job sweep every 2 min, expiry hourly, feeders, morning cycle | engine, agents |
| plans and dispatch (`orchestrator/`) | `plan`, `plan_item` rows | draft, approve, approve all, reject, edit, dispatch | governor, adapters, humans |
| spend governor (`governor/`) | `spend_ledger`, `app_setting` caps | action gate, budget check, charge, save or reset caps | dispatch, metered clients |
| trend scout and trigger (`trends/scout.py`, `trends/repo.py`) | `trend` rows, new pipelines | scan, upsert, dedup, propose under a cap, perishability sweep, manual trend, trigger, dismissal | engine, editors |
| trend monitor (`trends/monitor.py`) | activity state of a trend | compute state, record activity | scout |
| shared memory (`memory/store.py`, `agents/research.py`) | `memory_entry` rows | fact-gated write, flag, verify claims, supersede, expire, sweep duplicates | all agents |
| artifact review (`api/json_api.py`, `plagiarism.py`, `artifacts.py`) | `preview_meta` of a job, stored texts | score, scan for originality and its webhook, image candidates, hero image | editors, LLM, Copyleaks |
| writing style and personas (`trends/personas.py`, `agents/analytics.py`) | `writer_persona`, `writer_style_profile` | rotate, create, distil, enable; refresh, activate | approvals, editors, analytics agent |
| agents and feeders, morning cycle and planner (`agents/`, `adapters/`, `orchestrator/`) | memory, row snapshots, the day's draft plan | sweep, observe in turn, roll up, report, rank into a plan | memory, governor, outside systems |
| users, auth and roles (`users.py`, `api/auth.py`) | `app_user`, the session cookie | provision at login, invite, set role | every route |
| trend detection and scoring (`trends/detector.py`, `trends/weights.py`) | `score_weight` rows | save, reset, latest row per key | scout, admins |
| expenditure and costs (`trends/pipeline.py`, `api/json_api.py`) | `cost` of a job, `pipeline_cost` | roll up at generation and publish, report | engine, warehouse |
| configuration, writer ranking, notifications, CLI, seeding, logging | see section 7 | | |

What is hard about it, and what each component must get right:

* **Sessions overlap.** The web process starts the job worker right after an
  approval while the scheduler starts it every two minutes; editors act on the
  same rows. A generation keeps its session open for minutes. The database runs
  READ COMMITTED, the identity map never refreshes a row it has loaded, and an
  UPDATE names only the changed columns and carries no condition on the old ones.
  A request that was closed must stay closed, and a job must be run by one worker.
* **Outside effects do not roll back.** An hc-viral intake is paid for, an Emaki
  push and a dispatched action are visible; the transaction around them may abort,
  its process may die, an answer may be lost and the POST retried.
* **Humans gate everything that leaves the house**, in two places in the
  pipeline (approve the request, approve the preview) and in three in a plan
  (the plan, the item, go-live), in any order and with no precondition on status.
* **Recovery is by time-out**: jobs left running are resumed after 5 minutes,
  reaped after 30, given up on after 45 minutes of polling. A slow worker looks
  like a dead one.
* **Caps are checked before and charged after**, by sessions that do not see
  each other's charges until they commit.
* **Nothing in the schema is unique** that the code treats as one: an open trend
  of a cluster, an open request of a trend, an active profile, the cost row of a
  pipeline. Code keeps them so, by reading first and writing later.
* **Agents read what others left**, hours or days ago: a finding must reach the
  plan of its morning, and a stale one must not pass for new.

The complete list, line by line, is under `hazards` in `PROJECT.json`.

## 2. How sessions are modelled

The two central specifications share one idea. A session is a record that holds the rows it
**loaded** and what it **makes of them** (`mine`).

* *Load* takes a snapshot of the committed rows. Validation (`validate_*`, the
  status checks of `publish_job`, `dispatch_plan`) is of what was loaded. For the
  pipeline the first action of a request loads and validates, a later one flushes.
* *Flush* sends the UPDATEs. It waits while another session holds one of the rows,
  and from then on holds them itself (`LockedRows`, `PipeLocked`; in a plan `HoldsItem`,
  `HoldsPlan`). Claims skip locked rows instead (`FOR UPDATE SKIP LOCKED`).
* *Commit* writes a column only if the session changed it relative to what it
  loaded (`Column`, `Written`). This is where updates get lost.
* *Abort* drops the session. What was done outside stays done.

`MaxOverlap` says how many sessions may be open at once. With `MaxOverlap = 1`
the system is serial: every question asked there is about the code's logic, with
crashes, time-outs and retries but no stale rows. With `MaxOverlap = 2` sessions
work on stale rows; what survives that is the part of the design that needs no
isolation. What holds serially and fails under overlap is reported as a finding.

In the pipeline the order in which a session takes its locks matters:
`approve`, `decline`, `close`, `expire`, `review` and `regenerate` update the
pipeline row early (the latter two log an event on it), the worker and `publish`
update it last (`PipeLast`). In a plan a dispatch locks an item's row when it marks
it, holds it through all its actions, and locks the plan's row last
(`dispatch.py:81`); a word on one item or on the plan flushes one row and commits; and
"approve all" locks the plan's row first and then each item's (`plans.py:119-128`).
The last two orders are opposite, so transactions can wait for each other in a circle
(`WaitsFor`, `Cyclic`). Postgres finds the circle and aborts one of them: `Victim`.

The other components are written with what their properties need of this. A scan
(`TrendScout`), a gate run (`MemoryStore`) and a handler (`ArtifactReview`) hold
copies from their beginning to their end; a step of `WriterVoice` is one statement,
because there the rule that READ COMMITTED looks again at a row it waited for
decides the outcome; `Console` and `Expenditure` split read from commit. Some
properties rest on the transactions not overlapping, since no constraint of the
database stands behind them. There a history variable (`overlapped`,
`memOverlapped`, `together`, `jostled`, `cycOverlapped`, `crowded`, `savedAtOnce`,
`summedAtOnce`) records that two did, and the property says what it still
promises then, often nothing. Such a property, like the serial ones of the central
specifications, is about sequences of whole transactions with failures between and inside
them. It does not catch what overlap does; what that is, as far as it was seen, is told in
section 5 and in the notes of `hazards`.

## 3. Modules

| module | models | main definitions |
|---|---|---|
| `Lifecycle` | `trends/lifecycle.py`, `refresh_rollup` | `PipelineNext`, `JobNext`, `TrendNext`, `Derived`, `Rollup` |
| `EditorialGate` | what the pipeline promises editors (abstract) | `Approve`, `Clear`, `Release` |
| `ContentPipeline` | one trigger request, its jobs, its trend | worker: `Sweep`, `StartJob`, `Intake`, `Pending`, `Preview`, `GenerationFails`, `Refused`, `MarkFailed`, `JobRaises`, `Die`; requests: `RequestOnPipeline`, `RequestOnJob`, then `Approve` ... `Publish`; `Commit`, `Abort`; time: `Lapse`, `Deadline` |
| `ContentPipeline_proofs` | its theorems: at any overlap and, in a second part, with one session at a time | |
| `ActionGate` | what the dispatch promises who approves (abstract) | `Speak`, `Perform`, `Miss`, `Report`, `Mishap` |
| `PlanDispatch` | plans, items, dispatch, caps | humans: `ApproveItem`, `RejectItem`, `ApprovePlan`, `ApproveAll`, then `HoldPlan`, `Flush`, `SaveWord`; `SetCaps`; dispatch: `OpenDispatch`, `Mark`, `Succeeds`, `Fails`, `FinishDispatch`; `BeginCall`, `EndCall`, `Midnight`; `Abort`, `Victim` |
| `PlanDispatch_proofs` | its theorems: at any overlap and, in a second part, with one session at a time | |
| `TrendScout` | a brand's trends and their trigger requests | scan: `StartScan`, `SweepScan`, `ScanCluster`, `SkipCluster`, `Propose`, `FinishScan`, `Abandon`; `StartExpiry`, `FinishExpiry`; editors: `AddManual`, `TriggerForm`, `TriggerApi`, `ApproveRequest`, `DeclineRequest`, `CloseRequest`, `DismissTrend`, `Work` |
| `TrendScout_proofs` | its theorems | |
| `MemoryStore` | shared memory | `Observe`, `FlagTrend`, `LoadPending`, `VerifyNext`, `EndGate`, `SweepExpired`, `SweepDuplicates`, `Lapse` |
| `MemoryStore_proofs` | its theorems | |
| `ArtifactReview` | what reviewers see of a draft and add to it | `Generate`, `RegenerateDraft`, `ReadText`, `FinishView`, `SubmitScan`, `RecordScan`, `FinishWebhook`, `FinishCandidates`, `FinishHero` |
| `ArtifactReview_proofs` | its theorems | |
| `WriterVoice` | persona rotation, style profile versions | `BeginApproval`, `CommitApproval`, `CreateHouse`, `CreateStudio`, `DistillWriter`, `SetEnabled`; `StartActivate`, `ClearRow`, `StartDistill`, `StartReplace`, `SetOwn`, `CommitProfile` |
| `WriterVoice_proofs` | theorems about the rotation and the profiles | |
| `MorningCycle` | a brand's mornings: sweep, agents, planner | `BeginCycle`, `Observes`, the metered `Read...` steps, `StartRefresh`, `FinishRefresh`, `AnalyticsRollup`, `Shortlist`, `Report`, `CommitAgent`, `FailAgent`, `MakePlan`, `AbandonCycle`, the feeders `TopArticles`, `DecayScan`, `ContentAudit`, and what other components leave in memory, `TrendScan`, `Dispatched`, `Previewed` |
| `Console` | accounts, roles, cookies; score weights | `BeginLogin`, `CommitLogin`, `SetRole`, `Invite`, `Logout`; `SetWeights`, `ResetWeights`, `CommitSave` |
| `Console_proofs` | its theorems | |
| `Expenditure` | cost of jobs, the pipeline's row, what screens add up | `ClaimPiece`, `DraftDone`, `ReviewPiece`, `PublishPiece`, `PublishSums`, `CommitCost`, `RefreshPay`, `Totals` |
| `Newsroom_proofs` | theorems about the costs and about the morning cycle | |
| `MCContentPipeline`, `MCPlanDispatch`, `MCDesk`, `MCNewsroom` | small instances | values of the constants; which component a behaviour exercises |

`Lifecycle` is extended by `ContentPipeline`, `TrendScout` and `Expenditure`;
`ContentPipeline` instantiates `EditorialGate`, and `PlanDispatch` `ActionGate`. The scout's `Work` is all it shows of
what `ContentPipeline` does in detail. `MCDesk` and `MCNewsroom` put components
side by side that share no rows: `part` is chosen at the start and says which one
runs, so one run checks each by itself and pays for no product.

The correspondence of each definition to source lines is the `map` of
`PROJECT.json`. Definitions whose comment begins `(mutant:` are deliberate
mistakes; no action uses them, they exist to show that the properties notice.

### ContentPipeline

`pipe`, `trend` and `job` are the rows. A job's `topic` stands for its
`external_ref` (which attempt's intake made the topic), `content` for its preview
(which attempt's draft it is), `archived` for the drafts in its history.
`lapsed` and `overdue` are facts about time: the row is behind the cutoff that
applies to it; its external pipeline has been running for over 45 minutes.
`intakes` and `pushes` count what was done outside. `reviewed` and `approvals`
are history variables that only properties and proofs read.

`Sweep` is the claiming transaction of `run_job_sweep` (queued, stuck, dead) with
its roll-up for the jobs it reaps; the claimed ids are `todo`, in the worker's
memory. `StartJob` opens the session of `_run_job`, which ends in exactly one of:
a preview, a failure, "pending" (poll again later), a refusal by `mark_job`
(`Refused`) or another exception (`JobRaises`), both leading to
`_mark_failed_safely` (`MarkFailed`). Every outcome includes its roll-up.

Two places need explaining. `Approve` has a second disjunct that commits an
approved pipeline with no jobs: the content types are validated after the status
is set, and the HTML route turns the error into a response inside its session,
which then commits. `Publish` pushes first; if the trend cannot be completed
afterwards, the JSON route rolls the rows back (third disjunct) and the HTML
route commits them (second).

Not in this module: several pipelines of one trend, creating one and suppression
in `approve_and_start` (`TrendScout`), the cost roll-up (`Expenditure`), a deleted
trend, the claim limit of 5 (a pipeline has at most 4 jobs), the role check (a
request that fails it changes nothing), prompts and wording.

### PlanDispatch

`OpenDispatch` loads a plan and its approved items; `Mark` is the pair of gates
(`check_action`, then `check_budget` for a live item) and the mark they leave;
`Succeeds` and `Fails` are the end of the action, with how many times it was
performed outside (`landed`) and how many answers were lost on the way;
`FinishDispatch` marks the plan and commits statuses and charges together. An
action that raises after its effect is reported as failed and is not charged.
`BeginCall` and `EndCall` are the metered calls agents make outside a dispatch,
checked with a rough estimate and charged what they came to. `Midnight` starts a
new day of the ledger. `grants` is history: go-live approvals that committed.

Of the rows, `WantsItem` and `WantsPlan` say which one a transaction is to update next: items
in order of rank, the plan before or after them. A dispatch of a plan that it loaded as
`dispatched` changes nothing on the plan's row and takes no lock on it. A dispatch that ends
as the victim of a circle has performed what it has performed: its items read approved again
and the next dispatch performs them once more.

Not in the model: "notify" items (they post to Slack whatever `dry_run` says,
`dispatch.py:86`), edits of an item, memory entries, cap-hit flags, two of the
three metrics (each is checked and charged like the one here). How a plan comes
about is `MorningCycle`.

### TrendScout

`trends` and `requests` are the rows, `tx` the transaction each process has open
with its copies. A cluster of articles is its key; whether its score clears the
threshold, and whether a trend's activity fades, are facts chosen freely. A scan is
ONE transaction over all its searches and LLM calls: it loads the trends first,
expires the perished, updates or inserts clusters as they are scored, proposes up
to its limit while the count of open requests allows, and writes from its copies.
`TriggerForm` and `TriggerApi` differ in what they commit when the approval that
was asked for is refused. `seen` is the dedup window, `perished` the expiry date.

At its end a scan suppresses exactly the monitored trends whose activity fades
(`Monitor`), and lifts it from the others; a human's override of that
(`suppressed_by`) is a column that no code sets.

Not in the model: the text of dossiers, the alerts (sent before the scan commits,
`scout.py:456`), how activity is measured.

### MemoryStore

An entry is about a topic: a statement for a claim or a fact, a trend for a flag,
a group (brand, type, source, kind) for a snapshot. `Observe` applies `write`'s fact
gate; `LoadPending` and `VerifyNext` are the research agent, one session over all
its searches; `SweepExpired` and `SweepDuplicates` are the 5:45 job. `created_at` is
the start of the transaction that wrote the row, hence `starts`: rows may commit
out of that order, which is what `NewestServed` is about.

### ArtifactReview

`drafts` holds a job's attempt, the key its text is stored under (the second it
was written in), and `meta`: quality, scan, hero image and candidates, which are
ONE column. `quality` is the text that was scored, which is what lay under the row's key
when the reader asked (`ReadText`, `_ensure_quality`), not necessarily the row's own: two
texts of one second have one key. Every handler copies the column, calls the outside, and assigns the
whole. `SubmitScan` is the call to Copyleaks, `RecordScan` the commit that
remembers it, `StartWebhook`/`FinishWebhook` the answer that arrives by itself.

### WriterVoice

An approval gives its jobs the persona whose turn it is (`personas.py:66`): the number
of the brand's pipelines that have one, modulo the enabled personas in order of id.
Place n of that order is the persona with n enabled ones `Before` it.
Personas are created, distilled, enabled and disabled beside it.
Of the style profile's versions one is to be active: `Activate` clears the others
row by row and sets its own, a refresh distils a new version when the active one
is old. Steps are statements, each seeing what is committed when it begins.

### MorningCycle

A cycle sweeps memory, lets the agents observe in order (each in its own
transaction, each ending in a commit or a rollback that the next does not mind),
then ranks candidates from flags, topics and reports into the day's draft plan,
12 at most (`MaxItems`). A note is a memory entry told apart by kind, day and run.
`wired` is which outside systems answer at all; an agent none of whose systems
answers is skipped. Metered queries ask the governor, then charge. A day stands for
24 hours, so an entry as old as a window is long may be inside it or not.

The planner's own queries have limits, 50 flags and 50 context entries, 10 reports and 10
drafts (`MaxEntries`, `MaxReports`), and return the newest (`Answers`). Topics are made
unique in the order of the answer and then cut to five (`MaxTopics`) before any score is
looked at (`Deduped`, `planner.py:158-167`); the plan is cut by score (`Top`). A viral topic
scores 55, an ordinary one 50, so an older viral topic can be cut for five newer
ordinary ones although the plan has room. Other components write what the planner reads
too: flags of the trend scan and of the governor, previews, the digest a dispatch assembled.

Abstractions, all named in the module: LIMITs of the agents' own queries are not reached; a
finding of a kind is one note a run, of one severity per kind; a cycle does not span
midnight; equal scores rank in any order; an exhausted Ahrefs quota looks like an
unavailable system; a query scans as many bytes as estimated; newsletter and social drafts
come from the reporting agent only, not also from a live dispatch; notes that nothing reads,
and the bytes of the style-profile query, are left out.

### Console

A login provisions the account and copies role and brands into the cookie;
`SetRole` and `Invite` change the account only. `rooted`, `scoped`, `founders` are
history: who got admin from whom, which brands were given, who came first. The
weights are an append-only table in which the latest row of a key counts, and
`effective_at` is the start of the transaction.

### Expenditure

A job's `cost` is what its last attempt cost; the transaction that generates or
publishes it sums the jobs into the pipeline's row, which it looks for first. Prices are
kept to six decimals; the human equivalent and the savings are rounded to cents (`Cents`,
either way on a tie, as floats decide), and are NULL without a pay row, or with a rate for
words and no words. `metered` and `lost` are history: what all drafts that came
back were charged, and whether one of them was rolled back or generated again.
`Totals`, `Reported` and `LedgerCost` are what the screens show. Which transaction
may hold a job is `ContentPipeline`'s subject: here one at a time does. The screens'
LIMITs, chart buckets and the table of prices are left out.

## 4. What is checked

| run | instance | what it shows |
|---|---|---|
| `serial` | 2 jobs (hc-viral and one-call), 2 workers, 1 request, serial, 1 fault | a dead request stays dead (`ClosedStaysClosed`) and has no live job (`ClosedHasNoLiveJobs`); the status follows the jobs (`StatusShowsJobs`); what is published is the attempt that was approved (`PublishedAsReviewed`); published and cancelled are final (`SettledJobsStay`) |
| `live` | 1 hc-viral job, 2 workers, 1 request, 2 sessions at once, 1 fault, fair | the human gates hold on stale rows (`HumanGates`); the pipeline implements `EditorialGate` (`ImplementsGate`); a queued or running job leaves both states (`JobsSettle`) |
| `dispatch_serial` | 2 items of different cost, 3 caps, 2 go-lives each, 1 fault, 2 posts, serial | go-live only by a human (`OnlyChosenGoLive`); once per go-live and fault (`OneEffectPerGo`); the day's cap (`DispatchWithinCap`); the dispatch implements `ActionGate` (`ImplementsActionGate`), so that done and live means performed (`DoneMeansDone`) |
| `dispatch_live` | 2 items, 2 sessions at once, 1 fault, fair | every circle of waiting transactions has an approve-all in it (`OnlyApproveAllCrosses`); a dispatch ends, by itself or as the victim of such a circle (`DispatchEnds`) |
| `desk` | scout: 1 cluster, 2 trend and 2 request rows, a cap of 1, a scan and an editor in turn | a cluster is one open trend, a trend has one open request (`OneOpenEach`); what waits can be approved (`PendingIsAlive`); what is worked on was approved (`WorkIsWanted`); the scout keeps to its cap and to trends nobody acted on (`ScoutHoldsBack`); final is final (`FinalIsFinal`) |
| | memory: 2 overlapping writers, 2 topics, 3 entries | a verified fact comes from a confirmed claim (`FactsAreConfirmed`); a claim is promoted once, a trend flagged once (`NothingTwice`); the newest snapshot is served whatever the sweep removes (`NewestServed`) |
| | review and storage: 2 drafts, 2 reviewers, 2 attempts, 2 scans, 2 seconds | the text shown is the job's own attempt and the score is that text's, except where two were stored in one second (`ShownIsOwn`); the latest scan's answer counts (`ResultIsLatest`) |
| `newsroom` | rotation and profiles: 2 desks, 3 versions, personas, approvals | personas take turns (`RotationIsFair`); the voice chosen last speaks (`ChosenVoiceSpeaks`); some voice always does, whatever overlaps (`VoiceServed`) |
| | cycle and refresh: 15 wirings, up to 9 days and 3 cycles, plans of 2 items, 1 of them a topic, queries of 4 entries and 2 reports, a cap of 4 bytes; cycles overlap in part `refresh` | what panels show is one query's answer (`SnapshotsAreWhole`); a digest is proposed on recent sessions (`DigestInputsRecent`); what the agents found is in the plan unless better items fill it or a limit cut it first (`PlanSeesTheDay`); the scan cap (`ScanCapHolds`); Ahrefs is paid once a week (`PaidOnceAWeek`) |
| | users: 3 people, 2 let in, 1 configured admin, 2 brands; weights: 2 knobs, 2 editors, 3 saves | admin and brand rights go back to someone entitled to give them (`AuthorityIsGranted`); the score uses what was asked for last (`WeightsAsAsked`) |
| | costs: 2 jobs, 2 transactions, 3 attempts, a rate for articles and one for words | screens report what the last drafts cost, all that was metered unless one was lost, and savings to half a cent (`CostsAddUp`) |
| `reopen`, `double`, `olddraft`, `stale`, `dispatch_twice`, `scout_refused` | smallest instance that shows it | see findings |

**Why the bounds are enough.** Two jobs give every interaction of siblings in a
roll-up, which depends only on the *set* of statuses; one of each transport covers
both generation paths. Two workers are the web fast path and the scheduler. One
request slot is reused for every kind of human action in sequence, and with a
worker overlaps it. Two attempts allow one regeneration, the first place where
history matters. Two items with a cap that fits one of them make the budget
bind; two go-lives let an item be sent out, changed and sent again. One fault
places a crash at every point of every behaviour. The bounds are constants
(`MaxAttempt`, `MaxEffects`, `MaxFaults`, `MaxGrants`, `MaxLedger`, `MaxPosts`)
and appear as guards; `MaxPosts` is the code's `_MAX_ATTEMPTS`, lowered. In
`dispatch_live` nothing is live because row locks do not depend on it. The pipeline
runs, `desk` and `newsroom` do not check deadlock: once everything is published or
closed and the bounds are used up there is nothing to do.

In `desk` one cluster is enough because clusters meet only in the cap and two trends
of the same cluster are what dedup is about; a cap of 1 binds at the second
request, and `MaxTogether = 1` because the properties of the scout promise nothing
once transactions overlap. Three entries are a claim, the fact made from it and one
to collide with, or three snapshots to collapse; two seconds and two attempts let
keys collide or differ. Writers, topics and reviewers are symmetric; no property
distinguishes them and no liveness is checked there. In `newsroom` each wiring
pairs systems whose findings meet in a query, a window or a cap: five days for the
digest's two windows of two, nine for the Ahrefs week, one day where cycles overlap.
Two items of plan, one topic, four entries and two reports to a query, and four bytes of
cap with queries of one and two, make each of these limits bind. A cent of four units has
a half and a quarter to round, which is what the two pay rates lead to. Three people are a giver, a receiver and someone not let in. Rotation
behaviours end where approvals overlap; the profile part lets desks overlap.

**Fairness.** `FairSpec` of the pipeline: sweeps keep coming
(`scheduler/scheduler.py:81`, every 2 minutes, and again after each approval), a
call returns or times out, an open session ends, time passes. Weak fairness is
enough for `JobsSettle`. In `PlanDispatch`, whoever waits for a
row may see it freed and taken again; Postgres queues the waiters, hence strong
fairness for the next statement of each open transaction (`GoesOn`), and it finds circles
after `deadlock_timeout`, hence weak fairness for `Victim`. Nothing obliges a human to
act, or a fault to happen.

Every property of a passing run comes with a mutant of the code (`mutants` in
`PROJECT.json`) under which TLC finds it violated.

## 5. Findings

1. `reopen`: a worker commits `failed` or `previews_ready` over a pipeline that
   was closed while it generated ("closed pipelines stay closed", `pipeline.py:261`).
2. `double`: two workers generate the same job, because jobs of one batch wait
   their turn past the 5-minute cutoff ("makes double-processing impossible",
   `pipeline.py:7`).
3. `olddraft`: regenerating an hc-viral job returns the draft that was sent back,
   because `external_ref` is kept (`repo.py:512`).
4. `stale`: with jobs `{failed, rejected}` no branch of the roll-up applies and the
   pipeline says `generating` for good (`repo.py:397`).
5. `dispatch_twice`: dispatching a plan twice at once performs an item twice on one
   go-live ("one real push per approved item", `src/docs/prd.md:306`).
6. `scout_refused`: a trigger by form with approve-at-once, refused because the trend
   is suppressed, leaves its pending request behind, counted by the scout's cap
   ("nothing is created if the request will be refused", `api/routes.py:1496`).

Seen on the way, without a run of their own. Most are effects of overlap that the
models contain and that the properties' guards (section 2) exclude:

* *Dispatch and caps.* Dispatches of two plans at once can exceed the day's cap,
  since `check_budget` sums what is committed and its own charges ("hard-caps spend",
  `src/README.md:25`). A metered call is checked with a rough estimate and only
  against the day's cap, so it can end above it (`llm.py:58`). The per-run cap is
  per item.
* *Words and dispatches at once.* `approve-all` takes the plan's row and then the items, a
  dispatch the items and then the plan: Postgres aborts one of two that wait for each other,
  and when that is the dispatch, what it performed outside is forgotten by the rows, which read
  approved, and is performed again by the next dispatch. A rejection that commits
  while an earlier item of the dispatch runs does not stop the item, although "a rejected item
  never executes" (`src/docs/prd.md:404`); an item re-approved live during a dry run ends as
  done and live unperformed (`DoneMeansDone` holds serially only). An approve-all that
  loaded an item as proposed writes "approved" over a rejection committed meanwhile, and if
  a go-live approval committed in between, its `dry_run` of false stays (`routes.py:338`,
  `plans.py:97`): the item ends approved and live.
* *Metered reads.* `_guarded_query` uses the shipped per-run cap, not the admin's
  (`adapters/analytics.py:37`); two queries are checked before either is charged,
  and a refusal of the second leaves the first uncharged; the search export is not
  checked at all; an agent's rollback drops its recorded spend, though "reads count
  against the governor's caps" (`adapters/base.py:78`).
* *Trends.* Overlapping scans and requests insert twins. `expires_at` is never
  refreshed; no request lets a human lift the suppression that `pipeline.py:67` asks
  to lift; dismissing a proposed trend leaves its request pending and counted; closing a
  request leaves its trend `approved`. The scan feeder catches exceptions inside the
  session, so a scan that raises commits what it had flushed.
* *Memory.* "NOT VERIFIED" on the first line counts as verified (`research.py:74`);
  the gate's choice of newest-first may starve older claims; entries that are not
  snapshots of one thing are collapsed by the duplicate sweep when their group
  agrees; lapsed entries are served until the sweep.
* *Review.* Two drafts of a brand and type stored in one second share a key: a reviewer
  reads the other's text, and the score on the row is the other's too
  (`artifacts.py:40`, `json_api.py:753`). A Copyleaks answer that arrives before the submitting request commits is
  overwritten by "pending" for ever; a late answer to a previous attempt's scan is
  accepted; overlapping handlers drop each other's additions to `preview_meta`
  (`json_api.py:745`), and a view that overlaps a regeneration puts the old draft's score on
  the new row.
* *Voices.* Two overlapping activations leave two versions active, and readers take
  the higher. Explicit picks also advance the rotation, which goes by
  pipelines, as the comment says (`personas.py:64`), not "by how many jobs already carry a
  persona", as the docstring does (`personas.py:55`). An old version that is
  activated again is replaced at the next observe.
* *Mornings.* Flags up to three days old are proposed again each day and may push
  the digest out of a full plan; five new ordinary topics keep an older viral one out of a
  plan with room for it (`planner.py:167`); the brief is posted before the plan commits;
  hc-viral's ready ids come from the oldest of the active queue snapshots, contrary
  to the comment at `agents/analytics.py:652`.
* *Console.* Two overlapping first logins both become admin; the last admin can
  be demoted; a changed role takes effect at the next login; an overlapping save of a
  weight may be skipped as unchanged and lost.
* *Costs.* Two transactions that sum at the same moment insert two rows ("Idempotent
  per pipeline", `pipeline.py:376`), after which every roll-up raises and is caught:
  the cost stays as it was and counts twice. The row is documented as "summing this
  pipeline's metered LLM spend" (`pipeline.py:340`), but a draft's cost takes the place of the
  previous attempt's (`pipeline.py:205`), and that of a draft whose transaction is rolled back
  is never written: both remain in the spend ledger only, if there. `CostsAddUp` says
  that nothing else is missing.

## 6. What is proved

TLAPS proves, with no bound on jobs, items, workers, sessions, entries, people or
faults and from no assumption but the types of the constants (`PipelineAssumption`,
`DispatchAssumption`, `ScoutAssumption`, `MemoryAssumption`, `ReviewAssumption`,
`VoiceAssumption`, `ConsoleAssumption`, `ExpenditureAssumption`, `CycleAssumption`,
`WiringAssumption`), the following. The theorems marked "serially"
also assume `MaxOverlap = 1`; the findings show that they need it. Those marked "alone"
state a property that itself promises nothing once two transactions have overlapped
(section 2): their proofs cover every overlap and say what is lost by it.

| theorem | says |
|---|---|
| `TypeCorrect` | `Spec => []TypeOK` of the pipeline |
| `HumanGatesHold` | `Spec => []HumanGates` |
| `PipelineImplementsGate` | `Spec => ImplementsGate`, i.e. `Gate!Spec` |
| `DispatchTypeCorrect` | `Spec => []TypeOK` of the plans |
| `HumansChooseLive` | `Spec => []OnlyChosenGoLive` |
| `CirclesNeedApproveAll` | `Spec => []OnlyApproveAllCrosses`, at any overlap |
| `NothingLivesInTheClosed` | serially, `Spec => []ClosedHasNoLiveJobs` |
| `StatusFollowsJobs` | serially, `Spec => []StatusShowsJobs` |
| `ReviewedIsPublished` | serially, `Spec => []PublishedAsReviewed` |
| `ClosedForGood` | serially, `Spec => ClosedStaysClosed`, an action property |
| `SettledForGood` | serially, `Spec => SettledJobsStay`, an action property |
| `OncePerGo` | serially, `Spec => []OneEffectPerGo` |
| `DoneIsDone` | serially, `Spec => []DoneMeansDone` |
| `DispatchInCap` | serially, `Spec => DispatchWithinCap`, an action property |
| `DispatchImplementsGate` | serially, `Spec => ImplementsActionGate`, i.e. `Gate!Spec` |
| `GateKeepsItsWord` | `ImplementsActionGate => [](OneEffectPerGo /\ DoneMeansDone)`, whatever overlaps |
| `ScoutTypeCorrect` | `ScoutSpec => []ScoutTypeOK` |
| `OneOpenEachCorrect` | alone, `ScoutSpec => []OneOpenEach` |
| `PendingIsAliveCorrect` | alone, `ScoutSpec => []PendingIsAlive` |
| `WorkIsWantedCorrect` | alone, `ScoutSpec => []WorkIsWanted` |
| `ScoutHoldsBackCorrect` | alone, `ScoutSpec => ScoutHoldsBack`, an action property |
| `FinalIsFinalCorrect` | alone, `ScoutSpec => FinalIsFinal`, an action property |
| `MemoryTypeCorrect` | `MemorySpec => []MemoryTypeOK` |
| `FactsHold` | `MemorySpec => []FactsAreConfirmed`, at any overlap |
| `NewestHolds` | `MemorySpec => []NewestServed`, at any overlap |
| `NothingTwiceCorrect` | alone, `MemorySpec => []NothingTwice` |
| `ReviewTypeCorrect` | `ReviewSpec => []ReviewTypeOK` |
| `OwnShown` | `ReviewSpec => []ShownIsOwn` |
| `LatestResult` | `ReviewSpec => []ResultIsLatest` |
| `VoiceTypeCorrect` | `VoiceSpec => []VoiceTypeOK` |
| `RotationCorrect` | alone, `VoiceSpec => []RotationIsFair` |
| `VoicesServed` | `VoiceSpec => []VoiceServed`, at any overlap |
| `ChosenSpeaks` | `VoiceSpec => []ChosenVoiceSpeaks` |
| `ConsoleTypeCorrect` | `ConsoleSpec => []ConsoleTypeOK` |
| `AuthorityHolds` | `ConsoleSpec => []AuthorityIsGranted` |
| `WeightsHold` | `ConsoleSpec => []WeightsAsAsked` |
| `CostTypeCorrect` | `CostSpec => []CostTypeOK` |
| `CostsAddUpCorrect` | alone, `CostSpec => []CostsAddUp` |
| `CycleTypeCorrect` | `CycleSpec => []CycleTypeOK` |
| `SnapshotsWhole` | `CycleSpec => []SnapshotsAreWhole`; its second conjunct at any overlap |
| `DigestIsRecent` | `CycleSpec => []DigestInputsRecent`, at any overlap |
| `PlanSeesAll` | alone, `CycleSpec => []PlanSeesTheDay` |
| `CapHolds` | alone, `CycleSpec => []ScanCapHolds` |
| `PaidOnce` | alone, `CycleSpec => []PaidOnceAWeek` |

*Types.* `TypeOK` of the pipeline is strengthened by `AboutJob` (a session about a
job names one); that of the plans by `OwnMark`: an item reads `dispatched` only in
the session now acting on it. Without `OwnMark` a commit could, as far as the types
go, leave that mark in a row, and `TypeOK` says no row ever holds it.

*The gates.* `HumanGates` is about committed rows, but rows are overwritten from
copies of any age, so it is not inductive. `GateInv` adds what every open session
knows of its rows: a row it loaded still exists, a loaded `approved` was
cleared by an editor, a loaded `published` went out, and only a review of that
job writes `approved` where none was. These facts are monotone (approvals,
reviews and pushes are never taken back), so a stale copy still tells the truth
about them. That is why the gates survive overlap while `ClosedStaysClosed`,
which is not monotone, does not.

*The abstraction.* Under the mapping `opened <- approvals > 0`, `made`, `cleared`,
`out` as the jobs that exist, were reviewed, were pushed, a commit of an approval
is `Approve`, of a review `Clear`, the push inside `Publish` is `Release`, and every
other step stutters (`QuietSteps`, `CommitAtGate`, `GateStep`).

*Go-live.* `GoInv` says, of every row and of every copy a session holds, that a
`dry_run` of false goes back to a go-live approval, unless the session is that
approval and has not committed; that only `approved` is ever written over another
plan status by a human; and that a dispatching session has a plan that was
approved and items of that plan only. `Kept` (grants only grow, no plan becomes a
draft again) is the monotonicity that carries it across other sessions' commits.

*Circles.* `InOrder` says what each transaction may hold while it waits: a dispatch has not
taken its plan's row, and every item it holds comes before all that it has left, since it takes
them in order of rank; a human who is not at an approve-all holds nothing before the
commit. Suppose then a circle without an approve-all that holds its plan. Everyone in it
is waited for, so is a dispatch that holds an item (`Holder`) and, being in the circle, wants
one. Of the items that are wanted in it one comes first; who wants it holds an earlier one,
which somebody else in the circle wants: a contradiction (`CircleHasApproveAll`).
`DispatchEnds` itself stays with TLC.

*The pipeline, serially.* A session that is alone has loaded what is committed, so
its commit writes exactly what it made of the rows; a lost update is impossible and
each handler can be judged by itself. `SerialInv` is `Alone` (one session at most),
`ClaimsExist` (a claimed job exists), `RowsOK` of the committed rows and `SessionOK` of
the open session: before the flush it has what is committed (`OpenOK`), after it
what the commit would leave is again in order (`FlushedOK`), final statuses included.
`RowsOK` holds three facts. `Shown` relates the status to the jobs more tightly than
`StatusShowsJobs`: a roll-up that the transition table refuses is dropped, so the
next status depends on which statuses are possible together with which jobs.
`AsReviewed` ties a published attempt to its review, `AbsentIsBlank` says that a job
that does not exist has no history. `RollupShows` is the lemma about the roll-up that
every outcome of a worker goes through.

*The dispatch, serially.* The heart is in `RowsOK`: an approved live item is `Due`,
i.e. performing it once more still keeps effects within go-lives and faults, unless
a dispatch now open is through with it (`Through`). A crash between the effect and the
commit leaves it due again only because the crash is itself counted. `SessionOK` says
of a human's copies that they can be committed (`HumanOK`), of a dispatch which items
are left, done or being acted on (`DispatchOK`), and that what it charged plus the
live item it is acting on fits the day (`InCap`), which `Midnight` only relaxes.

*The dispatch at its gate.* `OneEffectPerGo` counts; `ActionGate` says in which order
things may happen: a go-live is used up by one attempt, an attempt that failed waits
for another word, and only a lost answer or a lost report lets an action be repeated.
The mapping reads `Standing` of an item from its committed row together with what
an open dispatch says of it, because the row still says "approved" until the whole
dispatch commits: it is `go` until the dispatch has it done or failed, then `tried` or
`missed`, and `done` or `silent` once that is committed. A commit of an approval,
a rejection or of `approve all` is `Speak`, a refusal or an outcome is `Perform` or `Miss`,
the commit of a dispatch is `Report`, its abort `Mishap`; loading, marking, calls, caps
and midnight stutter (`Unseen`, `GateStep`). `LiveOK` is what the mapping needs beyond
`GoInv` and `SerialInv`: an item that an open session sets live was loaded as it is
committed and is left approved and live, so that `goes` and the word change in one
step. A mutant that leaves a failed item approved, for the next dispatch to try again,
keeps every other property of the run and breaks this one. `GateKeepsItsWord` says what
the gate is worth by itself: its invariant `GateKeeps` (a word that is `go` leaves room
for one more performance) is proved of its steps alone, so whatever implements it
performs once per go-live and mishap and reports as done only what was performed.

*The scout.* `DeskInv` is about the committed rows and about what the one open
transaction would leave behind if it committed now; it is needed in this form because a
scan holds its copies over many steps and every step works on the result of the last.
Of rows, `RowsOK` asks five things. `Keyed`: a trend that exists has the key of a cluster.
`OnlyNewestOpen`: of the trends of a cluster all but the one with the highest id are done
with. This is stronger than `OneOpenEach` and is what makes it inductive: a scan matches a
cluster with its newest trend only, and would open a second one beside an older
open trend that it does not see. `Owned` and `OneLive`: a request has a trend, and
a trend one live request; one that failed at generation is not open but can be started
again, so it too has to be counted. `Aligned` relates the status of a request to that of its
trend. `BuildsOnly` says which trend may be collecting its dossier, none in committed
rows, which is what `PendingIsAlive` needs beside `Aligned`; `Numbered` says that rows appear
in the order of their ids, hence that a new trend is the newest of its cluster. `SessionOK` says what a
transaction knows at each of its steps: that committing now keeps rows in order, takes
nothing out of a final status (`KeepsFinal`) and has proposed within the cap and only
what was free before (`HeldBack`); how much of the cap a scan has left (`ScanKnows`); and
which row an editor has validated (`EditorKnows`). `HeldBack` counts
requests, so a proposal is one step in a lemma about the cardinality of the open ones;
`HasGreatest` (a non-empty set of ids has a greatest one) is the place where
induction would be used: it follows from the library's well-foundedness of strict inclusion
on finite sets.

*The memory.* Agents insert rows and supersede each other's while none of them
waits. `GateInv` says why no verified row slips in: an id is given out once, so the
rows of a session are its own until it commits (`FreshIds`); what the gate run has yet
to judge are claims (`TodoClaims`); a session supersedes claims and flags only
(`GoneKnown`); and a verified row that is not committed goes back to a confirmed claim
that the same session supersedes, in the same commit (`MineConfirmed`). The type and
topic of a row never change, so what a session knows of them stays true whatever
commits beside it. `NewestServed` follows from the choice the duplicate sweep makes
in one statement, and from `GoneKnown`: no agent's session supersedes a snapshot.

*Claims and flags.* `OnceInv` extends `NothingTwice` from what is committed to what a
session has written and not committed: no two of its facts come from one claim, none comes
from a claim that a committed fact comes from (`PromotedOnce`), nor do two flags that
it has not superseded name one trend (`FlaggedOnce`). The claim a fact was verified from is
superseded with it, so `todo \ gone`, what the gate run has yet to look up, has no fact;
this is where the run's own copies matter. Sweeps run between the steps of a session and
only take entries away. Being alone (`Alone`) is needed where a session loads: two gate
runs that load the same claim both promote it.

*The review.* `TextKept` holds at any overlap: a key is the second of writing, so a
text can only be covered by one of the same second, which `shared` notes. `Fresh` is
what being alone gives: the one request in flight has the row as it is, so the text that
it reads under the key, and scores, is the one that `TextKept` says is there, and the scan
on record is the one submitted last.

*The rotation.* `RotationIsFair` compares the turns of any two personas, and says nothing
of where the next turn goes. `InCircle` does: there are a number of full laps and a
starting place such that whoever lies between it and the next place, going round, has had
one turn more. The start may be anywhere, because an approval counts all
pipelines the brand ever had. A turn moves the next place on by one: the place is a
remainder, so it wraps (`ModRange` and its companions), and exactly one enabled persona
stands there (`PoolRanked`: `Before` is a bijection from `Pool` onto its places). When the
place reaches the start again the lap is full. `Silent` gives the others no turn, and
`FreshPick` says that an approval in flight has resolved what it would resolve now, which
only holds while it is alone.

*The voices.* `Numbered` says that versions have no gaps and that no two desks
insert the same one (the unique index on brand and version); therefore a desk that clears the
active versions sets one that exists, in the same transaction, and `VoiceServed` needs
no isolation. `Single` does: a desk by itself has cleared, or has yet to clear, exactly
what is active.

*The console.* `UserInv` says of accounts and cookies at once, including those of a
login in flight, that a global admin is `rooted`, a brand right `scoped`; an
account is copied into a cookie and never the other way, so both facts survive a
stale cookie. `FounderInv` counts first users: while first logins do not overlap, one
login at most has read an empty table. `AskInv` follows a save from the rows it
read to the rows it will append: the latest row of every key is the one that was
asked for last, and a value skipped as unchanged was already in force.

*The costs.* A sum over the jobs is a fold of the community modules, of which the provers
know nothing: `SumsExist` to `SumOfOne` derive what it adds up to from its definition, each
time by looking at a smallest set for which the fact would fail. `CostInv` holds while no
two transactions have summed at once. `RowRight`: there is at most one cost row, it is
what the jobs cost and save, and without one they cost nothing. `BillRight`: the one
transaction that has a bill made it from the row as it still is, and the bill says what
the jobs will cost when it has committed; this is where the order in the code
matters, in which the job is written before the sum is taken. `OthersCheap`: who has taken
no sum changes no price, such as a publish that keeps its job's cost. Against what was
metered the jobs are compared in `SpendInv`: what they cost is never more than `metered`, and
equal to it while nothing is `lost`. Here one job changes at a time, so one lemma about a
single price replaced in the sum (`OnePriceChanges`) serves every step. `CentsNear` and
`SavingsNear` bound the rounding.

*The morning cycle.* A cycle has many kinds of reads and they differ little: `ReadsGather`
and `MemoryReadsGather` show that each of them is a `Gathers` step, which adds notes and
charges to one run, and `ReadsWell` and `CostsWell` say what all of them respect. The
properties then have eleven kinds of steps each. `CycleTypeInv` adds what the types do not
say: an idle process has nothing open, a run has steps of its agent ahead (so that
the next is the least of them, `LeastOfFew`), notes are finitely many. `Tidy` says
that what an agent has not committed is of today and of its run, and that only the
last agent, which never finds sessions, reports. Each property has its own
invariant beside these.

- `KeysOnce`, at any overlap: of two refreshes that would insert a row for one writer
  and window the second waits for the first and fails, so whatever is uncommitted is
  apart from what others have uncommitted (`Apart`), and replaces the committed rows of
  its keys (`RowsOf`). `WholeInv`, for a cycle by itself: what is inserted replaces all
  that is there of its table, because the DELETE saw the rows as they still are.
- `DigestInv`, at any overlap: `traffic` never falls behind the sessions in memory
  (`SessionsKnown`), and a report that says ready was made within two days of it
  (`ReadySoon`). The planner's window adds two more.
- `DayInv`: whatever a run's agents have committed is in memory, of today (`KeptIsSeen`),
  since the sweep comes first and only memory's growth follows; and a report that
  follows a commit of sessions says ready. Nothing in memory is newer than the run at
  work (`Latest`), so a query whose limit leaves out one of its notes has returned
  only notes as new (`NotRead`). `NewsIsProposed` therefore gives every such note a
  proposal that scores no less than its `Urgency`, or a query or a cut filled with its like;
  `LeftOut` says of a finite set of proposals that what the plan's cut leaves out has a full
  plan of better ones before it.
- `CapInv` is `ScanCapHolds` for each run. The export that is not asked about adds as
  much to `loose` as to `spent`; every other read was within the cap but for its last
  query (`CostsWell`).
- `PaidInv` spaces the paid answers that a run can see, its own included (`Spaced`).

`Single` says that, until two have overlapped, one run is under way at most; the others
then hold nothing that its commit could mix with (`OthersIdle`).

Only model-checked: liveness (`JobsSettle`, `DispatchEnds`), which rests on fairness and
is out of the prover's reach. `DeskTypeOK` and `NewsroomTypeOK` put together the
components' type invariants, which are theorems one by one. The six findings are
counterexamples of TLC.

## 7. Not modelled

Each of these is in `PROJECT.json` with its reason.

* *Trend monitor.* Labels and a verdict, fading or not, computed from click counts. In
  `TrendScout` each scan may find any trend fading. (Its comment "re-accelerates flips
  back to rising", `monitor.py:7`, does not hold after an earlier window of zeros: the
  growth is undefined then and the label is "peak" or "emerging".)
* *Clustering and scoring of texts, style, prompts, the wording of items and briefs*:
  pure functions of text over floats. Whether a score clears a threshold is a free fact.
* *Writer ranking*: averages over floats, returned and not stored.
* *Requests and answers of the adapters*: an answer is one of the outcomes the code
  tells apart. The trend sources' signals are the input of a scan.
* *Notifications*: best-effort sends that never raise. (Their read state is kept per
  item, so a job that fails again after a regeneration shows as read.)
* *Configuration, credentials, OAuth, CLI, seeding, logging*: parsing and I/O, or
  entry points to operations that are modelled.
* *Edits of a plan item, "notify" items, cap-hit flags*: no gate or cap depends on them.

What is modelled is modelled by component: the runs compose sessions of one component,
and components through what one leaves the next (a closed request, an approved plan,
a note), not all of them in one state space. What would come next: a scan at
larger bounds, and what the dispatch promises once two of them overlap, beyond that a human chose what
goes live (`HumansChooseLive`) and who can be in a circle (`CirclesNeedApproveAll`).

## 8. Running it

    tlc -workers 2 -config Pipeline_serial.cfg MCContentPipeline
    tlc -workers 2 -config Pipeline_live.cfg   MCContentPipeline
    tlc -workers 2 -config Dispatch_serial.cfg MCPlanDispatch
    tlc -workers 2 -config Dispatch_live.cfg   MCPlanDispatch
    tlc -workers 2 -config Desk.cfg            MCDesk
    tlc -workers 2 -config Newsroom.cfg        MCNewsroom
    for m in ContentPipeline PlanDispatch TrendScout MemoryStore \
             ArtifactReview WriterVoice Console Newsroom
    do tlapm ${m}_proofs.tla; done

`PROJECT.json` lists every run with its configuration and what it expects, and for
every property a mutant of the code that breaks it. The longest run takes two minutes,
the longest proof about eight.
