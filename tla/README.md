# SybilShield: TLA+ models

A verification project for SybilShield (`src/`): a service that scores wallet
addresses for sybil behaviour. Customers submit address lists over a REST API
(TypeScript, Fastify, Postgres through drizzle) or a dashboard (Next.js); a
BullMQ worker has them scored by an ML service (Python, FastAPI) that fetches
transactions from Alchemy; a public endpoint scores a single address
synchronously. Offline scripts derive lists of known sybils and genuine users and
train the model from them.

The modules model what happens between two awaits, two threads or two steps of a
script, after a crash, on a retry or a repeated message; and what the scoring
computes, where two implementations, two modes or two thresholds must agree. TLC
checks them on small instances, and TLAPS proves the most important properties
for all instances. `PROJECT.json` maps every definition to the lines it stands
for.

Contents: [inventory](#inventory) - [modules](#modules-and-the-code) -
[runs](#runs-bounds-and-what-they-show) - [divergences](#where-code-and-comments-disagree) -
[proofs](#proofs) - [fairness](#fairness) - [limits](#what-is-not-covered) -
[plan](#plan).

## Inventory

Paths are under `src/apps/`; `api/` stands for `api/src/`, `ml/` for `ml/sybilshield/`.

| Component | Code | State | Operations | Hard behaviour |
|---|---|---|---|---|
| Analysis API | `api/routes/analyses.ts` | `analyses` rows | POST, GET list/one/results/export/clusters | check-then-insert cap; row without job; pages with ties |
| Queue | `api/services/pipeline-client.ts`, BullMQ in Redis | job, attempts, lock, stall count | add, fetch, complete, fail, delay | retries, stalls, lost acknowledgements |
| Worker | `api/workers/analyze.worker.ts` | `address_scores`, `clusters`, `evidence_audit_log`, `notifications`, `webhook_deliveries` | `runAnalysis` in two phases | crash between awaits; a late run beside its successor |
| First sight | `api/routes/first-sight.ts`, `lib/first-sight-inflight.ts` | in-flight map, cached system analysis id | look up, score, store | concurrent callers of one address; restart |
| First-sight throttle | `api/lib/first-sight-throttle.ts` | array of stamps | `checkGlobalFirstSightBudget` | window boundaries |
| ML service | `ml/service.py`, `providers/alchemy.py` | pipeline singleton, limiter window, CU count | `/run`, `/cluster-only`, `/first-sight` | thread pool without locks |
| ML pipeline | `ml/pipeline.py`, `ingest.py`, `clustering/`, `features/`, `evidence/`, `scoring/` | none between requests | ingest, features, clusters, scores, evidence | swallowed failures; ties; ids that must match |
| Presets | `api/lib/presets.ts`, `ml/scoring/presets.py`, the form | none | decision from score, cluster size, codes | three copies |
| Accounts | `api/middleware/auth.ts`, `routes/auth.ts`, `routes/billing.ts`, `services/atlos.ts`, `scripts/reset-monthly-quota.ts` | `customers` rows | register, check, count, reset, rotate, buy, postback | check at start, count at end; repeated postbacks |
| Webhook log | `api/routes/webhook-deliveries.ts`, `services/webhooks.ts` | `webhook_deliveries` | deliver, retry, test | concurrent retries |
| Team | `api/routes/team.ts` | `team_members`, `invites` | invite, patch, remove, accept | several writes without a transaction |
| Appeals, feedback, audit | `api/routes/appeals.ts`, `feedback.ts`, `audit-log.ts`, `services/audit.ts` | three tables | submit, record, notify | partial failure; a newer score meanwhile |
| Training | `ml/data/curate.py`, `holdout.py`, `build_features.py`, `scoring/retrain*.py`, `train.py`, `model.py`, `eval/` | parquet files, `current.pkl` | curate, split, build, decide, train, replace, load | files replaced one by one, in place |
| Derivation | `ml/data/derive_*.py` | lists, checkpoints | scan, keep, save, resume | kill between list and checkpoint |
| Look-ups | `api/routes/scoring.ts`, `resolve.ts`, `services/ens.ts`, `web/app/lookup`, `web/app/dashboard/scoring`, `src/packages/snapshot-strategy-sybilshield` | none of their own | look up, batch, validate a voter | transactions that commit out of order; rows without a decision |
| Watch list, notifications | `api/routes/watchlist.ts`, `notifications.ts` | two tables | add, remove, list, mark read | two spellings of an address |
| Web: an analysis | `web/app/dashboard/analyses/[id]`, `new` | React state | poll, filter, upload, resolve, submit | late answers of older effects |
| Web: the lists | `web/app/dashboard/{watchlist,team,webhooks,notifications,analyses}`, the overview | React state | load, change, load again | handlers with the state of the click; unordered answers |
| Web: the key | `web/app/dashboard/page.tsx`, `api-keys`, `components/InlineConfirm.tsx` | `localStorage`, React state | sign up, paste, type, rotate | a rotation that is cancelled on screen; a page that is left |
| Alerts, operations, public site | `api/services/alerts.ts`, `src/scripts`, `web/app/page.tsx`, `docs`, `changelog` | - | I/O, text | - |

How they interact: the API inserts a row and adds a job; the worker takes the job,
calls the ML service, makes decisions of its scores, writes the results and flips
the row; clients poll the row (the dashboard every two seconds), and are told by
notification and webhook. First sight and the worker write `address_scores`, and
first sight, the public look-up and an appeal take the newest row there, whoever
wrote it. First sight and all worker slots share the one ML process, hence its
limiter and its CU count, which the worker compares with the plan's budget. The
scripts hand files to each other, and the ML service loads the last of them when
it starts.

What makes each modelled component correct:

- *Analysis*: results are readable before the row says complete and before anyone
  is told; no list over the cap is scored; a retry cannot repeat without bound; row
  and queue agree; everything enqueued ends; a stale row does not block a customer
  for ever; what is read page by page is what is stored.
- *First sight*: an address is ingested once however many ask for it at the same
  time; every caller is answered.
- *Throttle*: no window admits more than its budget, and nobody is refused
  without cause.
- *ML service*: the account's rate is exceeded by no more than one RPC for each call
  that was raced since one found room; a reply reports at least what the request has
  spent.
- *Scoring*: a decision depends on the score and the clusters alone, monotonically, and
  is the same in every copy of the rules; evidence can be traced; counters count
  the rows; the three modes agree where they overlap.
- *Accounts*: calls are counted once, and quota overshoot is bounded; the key and the
  secret that are stored are ones the customer was sent; only what was paid for is
  given.
- *Team, deliveries, reviews*: what two tables say of one event agrees, whichever
  statement fails, and a form confirms only what is stored.
- *Look-ups*: nobody is shown an older verdict than before, and page and gate read the same
  score alike.
- *Training and derivation*: what a model is measured on was not trained on and is
  ground truth; a script that resumes passes nobody over.
- *Web*: the table is the filter's; what is submitted is a set of legal size; a list
  shows the changes its page has made; the browser keeps the key that works.

`PROJECT.json` lists the hazards line by line, with the properties that address
each and a note where something of it is left.

## Modules and the code

| Module | Composes | Models |
|---|---|---|
| `AnalysisContract` | - | what a client may rely on |
| `AnalysisLifecycle` | refines `AnalysisContract` | POST handler, queue, worker |
| `FirstSight` | - | in-flight map, cache, system analysis |
| `FirstSightThrottle` | - | the sliding window |
| `MlService` | - | threads, limiter, CU count |
| `Clustering` < `Scoring` < `Pipeline` | and `Presets` | one analysis, from histories to rows |
| `Presets` | - | the decision in TypeScript and Python, and what pages repeat of it |
| `Training` | - | lists to model |
| `Derivation` | - | public sources to lists |
| `Requests` | - | requests in progress, shared by the next four |
| `Accounts`, `Team`, `Deliveries`, `Reviews` | `Requests` | the API's tables |
| `AnalysisPage` | `Server == INSTANCE AnalysisContract` | the dashboard's page of an analysis |
| `NewAnalysisPage` | - | the dashboard's form |
| `ResultPages` | - | reading lists page by page |
| `ScoreLookup` | - | look-up, batch and gate, on scores that are being stored |
| `DashboardLists` | - | six pages that list rows and change them, and the watch list |
| `KeyPages` | - | the API key in a browser, from sign-up to rotation |
| `MC*` | | constants and compositions for TLC |
| `*Proofs` | | theorems |

### AnalysisLifecycle

POST handler, BullMQ job and worker. One action per await: `CheckRequest`,
`InsertRow`, `EnqueueAnalysis`, `HandlerFails` (the handler); `PickUp`,
`BackoffElapses`, `LockExpires`, `WorkerCrashes`, `StalledCheck`, `JobCompletes`,
`JobFails`, `Release` (the queue, external: modelled from the options the code
passes and from BullMQ's documented behaviour); `MarkIngesting`, `Gather`,
`Score`, `Persist`, `Flip`, `CreateNotification`, `DeliverWebhook`,
`RecordDelivery`, `CatchMarksFailed`, `Throws` (`runAnalysis` and its catch
block). An awaited write may succeed, throw without effect, or commit and still
throw. A *run* is one hand-over of the job to a slot; `persisted`, `notified`,
`sent`, `recorded` are sets of runs, so that duplicates are visible. Address
lists are reduced to how they compare with the plan's cap; an analysis's scores
are one indivisible thing, as the transaction of phase 1 makes them.
"Readable" means that phase 1 has committed: a `cluster_only` analysis may
legitimately store no rows.

`AnalysisContract` is what a client may rely on: the row is waiting, ready or
failed; it turns ready, and is announced, only when results can be read; results
are never taken back. `AnalysisLifecycle!Contract` is the refinement mapping.

### FirstSight, FirstSightThrottle

`dedupeInFlight` and `scoreAddress`: one action per await, with the settling of
the shared promise (key freed, all waiters answered) as the code runs it in one
turn of the event loop. The key of a caller is address and chain. A row of
`address_scores` is a score of the whole history ("full"), of what failed calls
left ("partial"), or a cluster membership without score ("unscored"). `BatchStores`
is the worker writing to the same table, `Restart` the end of the API process.
The throttle's answer is a free choice there; `FirstSightThrottle` is
`checkGlobalFirstSightBudget` with the array as it is and the calls it has let
through as history, where `Shifts(k)` is the outcome of the `while` loop.

### MlService

The ML process: `get_pipeline()`, `RateLimiter.wait()`, `_rpc()` and the reply, for
threads of FastAPI's pool. The steps are those between which CPython 3.11 can
switch threads: calls, sleeps and I/O; `x += 1` on an attribute and a test
followed by `popleft()` are not interrupted. `TakeStamp` and `Send` are two steps
because `time.monotonic()` is evaluated before `append` is called. One RPC counts as
one CU. `RpcEnds` waits for the clock to move: an RPC takes time. `sent` records what
each limiter let through, `call` and `calls` how each call of `wait()` fared: it found
room, slept until the head of the window had expired, or was *raced*, that is, another
thread stamped the same limiter between its reading of the clock (or in that very
tick) and its own stamp.

### Clustering, Scoring, Presets, Pipeline

What `AnalysisLifecycle` has as the single steps `Score` and `Persist`.
`Clustering` computes the funding clusters (groups, spread, confidence), the
cross-chain linking and the merge; HDBSCAN and Leiden are libraries, and
`BehaviorGroupings`, `GraphGroupings` are all the groupings of legal size they may
return. The places of groups in the list say nothing of the code's own order: groups are
put in one fixed order (`SetToSeq`) and linked accounts in every possible one, the code's
(that of the chains) among them. Scores are keyed by address, or in a `cluster_only` analysis by the place
in the list. `Scoring` has the features that a rule or an evidence item looks at, the
fallback score, labels and evidence items. Numbers that numpy and scipy compute
(entropy, correlation of long histories) are part of a history, in hundredths; the
LightGBM model is the constant `LgbScore`.

`Presets` has the tables and the procedure of `presets.ts` and `presets.py` side by
side, with overrides (`Absent` keeps the preset's value, `Off` is `null`), and what the
pages repeat of it: the form's copy of the thresholds, the rule that the drawer of a row
cites (`DrawerRule`), the codes that the look-up page has words for (`ExplainCode`). The
cards and chips of the page of an analysis (`StatCards`, `DecisionChip`) are in
`Pipeline`, which they count. `Pipeline` strings them together, one action per
stage: `Ingest` (an address that fails has `NoHistory`), `FindClusters`,
`ScoreAndExplain` or `NormaliseClusterOnly`, `EnrichAndStore`.

### Training, Derivation

One script runs at a time. A script reads the files of the one before, computes and
writes its own, one file after another and in place: `writes` holds what is still to
be written, `Interrupted` cuts the script short and leaves the file it was writing
`Torn`. A model is the set of rows it was trained and measured on, and whether
its features were there. `NewLists` replaces a list, `ServiceStarts` loads
`current.pkl` or falls back to the rules.

`Derivation` is four `derive_*.py`: two that append as they go and resume from a
checkpoint, two that write at the end. A line is in the file once it is flushed;
`Killed` loses what is in the buffer and tears a checkpoint that is being written.

### Requests, Accounts, Team, Deliveries, Reviews

`Requests` is Fastify's interleaving: a request in a slot has an operation, the
await it is at and its local variables, which keep the row it read while the table
changes. Every statement of a handler is an action, which may fail; `RestartApi`
(`TeamFault`, `DeliveriesFault`, `ReviewsFault`) drops all that is in progress.

- `Accounts`: `RequireApiKey` reads the row and tests the quota, the reply goes out,
  and only then does `CountAuthedCall` increment; `ResetMonthlyQuota` runs at any
  time. Keys and secrets are numbers in the order they are generated; `held`, `lost`
  record which replies arrived. `Pay` and `Postback` are the payment provider's,
  any number of times, in any order.
- `Team`: the member, then the invite; the invite, then the member.
- `Deliveries`: `RetrySelect`, `RetryDeliver`, `RetryUpdate` with drizzle's `set()`,
  which leaves a column alone when its value is `undefined`.
- `Reviews`: appeal and feedback, each statement on its own, while `StoreScore` puts
  newer scores on top. A ticket is sent by anyone, or by one of the two forms (`forms`),
  which wait for the reply and then say "recorded" or "failed".

### AnalysisPage, NewAnalysisPage, ResultPages

`AnalysisPage` has the polling effect of the page of an analysis: every change of the
filter starts a new effect, the `cancelled` flag of the old one is set, and its
requests still come back. The server is `AnalysisContract`, whose steps
interleave. `NewAnalysisPage` has the form: files are read and names resolved
asynchronously, and merged into what the list is by then; the route resolves a name or
does not (`ResolveReplies`), whatever the name service says. `ResultPages` reads the
rows (`results`), the CSV file (`export`) and the audit entries (`audit`) page by page;
`Answers` are the orders that an `ORDER BY` with ties allows.

### ScoreLookup, DashboardLists, KeyPages

`ScoreLookup` has the one query behind the public look-up, the batch and the gate of a
Snapshot space. A row carries the date at which its transaction began (`created_at`
is `now()`), and `EndStore` commits transactions in any order. The pages and the gate
each keep the row they read last.

`DashboardLists` is one page that is open, with the changes it has asked for (`acts`)
and its loads in progress, each with the filter it was sent with. `Acts` says of
every button whether its handler stops at an error. What a change does to the rows is
modelled for the watch list; of the others it counts that it was made (`changes`),
since what a list shows is as of some change.

`KeyPages` is one browser tab and the server's current key. Requests outlive the page
that sent them, whose replies still write `localStorage`; `InlineConfirm` keeps its
`busy` flag when it is cancelled and armed again. `strayed` records that the user put in
a key or left a page that waited, after which nothing is promised.

## Runs, bounds and what they show

| Run | Instance | Shows |
|---|---|---|
| `analysis_retry` | 1 request, lists of every size inline and in a file, 1 slot, the real 3 attempts and stall limit 1 | `CopiesBounded`, `OversizedNeverScored`, `RowAgreesWithJob`, `EnqueuedEnds` (liveness) |
| `analysis_stall` | 2 slots, 2 attempts, stall limit 1 | `ResultsBeforeComplete`, `EventsFollowResults`, `NoDoubleProcessing`, refinement of `AnalysisContract`, and that the proofs' `IInv` holds in every reachable state |
| `analysis_capacity` | 2 requests of a customer with a cap of 1 | `CapacityReturns` (liveness) |
| `first_sight` | 2 callers of one key, 1 of another, 1 restart | `SpendOnce`, `FlightInv`, `AllAnswered` (liveness) |
| `limiters` | 2 threads, 3 requests of 2 RPCs, a limit of 1 in 2 ticks, 6 ticks; window 4, budget 2, 14 ticks | `ReportCovers`, `RacesCostOneEach`; `WindowRespected`, `RefusalJustified` |
| `scoring` | jobs of 1 to 3 addresses on 1 or 2 chains, 4 histories and a failed ingest, all presets, overrides, with and without a model; 5 training scripts on 2 rounds of lists; 3 derivation scripts | `LanguagesAgree`, `EvidenceTraceable`, `SummaryMatchesRows`, `ModesAgreeOnCluster`, `AloneIsFirstSight`; `HeldOutApart`, `OnlyVerifiedCleared`, `MeasuredOnGroundTruth`; `NothingPassedOver` |
| `api` | 2 requests at once, 2 customers at or one below the free limit, 3 keys and secrets, 2 orders, 1 reset; 1 address invited up to 3 times; 2 deliveries, 3 sends each; 2 analyses, 2 appeals or reports; 2 runs of the page's effect; 3 inputs and 2 submissions of the form; tables of 3 and 4 rows with ties; 2 stores of scores of an address on two chains, 2 look-ups; 3 clicks and loads, 2 changes, 2 spellings; 3 keys, 2 requests of a browser | `QuotaOvershoot`, `CountFollowsUse`, `KeyHolderKnows`, `PlanWasPaid`; `JoinedByOwnInvite`; `LogNeverBoasts`; `OneStory`, `AppealConfirmed`; `ShowsItsFilter`; `SubmittedIsASet`; `PagesPartition`; `LookupsAgree`; `ListsOwnChanges`; `BrowserKeepsKey` |

`MCPipeline`, `MCLimiters` and `MCApi` hold several components that share no state. A
behaviour of these runs stays with one *family* of actions (`scoring`, `training`, `lists`,
`votes`; `threads`, `throttle`; `keys`, `plans`, `quota`, `team`, `deliveries`, `reviews`, `page`, `form`, `lists`,
`lookup`, `dashboard`, `browser`), chosen in the initial state: the product of independent
components would only multiply states. Within `Accounts` three families split the
operations, since keys, plans and the count are different columns: `keys` registers,
rotates and sets secrets, `plans` has the orders of both providers, `quota` those of one
and the reset; all go through the same key check and the same count. In
`MCApi` the slots are interchangeable, and so are the customers, in `MCLimiters` the
threads: no definition names one. The symmetry is used for invariants, and in
`MCLimiters` for a property of single steps of the throttle, which has no threads.

Why the bounds are enough. Attempts and stall limit are the code's own, or one
less where two slots make the state large: a first attempt, a retry and a
redelivery still all occur. One analysis suffices for what concerns a single
row, since rows share only the slots and the cap; the cap has a run with two. Two
slots are the default concurrency and let a late run meet its successor. In
`FirstSight` two callers of a key give a leader and a waiter and, after a failure, a
second leader; the third asks for another key, which matters for the shared
system analysis. The throttle's horizon covers several windows with the clock
stepping inside, onto and over their boundary. In `MlService` the limiter of one RPC
fills and sleeps several times within the horizon, two threads sleep for one stamp,
race for the next and find room again, and the window is emptied under one of them.

In the `scoring` run three addresses make a cluster of the smallest legal size and leave
pairs below it; the histories are a script, the same funder nine days later, an
exchange's customer and a transfer without a timestamp, so that every rule of the
fallback score and every kind of evidence fires; `ProbeScores` and `ProbeSizes` are
both sides of every threshold in any preset. Five scripts are a round of curate, split
and train and a second one but for a script, in any order and cut short anywhere. In the `api` run two requests are what
it takes to interleave; one reset, one replaced invitation, one repeated and one late
postback, a delivery retried twice at once and a score that arrives in mid-appeal all
occur. Two stores overlap and commit in the wrong order between two look-ups; two changes
and a load, or one change and two loads, race on a page; a key is rotated twice at once
by one tab. `MAX_ADDRESSES`, `PageLimit` and the page sizes are scaled down so that the
limits are reached.

The bounds named in the models are `Attempts` and `MaxStalledCount` (the code's), and
`MaxRestarts`, `MaxRequests`, `Horizon`, `MaxScripts`, `MaxRuns`, `MaxServed`,
`MaxIssued`, `MaxResets`, `MaxOrders`, `MaxRows`, `MaxDeliveries`, `MaxSends`, `MaxTickets`,
`MaxEffects`, `MaxInputs`, `MaxPosts`, `MaxStores`, `MaxReads`, `MaxLoads`, `MaxChanges`,
`MaxKeys`, `MaxAsked` (the models').

Where a run turns deadlock checking off, its components really stop: a script or a
request ends, and nothing has to follow.

Every property of a passing run has a mutant in `PROJECT.json`: a definition
changed as a plausible bug would change it (`PersistNotAwaited`,
`RequestWithoutDedupe`, `IncrementSnapshot`, `AcceptActivateByEmail`, `KeepUnflushed`,
`ShowResultsUnchecked` and so on, which stand next to the definition they replace),
under which TLC finds the property violated. They are not part of any
specification.

## Where code and comments disagree

Five of these are runs that TLC finds violated; `PROJECT.json` quotes the comment
each contradicts.

| Run | What the code does |
|---|---|
| `analysis_retry_idempotent` | A retry after phase 1 stores every score a second time, where the comment calls it idempotent (`analyze.worker.ts:181`). |
| `api_postbacks` | The payment providers' postbacks are answered 401, as the billing routes are registered behind `requireApiKey` (`index.ts:90`), where `billing.ts:7` says "no auth". Billing is dormant (`src/README.md`). |
| `training_unseen` | An address listed on two chains is held out on one and trained on from the other, with the same features (`holdout.py:51`), where `holdout.py:5` says "NEVER used for training". |
| `limiters_ceiling` | Two threads wait for one stamp to expire, wake together and both send (`alchemy.py:44`), where `alchemy.py:6` says that the rate of the account's tier is kept. |
| `curate_confessed` | An address on a T1, a T4 and the G1 list is kept as genuine, as the rule for T4 and T5 comes first (`curate.py:145`), where the manifest has a rule that drops T1 with G1 (`manifest.yaml:204`) and a test says the same (`test_curate.py:135`). |

The others are visible in the modules, and follow from a line or two of the code.

Analyses and first sight:

- `failed`, at which the dashboard stops polling (`analyses/[id]/page.tsx:93`), is left
  again when BullMQ starts the next attempt (`CatchMarksFailed`, `MarkIngesting`).
- The "best-effort" notification and delivery log (`analyze.worker.ts:263`) are
  awaited in the same `try`: a database error there turns a complete and announced
  row into a failed one and runs the analysis again (`Throws`).
- "In mock mode we run inline" (`pipeline-client.ts:41`): nothing runs, the row
  stays pending (`EnqueueAnalysis` with `MockMode`).
- Concurrent POSTs of a customer pass the in-flight cap together (`analyses.ts:76`;
  `auth.ts:13`, `:23`).
- Two first calls create two system analyses (`first-sight.ts:52`; `:27` speaks of one).
- `first_sight` is "true only when THIS call actually triggered new ingestion"
  (`first-sight.ts:84`), but every caller that joined a run gets its flag
  (`SettleWithRow`).
- "ingest/provider failures degrade to 502" (`service.py:134`), but a failed Alchemy
  call is skipped and the rest scored and cached (rows of kind `partial`).
- The cache answers with any row of `address_scores`, also one that a `cluster_only`
  analysis stored without a score (rows of kind `unscored`; `first-sight.ts:105`).
- `cu_consumed` counts from the start of the process (`pipeline.py:200`), not per
  analysis (`auth.ts:25`).
- A thread that finds the limiter's window emptied under it takes the `IndexError` for a
  failed call (`alchemy.py:45`), and two first requests build two pipelines with a
  limiter each (`service.py:117`).
- Each stamp that races add keeps the window longer than `Rps` and lets another call
  through when its head expires: what a race added to the rate stays while every call
  has to sleep, and ends when one finds room (`RacesCostOneEach`).
- Result pages of an analysis on several chains have ties (score, then address), and
  the audit log is ordered by `created_at` alone, which a transaction gives all its
  rows: pages may repeat and omit rows (`PagesPartition` says where they do not). A
  `limit` over 1000 is cut silently, so a client that stops at a short page stops
  too early.
- The summary is left out of the response for `complete_over_budget`
  (`analyses.ts:169`), and `avg_sybil_score` is never written.

Scoring:

- `presets.ts:8-13` says when a confidence is low; the code gives `low` to any REVIEW of
  one rule without evidence.
- `thin_account` reads a feature, `address_age_days`, that no extractor writes, and
  `merge.py:13` speaks of cluster membership as a feature of the model: it is in no
  column of `FEATURE_NAMES`.
- Cross-chain linking joins different chains (`cross_chain.py:108` says "same chain")
  and excludes no exchange; the size of such a cluster counts pairs of chain and
  address, its text calls them addresses (`cross_chain.py:143`).
- A gap of 0 seconds escapes the scripted-timing rule, and the autocorrelation of four
  transactions is always 1 or -1.
- The pairwise evidence cites the ids of clusters that the response does not contain.
- A `cluster_only` analysis stores an address once for every time it was listed.

Accounts, team, deliveries, reviews:

- The reset job calls itself idempotent (`reset-monthly-quota.ts:7`): a second run in
  the same month grants a second quota.
- Accepting an invite always answers 500 after the member was activated: the audit
  row names an analysis that does not exist (`team.ts:123`). A suspended invitee becomes
  active by accepting. A failure between member and invite, like an expired token,
  leaves an address that is answered 409 until its row is deleted.
- `set()` leaves a column alone when its value is `undefined`: a retry that ends in a
  status keeps the old error beside it, and the other way round. Of two retries at
  once one increment is lost.
- Feedback accepts the id of any customer's analysis, and answers 500 to an unknown one.

Training and derivation:

- The monthly retrain of `src/README.md:198` reads `train.parquet`, which has no
  features: every column becomes 0.0 and a blind model replaces `current.pkl`
  (`retrain.py:145-151`).
- Nothing in `src/` writes the training distribution or the production snapshot: drift
  never triggers. After an automatic retrain the stored adversarial recall is 0.0,
  which disables that trigger (`retrain.py:96`). The seed is a string's `__hash__`,
  different in every process (`retrain.py:94`).
- The ML service loads the model once, not "on next request" (`retrain_full.py:14`).
- A crash while saving tears `current.pkl`; the service then falls back to the rules, and
  the next retrain raises when it loads it.
- An address on G1 and T2 lists matches no rule and is dropped. The holdout's comment says
  G1 only, its tiers include G2.
- "Checkpoint-resumable" (`src/README.md:222`) does not hold for a kill while the
  checkpoint is written (it is torn, and the next run stops at a JSON error), for failed
  look-ups (never repeated), for the rest of a page after `--limit`, nor for the list's
  header when killed before the first flush (`DictReader` then finds no candidates).
  Rows are written twice after a kill in mid-page; `curate.py` drops duplicates.
- `has_reverse_record` takes a refused request for "no". Snapshot's pages shift while votes
  arrive, and such votes count twice towards the minimum; a page that failed is
  skipped. The last governance block is missed when a window would hold it alone.

Look-ups and pages:

- The look-up page says "Rate-limited to 30 req/hour per IP" (`lookup/page.tsx:111`); its
  route has no limit of its own, only the server's.
- The result of a look-up does not name its address, while the inputs can be edited under
  it; `qf_pairwise_coordinated_pair` has no words there.
- The watch list's page promises "Nightly re-scoring; notification on score change"
  (`watchlist/page.tsx:76`): no code does either.
- An error answer shows as an empty list (`LoadRefused`). Loads that race may put an older
  answer over a newer one, and two saves of a webhook an older secret over the newer.
- The notifications page loads with the filter of the click: after a change of the filter
  meanwhile, the rows of the old one stand under the new (`switched`).
- The team page reads `m.user_email`, `GET /v1/team` sends `email`: the column is empty and
  the confirmation says "undefined" (`team/page.tsx:117`, `:128`).
- A sign-up whose answer is lost, like a feedback, says nothing; the key is gone then, and
  the address answered 409.
- At the monthly limit every request with a key is answered 429, `GET /v1/account` included
  (`auth.ts:90`): the overview's banner for that case (`dashboard/page.tsx:195-200`), which
  calls reads free, is never shown. Below it the banner rounds, from 79.5 %.
- The drawer cites the preset's rule also when overrides made the decision.

Dashboard:

- One failed poll ends polling for good; an error answer (401, 404, 429) is taken for the
  analysis, and the progress card crashes on it; a refused results answer shows an empty
  table, a failed clusters fetch "No clusters". The elapsed timer does not stop at
  `complete_over_budget` (`analyses/[id]/page.tsx:135`).
- The search box looks through the 100 rows that were loaded.
- Names that are resolved late are merged into whatever list there is by then; a file
  that is read late overwrites a pasted list, and an unreadable one leaves the old
  list under its own name (`new/page.tsx:170-187`, `:212`).
- Between acceptance and navigation the button is enabled again: a second click, like a
  click after a lost answer, submits a second analysis.
- "Set 0 to effectively disable a knob" (`new/page.tsx:435`): a threshold of 0 fires
  always; only `null` disables it.

## Proofs

Every safety property of the passing runs is a theorem, for every value of the constants
(any number of requests, customers, slots, callers, keys, threads, files; any attempts,
window, budget, source and list). In all modules the argument is the same: the properties
are not inductive by themselves, so an invariant says in addition what each step in
progress already knows; one lemma per action, or per group of them, shows that it is
kept; the properties follow from it. TLC checks the same properties on the instances of
the runs.

| Module of proofs | of | Theorems about the runs' properties |
|---|---|---|
| `AnalysisLifecycleProofs` | `AnalysisLifecycle` | `ResultsAreThere`, `EventsAreTrue`, `CapBinds`, `OneSlotPerAnalysis`, `RowAgrees`, `BoundedCopies`, `Refinement` |
| `FirstSightProofs` | `FirstSight` | `SpentOnce`, `NoStaleFlight` |
| `LimitsProofs` | `Accounts`, `FirstSightThrottle` | `NeverFarPastTheQuota`, `RepliesAreCountedOnce`, `StoredKeysWereSent`, `PlansWerePaid`; `Reservation`, `Refusals` |
| `RoutesProofs` | `Team`, `Deliveries`, `Reviews`, `ScoreLookup` | `OnlyOwnInviteJoins`, `LogClaimsOnlySends`, `TablesTellOneStory`, `ConfirmationsAreTrue`, `LookupsAgreement` |
| `PagesProofs` | `AnalysisPage`, `KeyPages`, `DashboardLists`, `NewAnalysisPage`, `ResultPages` | `TableShowsItsFilter`, `UserIsNotLockedOut`, `ListsShowOwnChanges`, `SubmitsASet`, `PagesMakeTheList` |
| `PipelineProofs` | `Presets`, `Clustering`, `Scoring`, `Pipeline` | `LanguagesDoAgree`, `EvidenceIsTraceable`, `SummaryIsOfRows`, `ClusterOnlyAgrees`, `FirstSightAgrees` |
| `MlProofs` | `MlService`, `Training` | `RepliesCoverTheSpend`, `RacesBoundTheExcess`; `MeasuredApart`, `ConflictsAreSettled`, `GroundTruthOnly` |
| `DerivationProofs` | `Derivation` | `NothingLost` |

What the invariants add, and why it is needed:

- *Analysis*. `IInv` says what a run has done by the time its slot is at each await
  (`ProgressInv`), that a job that can still run has attempts and redeliveries left
  (`QueueInv`), that a busy slot holds its job's lock unless the lock was lost
  (`LockInv`), and what the row shows while no fault has hit it (`OutcomeInv`).
  `Refinement`: every step of the lifecycle is a step of `AnalysisContract` or leaves
  the client's view unchanged.
- *First sight*. A key's run in flight is the only one (`FlightInv`), and an ingest that
  has not come to nothing is in flight or has left a row (`SpendInv`): a run that reads no
  row knows that there is no other ingest.
- *Limits*. `RequestsInv`: a request in progress has a customer whose row exists, and
  a postback an order that was paid. `QuotaOvershoot` is inductive only in the strong form
  that the run checks: calls made, those about to be counted and the limit are related to
  the number of slots, so the proof counts sets of slots. The throttle's array is the
  end of the history of admitted calls, and everything before it is out of the window
  (`WindowInv`).
- *Routes*. A row number is never used again, so a handler that holds the number of a
  row that is gone holds nothing (`RowsAreNumbered`, `HeldRows`); the copy that a retry
  made of its row never exceeds what was sent since (`RetriesCopyTheRow`); a request has
  written the rows of the steps behind it, and a ticket belongs to one form
  (`RowsBehind`, `TicketsAreNumbered`); a date is in progress or names one stored row,
  and an answer's row stays stored (`LookupInv`), so that a later query finds a row at
  least as new.
- *Pages*. Of the ticks of the effect only the last is not cancelled, and it has put its
  own rows into the table (`LastTickShown`); while the user leaves the key alone there is
  at most one request that changes it (`OneAtATime`); the answer to the last load has
  what was made before it was sent (`LoadsKnow`); addresses and chains of the form never
  have a repeat, in whatever order files, texts and names are merged (`ListedOnce`);
  the pages read so far are the first rows of one answer, as there is only one
  (`ResultsInOrder`): two lists in the same strict order are equal.
- *Pipeline*. `PipelineInv` has one part per stage: features are those of the batches,
  every cluster has members among the addresses and a legal method and size, one address
  on one chain is in no cluster and in no pair, the reply is what its mode computes, the
  stored rows are the reply's. That the worker's scan for the largest cluster returns the
  maximum, for a list of any length, is by the least place at which it would not
  (`ScanRuns`); that counters match rows, by splitting the rows by decision. About the
  operators alone: `DecideMonotone` (no higher score or size gets a milder decision, for
  any thresholds, in order or not), `DecisionMonotone` (carried to every preset and
  every legal override), `Agreement` (both languages decide alike), `PairwiseNeverDrops`.
- *ML service*. What a request has spent is in the count of the pipeline it holds, which
  need not be the one that the module variable names by now (`CountHasOwn`). The rate, for
  any number of threads: a limiter's window is the end of what was sent through it, and
  what it dropped is over a second old (`PipelineInv`); a call of `wait()` that is
  not raced has seen every stamp but its own (`CallOf`). If it found room, fewer than
  `Rps` stamps are of its second; if it slept, the stamp it slept for has left the
  second by the time it sends. Either way the second it ends is within the bound, and a
  raced call adds one stamp and one race (`RateKept`, for seconds that end at any
  time, not only at a stamp).
- *Training*. While no script was cut short, each pair of files is apart once the running
  script has written both (`Coming` is what a file will hold then): between the two
  writes the pair on disk is of two splits, so the property of the files alone is
  not inductive.
- *Derivation*. A checkpoint, and the variables of the script that will write it, have
  settled the part of the source that they have passed (`Covered`): each address there is
  in the list, was not wanted, or is recorded as unanswered. Lists and the source that is
  itself a list only grow at their end (`Grown`), so what is settled stays so, and a kill
  leaves the last checkpoint true. For the scan and the walk, what has been passed has
  been counted, and a new vote at the head of Snapshot's list moves the others away from
  the pages that were read (`ScanCovers`, `WalkCovers`).

Assumptions are the named `ASSUME`s on the constants, which TLC evaluates in the runs. Most
are types and bounds. Those that say more: the calls of a customer at the start are within
the quota's overshoot (`AccountsAssumption`); lower case of lower case is the same
(`DashboardListsAssumption`); no two rows of a table have the same chain and address
(`ResultPagesAssumption`; the tables of a `full` analysis); the clustering minimums are above
one and the first chain is among a job's (`PipelineAssumption`); the claims are of known tiers
(`TrainingAssumption`); the vote that comes during a walk is not one of those before
(`DerivationAssumption`).

Only model-checked: the liveness properties (`EnqueuedEnds`, `CapacityReturns`, `AllAnswered`),
as TLAPS has no rules here for fairness and `ENABLED`; and the five runs that find a
disagreement, which are counterexamples.

## Fairness

Node runs every pending continuation, queries end, and `fetch` gives up on a
service that does not answer: the steps of a handler, of a busy slot and of a run of
`scoreAddress` are weakly fair. BullMQ polls its delayed and stalled jobs and an idle
slot asks for the next one: `QueueStep` and `PickUp` are weakly fair. The clock goes on:
`Age` is. Clients, crashes, restarts, lost locks and the batch worker's writes (as seen
from first sight) are not fair: nothing makes them happen. The runs `scoring` and `api`
check safety only and assume no fairness.

## What is not covered

- The bodies of HTTP messages, validation messages, logging, layout, signatures and
  hashes, the parsing of an uploaded CSV file.
- A second API process. The in-flight map, the throttle and the cached id are per
  process, as their comments say (`first-sight-inflight.ts:10`): with two processes an
  address may be ingested twice and the budget is doubled.
- A clock that steps back. `Date.now()` may; stamps of the future then block first-sight
  scoring for the step and a window. The throttle's model has a clock that does not.
- What the ML service does after the worker's `fetch` has timed out (no abort is
  sent): the retry spends again.
- HDBSCAN, Leiden, LightGBM, pandas, Postgres, Redis, React: libraries, trusted to do
  what the code relies on.
- `alerts.ts` is a call whose failure is swallowed, the operations scripts are shell around
  other programs, the public pages text; `GET /v1/entities` reads a table that nothing
  writes. They have no order of steps of their own to get wrong.
- Of the dashboard: the quota banner, the webhook box of the keys page, the usage and the
  settings page, the layout of the cluster graph, the progress bar and the download of
  the CSV file in the browser (its rows are `ResultPages`).
- The numbers of drift and adversarial evaluation, and the features that only the trained
  model reads.

## Plan

Done: every module of the table above, and a proof of every safety property that a run
checks. Left, in order of weight:

1. `FirstSight` with the throttle composed in, and two API processes: which of
   `SpendOnce` and `WindowRespected` remains, and with what bound.
2. The worker's timeout composed with `MlService`: what a retry spends again.
3. The parsing of an uploaded CSV file, which decides what a list is.
