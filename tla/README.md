# Formal verification of the NYC taxi lakehouse

This directory holds TLA+ specifications of the lakehouse in this repository, the TLC
configurations that check them on small instances, and TLAPS proofs of their main theorems.
Paths below are relative to the repository. `PROJECT.json` maps every definition to the source
lines it models, lists runs, hazards, findings and theorems, and gives for every property a
mutation of the model (a `Bug_...` operator) that breaks it.

## 1. The system

The Taxi and Limousine Commission (TLC in the source; not to be confused with the model checker)
publishes one Parquet file per month, sometimes corrects one, and the newest month may not exist
yet. A daily GitHub workflow copies the newest file into a bucket and launches a Databricks job,
`taxi_pipeline` (`jobs/databricks.yml`), which turns it into Delta tables (Bronze, Silver, Gold)
and Parquet files. The workflow then publishes those files to native BigQuery tables and
reconciles the two.

### Components

| Component | Source | State it keeps | Operations | Where |
|---|---|---|---|---|
| Run state table | `src/common/run_state.py` | a row per (run, task): status, payload, `updated_at` | `write`, `read`, `published_snapshots`, `dirty_months`, `ensure_not_superseded`, `execute_task` | `RunState` |
| Job queue and task chain | `jobs/databricks.yml` | one slot, queued runs, eight tasks in a chain, retries, repairs | launch, start, kill, resume | `TaxiPipeline` |
| Source landing | `src/ingestion/source_landing.py`, `manifest.py` | its row (the plan of a run), the manifest table | list the months, reuse a plan, fetch, decide which are affected | `TaxiPipeline`, `SourceIntake` (not the manifest, which no task reads) |
| Bronze Auto Loader | `src/ingestion/bronze_autoloader.py` | Bronze rows per object, checkpoint | append each new object under the raw path, count it | `TaxiPipeline` |
| Silver transform | `src/transform/silver_clean.py`, `validity_rules.py` | `trips_clean`, `trips_quarantine` per month, metrics | classify, deduplicate, replace a month in each table, reconcile | `TaxiPipeline` (the task), `SilverSnapshot` (the rows) |
| DQ gate | `src/transform/run_dq_gate.py` | its row | replay, pass, reject | `TaxiPipeline`, `SilverSnapshot` |
| Gold marts | `src/transform/run_gold_sql.py`, `sql/gold/` | three marts, a partition per month | overwrite a partition from Silver, reconcile | `TaxiPipeline` (not the aggregates) |
| Serving handoff | `src/export/export_bigquery.py`, `serving_handoff.py` | Parquet files of a run, manifest in its row | write files, write the manifest | `TaxiPipeline`, `ServingPublication` |
| Monitor | `scripts/monitor_pipeline.py` | its row: the publication event | check, publish or fail | `TaxiPipeline` |
| Publisher, reconciliation | `scripts/publish_bigquery.py`, `reconcile_bigquery.py`, `fetch_serving_handoff.py` | stage tables, target tables, receipts | fetch, load, one transaction, count | `ServingPublication` |
| Daily workflow | `.github/workflows/daily-production.yml`, `prepare_daily_source.py`, `daily_source_landing.py`, `run_cd_job.py` | artifacts of one workflow, raw objects | find, land, launch, wait, fetch, publish, reconcile | `DailyWorkflow`, `SourceIntake` (finding and landing over the calendar) |
| Databricks CLI helpers | `scripts/cd_databricks.py` | none | `launch_run`, `wait_for_run`, select from listings | `DailyWorkflow` (the first two) |
| Reference tables | `src/common/reference.py`, `load_reference_tables.py`, `reference_preflight.py`, `sql/reference/` | zones, rate codes, payment types | validate, reseed | `SilverSnapshot` (not the 90-day staleness) |
| Raw landing | `src/ingestion/raw_landing.py` | one object per (month, checksum) | create if absent, compare checksums | `RawLanding`, for `SourceIntake` and `PagedIngest` |
| Paged source API | `src/ingestion/api_client.py`, `api_simulator.py` | the cursor, the pages completed, the events so far of a call | fetch with retry, hand to the callback, deduplicate, replay | `PagedIngest` |
| Launch parameters | `src/common/runtime.py`, `scripts/backfill.py` | none | list months, validate months and URIs | `LaunchParameters` (not the checks of names) |
| Promotion workflows | `ci.yml`, `cd.yml`, `production.yml`, `compare_replay.py`, ... | evidence files | linear scripts over cloud APIs | not modelled: nothing runs beside them, their content is calls of other systems |
| Watchdog | `scripts/watchdog.py` | none | compare the age of the last landing with a limit | not modelled: one comparison of real time |
| Support code | `alerting.py`, `cost_guard.py`, `paths.py`, `run_log.py`, `databricks_run.py`, `databricks_sql.py` | none | names, messages, argument guards, polling | not modelled: no state of its own |
| Maintenance | `optimize_delta_tables.py`, benchmarks, bootstrap | none that matters here | performance, one-time set-up | not modelled |

### How they interact

The tasks of one run call nothing of each other. Each reads the row of the task before it
(`execute_task`, `RunState.read`), works on tables all runs share, and writes its own row. Runs
influence each other through three things only: the shared tables, the questions asked of the
state table (published, dirty, superseded), and the job's single slot. The export leaves files and
a manifest row; the workflow, outside Databricks, reads them by the run id that `launch_run`
returned. A publisher and a BigQuery query job are two actors: the job commits whether or not its
publisher is still alive. Operators reseed the reference tables whenever they like. The daily
workflow and the landing task put files into one bucket without knowing of each other; the only
thing between them is the precondition of the upload.

### What is hard, and what makes each part correct

* A task is killed between two Delta transactions, and a failed run is retried or repaired long
  after newer runs were active. An older run must not damage what a newer plan built
  (`SupersededNeverWrites`, `GoldKeepsNewestPlan`), nor export what it does not have
  (`HandoffFaithful`), and what it has landed from `gs://` URIs, or without URIs, must stay what it
  landed (`LandedPlanFinal`). A backfill that ends well has done what it was asked for (`BackfillServed`).
* Silver is written before the gate looks at it, so it holds unchecked months. None may reach Gold
  (`GoldOnlyChecked`, `LedgerSpec`).
* "No data" is decided from rows of earlier runs. It must not hide work (`NoDataMeansCurrent`,
  `DirtyCoversMutation`, `NoDataWasProcessed`, `NoDataOnlyStrays`).
* Silver recomputes its batch for every count and write, while the references it joins may change.
  What is accepted must add up (`AcceptedAddsUp`) and, with steady references, be exact
  (`ExactWhenSteady`, `GateCountsDeliveries`).
* A publication loads several stages and commits once, beside other publications
  (`AtomicSpec`, `PublishedComplete`, `ReconciledExact`), and a reconciliation may refuse it only for
  a reason (`MismatchExplained`).
* A dead workflow leaves a run in the queue and a query job in BigQuery
  (`PublishesWhatItLanded`), and the newest file must be served in the end
  (`NewestIsServed`). To the readers of the tables all workflows together must look like one thing
  that replaces months, and never one under examination (`ServedSpec`). Queued runs must get the slot (`QueueDrains`).
* Files appear late, in any order, and change while they are looked for. Every month must come into
  the bucket through one of two windows, over the turn of the year too (`NothingNewerSkipped`,
  `LateArrivalsLanded`, `EndedComplete`), and no object may be replaced or mistaken for another
  (`RegisterSpec`).
* A paged snapshot is read with timeouts, repeated pages and dying processes. Nothing may be lost,
  taken twice or taken before it is durable (`ReturnsTheSnapshot`, `RecordedOnce`, `TakenIsLanded`),
  a replay must agree or fail (`ReplaysAgree`), and a call must end (`StepsRunOut`, `EveryCallEnds`).

Section "hazards" of `PROJECT.json` gives each hazard with its line.

## 2. The modules

The specifications cut the system at five levels. They are linked by what one level promises and
the next assumes: `SourceIntake` and `PagedIngest` are what happens at the raw bucket, where a snapshot
is a checksum; `DailyWorkflow` is the outer workflow, where a Databricks run is an outcome and a
publication changes a month; `TaxiPipeline` is the inside of the Databricks job, where a snapshot
is a name; `SilverSnapshot` is the inside of two of its tasks, where a snapshot is a set of rows;
`ServingPublication` is the inside of export, publisher and reconciliation, where a snapshot is a
set of keys.

| Module | Content |
|---|---|
| `RunState` | The state table. `row[r][t]` is a row, `Write` the MERGE of `RunState.write`; `Published`, `DirtyMonths`, `Superseded`, `NoDataStreak` are the questions asked of it. Timestamps are compared between finished landing and monitor rows only, so `clock` ticks there. |
| `TaxiPipeline` | The job: `EXTENDS RunState`. |
| `MonthLedger` | Abstract specification of the job: landing a plan replaces the intent of its months at once; a mart partition is only ever rebuilt from the current, acceptable intent. |
| `TaxiPipelineInvariant` | The inductive invariant. `TaxiPipelineSafety` (types and safety) and `TaxiPipelineRefinement` (refinement, what "no data" and "done" mean) prove about it. |
| `SilverSnapshot`, `SilverSnapshotProofs` | The rows of the transform and the gate. |
| `AtomicPublication` | Abstract specification of the publisher: a run's months appear in every mart, with the receipt, in one step. |
| `ServingPublication`, `ServingPublicationInvariant`, `ServingPublicationProofs` | Export files, publishers, query jobs, reconciliation. |
| `DailyWorkflow`, `DailyWorkflowInvariant`, `DailyWorkflowProofs` | The daily workflow. |
| `ServedMonths` | Abstract specification of all daily workflows together: snapshots are stored, a month is replaced by a stored acceptable one, and nothing is replaced while a publication is examined. |
| `LaunchParameters` | Months, windows, accepted parameters; no state. |
| `WriteOnce` | Abstract specification of raw landing: an object is written at most once, and a writer is told that its content is stored only if it is. |
| `RawLanding`, `RawLandingProofs` | The bucket and its uploads: variables and actions that the next two share, and the lemmas that each action is a step of `WriteOnce` or none. |
| `SourceIntake`, `SourceIntakeProofs` | Monthly files: the commission, the daily workflow, the landing task, the calendar. `EXTENDS RawLanding, LaunchParameters`; the proofs include the calendar arithmetic. |
| `PagedIngest`, `PagedIngestProofs` | Calls of `ingest_snapshot` that land their pages. `EXTENDS RawLanding`. |
| `MCTaxiPipeline`, `MCSilverSnapshot`, `MCServingPublication`, `MCSourceIntake` | Instances for model checking. The last one extends `SourceIntake`, whose specification is named `FilesSpec` for that reason, and `PagedIngest`, on one bucket; a behaviour uses one of them. |

### TaxiPipeline

`phase`, `task`, `active` are the queue and the chain. A run is `queued`, then `ready` to begin
its task, `busy` inside it, `failed` or `done`. `todo` holds the table partitions the running task
has yet to write: `clean` and `quarantine` of a month are two Delta transactions
(`silver_clean.replace_snapshot` twice), as is each mart partition. `bronze`, `clean`,
`quarantine`, `gold`, `export` name the snapshot each partition holds.

| Code | Actions |
|---|---|
| launch, queue, kill, retry, repair | `Submit`, `Start`, `Crash`, `Resume`; `TaskFails` for an exception |
| `source_landing.run` | `LandingReusesPrior`, `LandingBegins`, `LandingEnds`, `LandingUnavailable` |
| `execute_task` around the other tasks | `PassNoData`, `RefuseSuperseded`, `TaskBegins` |
| preflight, `bronze_autoloader.run` | `PreflightEnds`, `BronzeEnds` |
| `silver_clean.run` | `ReplaceClean`, `ReplaceQuarantine`, `SilverEnds` |
| `run_dq_gate.run` | `GateReplay`, `GatePasses`, `GateRejects` |
| `run_gold_sql.run` | `WriteMart`, `GoldEnds` |
| `prepare_serving_handoff` | `ExportEnds` |
| `monitor_pipeline.run` | `MonitorPasses`, `MonitorFails` |

What is abstracted: a snapshot is a model value, in `Good` if the gate's thresholds accept it; the
months of a plan are written in any order; the freshness check of the monitor is nondeterministic.
A source URI in a request is a snapshot if it is a `gs://` one, which names one object, and
`Elsewhere` if it is an `https://` or `file://` one. The file there is taken to be the commission's, as
it is served at the time (`Fetched`); it is landed under a `gs://` URI of its own, so it never equals
what a retry compares it with (`SamePlan`, `src/ingestion/source_landing.py:186-188`). `LandingEnds`
fetches all months and decides in one step; the loop, with files that change during it, is in
`SourceIntake`. `Strays` are the objects that give no Bronze rows: those outside the path
Auto Loader reads, and those without a row. `MaxResumes` counts the retries and repairs of all runs.
A scheduled request here means what the task code does
without `--source-uri`. The job file itself passes the default `source_uri: ''`, which
`runtime_config` refuses (`src/common/runtime.py:88-93`); see section 5.

### SilverSnapshot

A row has a trip, the set of `Rules` it fails, two locations and two codes. `Reason` is
`classify_batch`: the first failed rule, or else the first unresolved reference. `ValidRows` and
`InvalidRows` are `process_batch` with its deduplication by `trip_id`, and by `trip_id` and reason.
The three counts and the two writes each evaluate them in the references of that moment
(`CountValid`, `CountQuarantine`, `CountBad`, `WriteClean`, `WriteQuarantine`); `Check` is the
comparison of the stored tables with the counts; `Gate` is `check_snapshot_metrics`. `SeedZone`,
`SeedRate`, `SeedPayment` replace references in between; the two small tables are truncated, filled
and stamped in three statements. `steady` is a history variable: no reference changed since the
task began. Column casts, renaming and the data of a trip are left out.

### ServingPublication

`files` and `manifest` are the versions of the Parquet objects of a run and those its handoff names;
a repeated export overwrites them and drops the handoff first (`ExportBegins`, `WriteFiles`,
`ExportEnds`, `ExportFails`).
A publisher fetches a manifest (`Fetch`), loads each mart and month into its own stage
(`Load`, `LoadFails`; the stage name contains the attempt, `StageName`), submits one transaction
(`Submit`) and waits. The query job is an actor of its own: `JobCommits` or `JobAborts`, with the
publisher alive or dead (`PublisherDies`). `CountRows` and `ReconcileEnds` are the reconciliation,
partition by partition. A row is a key and the snapshot it came from.

### DailyWorkflow

One action per step: `Discover` (the HEAD requests, newest candidate first), `Get` (the download,
which finds the file as it is by then, or gone), `Upload`, `Launch`, `RunSeen`, `Fetch`, `Submit`,
`PublishReturns`, `Reconcile`. `WorkflowFails` ends a workflow at any step and leaves what it
started; `LaunchLost` is a launch whose answer never arrives. `MayStart` is the concurrency group.

### RawLanding, SourceIntake, PagedIngest, LaunchParameters

`object[u]` is the `source_sha256` in the metadata of an object, which is all the code looks at.
`Create` is the upload under `if_generation_match=0`; its answer may be lost, and the repeated
request is then refused (`Refuse`) for the uploader's own object. `Compare` is the reload and the
comparison of checksums. Objects copied by hand have no checksum (`NoSum`).

`SourceIntake` keeps the calendar. `DailyProbes` is one HEAD request of `discover_latest`,
`DailyGets` and `DailyEnds` are `download_and_land`; `JobBegins` takes accepted parameters and
lists the months; `JobRegisters`, `JobSkips`, `JobFetches`, `JobLanded` and `JobFails` are the loop of
`source_landing.run`. `since`, `touched` and `ran` are history variables: when a file last changed,
whose file changed under way, and which scheduled landings succeeded. A month's file may appear
once the month is over.

In `PagedIngest`, `TimesOut`, `BeyondSnapshot`, `Receive`, `ReceiveAgain`, `CallbackEnds` and `Take`
are the two loops of `ingest_snapshot`, `Begin` and `Dies` the process around them. A client has
events, pages that time out once, pages that name themselves as the next page once, and may reverse
even pages. The callback lands a page as an object, as the docstring of `ingest_snapshot` asks. Two
details of the code are kept: a first page delivered again by a named cursor has another
`page_key` and so its callback runs twice; and a page already completed is still merged.
`duplicate_page_numbers` of the simulator changes nothing in `fetch_page`, so the repository's own
test of duplicate pages delivers none; the model takes repetitions from the `PageClient` protocol.

`LaunchParameters` has `months_between`, `expected_months` and `candidate_months` as operators on
year and month, and what `runtime_config` accepts.

## 3. The runs

`IInv` of the job, and `Inv` of the publication and the daily workflow, are the inductive invariants
of the proofs; `Inv` includes `TypeOK`. Every configuration is finite because the constants are; the named bounds are listed with it.
State counts are distinct states.

| Run | Instance | Shows |
|---|---|---|
| `overlap` | 2 runs, 2 months, 3 snapshots and a stray object, two resumes in all; plans {m1, m2}, {m2} and a stray m1; superseded runs are repaired too | `TypeOK`, `HandoffFaithful`, `GoldKeepsNewestPlan`, `ChainReady`, `SupersededNeverWrites`, `LedgerSpec`, `NoDataOnlyStrays`, `BackfillServed`. An older run cannot damage what a newer plan built, a handoff holds what it names, a backfill that is done has served what it was asked for, and the job implements the ledger. 2.2 M states |
| `scheduled` | 3 runs without resumes, 1 source change, a good and a rejected served snapshot | `NoDataMeansCurrent`, `IInv`. Three runs are needed: one publishes, one dirties the month, one must notice. 1.3 M |
| `repairs` | 2 runs, two resumes in all, 1 source change, superseded runs are left alone | `DirtyCoversMutation`, `GoldOnlyChecked`: only checked data reaches Gold although unchecked data passes through Silver. 3.9 M |
| `queue` | 2 runs, each scheduled or a backfill from a `gs://` or from an `https://` or `file://` URI, 1 month, 1 mart, one resume, under `FairSpec`, no symmetry | `QueueDrains`, `LandedPlanFinal`: a run with other URIs lands anew beside one whose plan is final. 0.7 M |
| `intake` | 4 months over the turn of a year, 2 of them late or to come, 2 contents, 1 change, 4 launches, lag and lookback 2; or 2 calls, 6 clients of up to 3 pages, 1 death, under fairness of the calls | `TypeOK` (calls), `FilesTypeOK` (files), `EndedComplete`, `LateArrivalsLanded`, `NothingNewerSkipped`, `ReturnsTheSnapshot`, `RecordedOnce`, `TakenIsLanded`, `ReplaysAgree`, `RegisterSpec`, `StepsRunOut`, `EveryCallEnds`. 0.3 M |
| `silver` | 2 months, 4 snapshots (duplicates, a rescued delivery, a correction that drops a trip, a missing object), 3 versions of the zones, 2 reseeds | `TypeOK`, `AcceptedAddsUp`, `ExactWhenSteady`, `ExactSoFar`, `GateCountsDeliveries`. 0.7 M |
| `publish` | 2 runs with a common month, 2 publishers, 3 keys, 2 marts, one export repeated | `Inv`, `PublishedComplete`, `ReconciledExact`, `MismatchExplained`, `AtomicSpec`. 0.2 M |
| `daily` | 2 workflows, 2 run ids, 2 months, 3 contents, 2 source changes, 1 override, 1 fault, under `FairSpec` | `Inv`, `PublishesWhatItLanded`, `ServedSpec`, `NewestIsServed`. 0.7 M |
| `stale_monitor`, `relanded_gold`, `stray_no_data`, `leftover_rows` | as `repairs`; 2 runs with 1 month and a good and a rejected snapshot; the same with a good and a stray one; and `publish`; each with the case allowed | a violated property each: section 5 |

Why the bounds suffice. The interesting cases of the job need two runs: one that was interrupted
and one that was active meanwhile; `MaxResumes` = 2 lets each be interrupted at any task and taken
up again at that task or an earlier one, or one of them twice; in `queue`, where no property compares two
repairs, it is 1. Two months separate a partial overlap of plans from a full
one. In `overlap` every snapshot but the stray one is acceptable, so that `BackfillServed` can only fail
there in its other parts; that a rejected snapshot never ends a run well is the theorem's part.
`MaxSourceChanges` and `MaxChanges` count how often the authority replaces or withdraws a
file; each change is an independent event, and one after a publication is the case the properties
are about. `MaxFaults` bounds how often workflows fail: the liveness property says the newest file
is served once failures, changes and overrides stop. `MaxSeeds` = 2 changes references twice
during one task. `MaxNoDataRuns` = 2 is the alarm threshold of the configuration. For `intake`: November is late, so a landing in January and one in February see it at the two ends
of a window; January's file can only come in February; two contents make a correction. Three pages
let an event return on another page and the second page be reversed; `MaxDeaths` = 1 lets a call die
at any step and begin again, with the other source or the same. Symmetry
(interchangeable runs, publishers, marts) is used for safety only. `CHECK_DEADLOCK` is off for the
job, the publication and the intake, which stop when every run, publisher or call has ended; it is on for `daily`
and `silver`.

Fairness. `TaxiPipeline`: weak fairness of `Step`, because each task has `timeout_seconds` and so
ends; strong fairness of `Start`, because the queue starts every queued run while others keep
taking the slot. `DailyWorkflow`: the cron trigger fires every day (`Scheduled`), runners go on
(`Step`), and a Databricks run and a BigQuery job end one way or the other. Nothing forces an
outcome to be a success: that is left to the bound on faults. `intake`: weak fairness of the steps of each call, because a running process goes on
and a storage request ends, in success or failure; nothing forces a process to start again. No other
module states liveness.

## 4. What is proved

TLAPS proves the following for all values of the constants that meet the named assumptions, so for
any number of runs, months, snapshots, marts, publishers, rows and workflows.

The job (`TaxiPipelineSafety`, `TaxiPipelineRefinement`):

* `TypeCorrect` (`TaxiPipelineSafety`): the job is well typed.
* `InvCorrect`, `GoldChecked`, `ChainCorrect`, `SupersededSilent` (`TaxiPipelineSafety`). The
  property `GoldOnlyChecked` is not inductive: it depends on what Silver holds when Gold reads it.
  `TaxiPipelineInvariant!IInv` closes the gap. The slot belongs to one run (`SlotInv`), which
  has passed all earlier tasks (`ChainInv`) with one plan (`PlanInv`) and, inside a task, the
  newest plan of its months (`BusyInv`); landings are totally ordered (`StampInv`); so a month's
  Silver table is only written by the run with its newest plan, and what that run wrote is still
  there (`SilverInv`); past the gate all of it is acceptable (`GateInv`).
* `GoldStays`, `HandoffIsPlan` (`TaxiPipelineSafety`): what a successful Gold task built stays until
  a newer plan of its months is landed, and a successful handoff holds the plan of its run.
  Within the task, partitions done with are right (`GoldBuilding`), because Silver holds the plan
  (`SilverInv`); after it, only the slot's run writes, and it would have superseded the plan
  (`GoldHeld`); the export copies Gold while it is held, and nobody else writes those files
  (`HandedOver`).
* `LandingIsFinal` (`TaxiPipelineSafety`): a successful landing row of a run whose URIs are `gs://` ones,
  or that has none, is never written again, whatever other runs do. An attempt that finds it reuses
  it, because the row has the URIs it was asked for (`LandedInv`, a small invariant of its own that
  needs only `Relanding = FALSE`). This is what a plan is to every other run, and what makes the
  `Handoff` of `ServingPublication` a constant for the runs the daily workflow launches.
* `NoDataHidesOnlyStrays`, `BackfillServes` (`TaxiPipelineRefinement`). Bronze holds rows of every
  snapshot of a plan that is not stray once the run is past the Auto Loader (`IngestedInv`), so the
  gate finds no row only if all of them are stray (`EmptyInv`); a landing has the months and URIs it was asked
  for (`AskedInv`, `PlanInv`); and a run that is done has passed every task (`DoneInv`, `UpstreamInv`),
  all with one plan.
* `NewestCorrect`, `ImplementsLedger` (`TaxiPipelineRefinement`): the newest landing of a month
  exists and is unique, and under the mapping "intent of a month = plan of its newest landing" the
  job, with its queue, kills, repairs and shared tables, implements `MonthLedger`.
* `DirtyCovers`, `NoDataIsCurrent` (`TaxiPipelineRefinement`): a month that differs between the tables
  or from the last report is listed as dirty, and a run that ends with "no data" leaves a lakehouse
  that holds what the source served when it was fetched. If superseded runs are left alone, the run in the slot has the
  newest plan of its months (`SlotFresh`), so a monitor reports before any newer plan is landed
  (`Reported`), all upstream rows then being successes (`UpstreamInv`); what it reported is in both
  Silver tables and in every mart until then (`ReportedHeld`, from `QuarantineInv` and
  `GoldHeld`), and a month that was never landed is empty everywhere (`Untouched`).

The publication (`ServingPublicationProofs`):

* `PublicationTyped`, `PublicationInvariant`, `PublicationIsComplete`, `ReconciliationIsExact`,
  `PublicationIsAtomic`. The invariant says that a stage holds exactly
  the loaded months of its run (`StageInv`), that a job exists only with everything staged
  (`JobInv`), that publications are numbered (`NumberInv`), and that what was counted since the
  newest publication is served exactly (`CountInv`). Reconciliation compares counts; that equal
  counts mean equal rows uses that the newest publication's rows are all there (`NewestServed`).
* `MismatchIsExplained`: the newest publication is refused only if an earlier one of one of its months
  had keys it lacks. Served rows come from publications (`ServedInv`), and a count that differs is
  of a partition that was served since and holds a key of such a publication (`RefusedInv`, from
  `CountDiffers`: a proper subset of a finite set is smaller).

The workflow, and the rows of Silver:

* `WorkflowTyped`, `WorkflowInvariant`, `OwnPublication`, `OwnReconciliation` (`DailyWorkflowProofs`): one workflow
  is active, its run is its own whatever runs were left behind, and no other query job is running.
  `ReconcilesItsOwn` is not in a run of its own: `ServedSpec` fails wherever it does.
* `WorkflowsKeepThePromise` (`DailyWorkflowProofs`): any number of workflows, with what they leave
  behind, implements `ServedMonths`. What is examined is mapped to the month and snapshot of the
  workflow that reconciles; since one is active (`OneActive`) and no job runs beside it (`JobsInv`),
  no publication falls into an examination, and a job can only serve what was landed and
  passed its run (`RunsInv`).
* `WrittenExactly`, `AcceptedExactly` (`SilverSnapshotProofs`): what the transform has written is
  what steady references say, by induction over its months.
* `SilverTyped`, `AcceptedSums`, `GateCountsEveryDelivery` (`SilverSnapshotProofs`): the counts and the tables agree
  month by month (`CountInv`) whatever is reseeded, and bad deliveries are counted exactly if the
  references stood still.

The raw bucket:

* `TypeCorrect`, `RecordsOnce`, `TakesOnlyLanded`, `ReplaysReturnTheSame` (`PagedIngestProofs`), for any number of
  calls, pages, timeouts, repetitions and deaths. The invariant says that the cursor stays in the
  snapshot (`CursorInv`), that an upload is under way just while the callback runs (`UploadInv`), that
  completed pages are stored (`LandedInv`), and that a call holds, of each id, the event of the
  first page that has it (`GotInv`). Two calls that returned have all pages, both as stored, and
  these determine what they hold (`GivesUnique`).
* `ReturnsExactlyTheSnapshot` (`PagedIngestProofs`): a call returns what `collect_unique_events` makes
  of all pages in their order. `IterEvents` is a flattened sequence of sequences of any length; the
  argument is by the least page that would be wrong (`Least`), which needs no induction theorem
  with an operator parameter.
* `NoEndlessCall` (`PagedIngestProofs`): every step of a call decreases `StepsLeft`, a natural number made
  of the client's remaining timeouts and repetitions (finite sets whose cardinalities fall,
  `FewerLeft`), the pages left and the steps of a page. This is the safety half of `EveryCallEnds`;
  what fairness adds is only that steps are taken.
* `LandingIsWriteOnce` (`PagedIngestProofs`) and `FilesAreWrittenOnce` (`SourceIntakeProofs`): with any
  uploaders at once, lost answers and objects of other tools, the bucket implements `WriteOnce`,
  for pages and for monthly files. Both rest on `RegisterStep` of `RawLandingProofs`.
* `LoopStaysInRange`, `LoopVisitsAll`, `WindowIsLateMonths`, `WindowsLeaveNoGap`, `AcceptedBackfill`
  (`SourceIntakeProofs`): the loops visit the months they should, all and no other, over any number of years, the
  window of a landing is exactly the months late by lag to lag + lookback - 1, the next month's window
  continues it, and an accepted backfill is a range of at most twelve months with its own URIs.
* `IntakeCorrect`, `LandingIsComplete`, `LateArrivalsCaught`, `NewestIsFound` (`SourceIntakeProofs`), for any calendar,
  number of changes and accepted launches. A job has dealt with the months before its position
  (`JobInv`) and the daily workflow with the candidates before its own (`DailyInv`), in the sense
  that the file is stored as served, or changed since they began; nothing stored vanishes
  (`StoredInv`) and no file is older than its month (`DayInv`). With `WindowIsLateMonths` this
  gives that a file within the window's lateness is stored by the next landing.

Assumptions the theorems rest on, besides the typing of constants:

* `LandsOnce` for the safety and refinement theorems of the job: a repair keeps its source URIs, and
  these are `gs://` URIs. Otherwise `GoldOnlyChecked` is false: with other URIs that is the finding `relanded_gold`;
  with `https://` or `file://` URIs no correction is needed, because every retry of such a landing
  overwrites its row. The daily workflow passes `gs://` URIs only, and the schedule none. `TypeCorrect` needs
  neither part, `LandingIsFinal` only `Relanding = FALSE`.
* `RepairSuperseded = FALSE` for `DirtyCovers` and `NoDataIsCurrent`: operators leave superseded runs
  alone. Otherwise both are false (finding `stale_monitor`).
* `SourceIntake!IntakeAssumption`: each file has an object of its own, the behaviour starts late enough
  for its windows to lie in the calendar, and URIs are given with the months they are for.
  `MCSourceIntake` states it of its instance, so TLC evaluates it.
* `SilverSnapshot!RowAssumption`: deliveries of one trip differ only in what Auto Loader rescued,
  because `trip_id` hashes every source column.
* `DailyWorkflow!Submit` waits for query jobs of dead workflows. The code does not wait; between
  the death of a publisher and the next submission lies a whole Databricks run, and a publication
  takes seconds.
* `PagedIngest!PageAssumption`: pages have objects of their own, and equal checksums mean equal pages.
* The job of a publication is a transaction of BigQuery; a MERGE is a transaction of Delta.

What one level proves is what the next takes for granted. `LandingIsFinal` and `HandoffIsPlan` say that
a run's handoff is one plan, complete, as `ServingPublication` assumes of its constant `Handoff`.
`BackfillServes` says what `DailyWorkflow` takes a successful run for, and `PublicationIsAtomic`
that a publication changes its months at once, as `DailyWorkflow!JobCommits` has it.
`FilesAreWrittenOnce` says that a raw object keeps its content, so that a month and a checksum are a
snapshot everywhere above. These links are arguments over the modules, not one composed theorem.

Only model-checked: the liveness properties `QueueDrains`, `NewestIsServed` and `EveryCallEnds`, which
the prover cannot handle (neither fairness nor `ENABLED`). Every invariant, action property and
refinement of a passing run is a theorem. No module declares a `RECURSIVE` operator.

## 5. Findings

Each is a run in which TLC shows how the code breaks what the repository says; `PROJECT.json` has
the quotations.

* `stale_monitor`: the monitor does not ask whether its run is superseded
  (`scripts/monitor_pipeline.py:61`). If run A fails in its monitor, run B lands and rewrites the
  month and fails, and A's monitor is then repaired, A's publication hides that the month is dirty.
* `relanded_gold`: a repair with other source URIs overwrites the landing row by RUNNING
  (`src/ingestion/source_landing.py:193`), so for a while it supersedes nobody. An older run
  repaired at `aggregate_gold` then computes Gold from a Silver month its gate never saw. The
  months changed by the first attempt are also no longer dirty if the second fails. A run with `https://` or
  `file://` URIs, which `runtime_config` accepts, has the same effect without a correction: what it
  was asked for never equals the `gs://` URIs it stored, so each retry of its landing overwrites the row.
* `stray_no_data`: a landed `gs://` object outside the Auto Loader path, or one without rows, has no Bronze
  rows, and its row count is not known at landing; Silver replaces the month by nothing, and the gate calls that an already processed
  snapshot (`src/transform/run_dq_gate.py:47`). Theorem `NoDataHidesOnlyStrays` is the other side: nothing
  else is ever passed over in this way.
* `leftover_rows`: the publication merges and never deletes (`scripts/publish_bigquery.py:95`). A
  corrected month without one of its earlier keys keeps the old row, and its reconciliation can
  never pass. Theorem `MismatchIsExplained` is the other side: a reconciliation of the newest publication
  fails for no other reason.

Two observations without a run, because nothing that runs is violated by them:

* The job's default `source_uri: ''` (`jobs/databricks.yml:55-56`) reaches the `source_landing` task
  (`jobs/databricks.yml:106-107`) as `--source-uri ''`, one malformed item for `runtime_config` (`src/common/runtime.py:88-92`), which
  raises. So the job's own schedule and `scripts/backfill.py`, which leaves the parameter alone, never
  get past their first task; theorem `DefaultUriRefused` shows it for every month and range. Only the
  workflows, which always pass a map, launch runs that work.
* `WindowIsLateMonths` is also a limit: a file that appears lag + lookback months late is in no
  window, and the daily workflow passes it over if a newer one exists.

## 6. What is left out, and what to keep in mind

* Data: the aggregates of the marts, column casts, file formats, log and evidence files; the checks
  of the names of catalogs, buckets, projects and runs in `runtime_config`.
* A reseed of the reference tables between Silver's two writes can leave a trip in neither table or
  in both while all counts agree. `ExactWhenSteady` therefore assumes steady references;
  `AcceptedAddsUp` is what survives without them.
* `SourceIntake` has the commission's files and `gs://` URIs only; `https://` and `file://` URIs are in
  `TaxiPipeline`. URIs without a range of months, which `runtime_config` admits, are in neither
  (`RequestAssumption`, `IntakeAssumption`): nothing in the repository launches a run with them.
* A page of the paged source times out at most once; the counting of several retries of one page is not exercised
  beyond that.
* The freshness alarm and the watchdog compare wall-clock times.
* Dead code (`silver_clean.write_batch`, the direct BigQuery export of `export_bigquery.py`).
* The components marked "not modelled" in section 1.

## 7. Plan

Done, in this order: run state and job; month ledger and its refinement; publication and its
refinement; daily workflow and its refinement; Silver rows; launch parameters, raw landing and its refinement, the
intake of files, the paged source; the proofs of section 4. What remains worth doing:

1. A run that is repaired while its handoff is being published, joining `TaxiPipeline` and
   `ServingPublication`.
2. The aggregates of the marts against their definition over the rows of `SilverSnapshot`.

## 8. Running it

    tlc -workers 2 -config overlap.cfg MCTaxiPipeline     # each run: module and cfg in PROJECT.json
    tlapm TaxiPipelineSafety.tla                          # each module of proofs
