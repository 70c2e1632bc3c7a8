---------------------------- MODULE TaxiPipeline ----------------------------
(***************************************************************************)
(* The Databricks job `taxi_pipeline` (jobs/databricks.yml): runs share    *)
(* the Bronze, Silver and Gold tables and one pipeline_run_state table.    *)
(* At most one run is active (max_concurrent_runs: 1, queue enabled); a    *)
(* run that failed or was killed is taken up again later, with its own     *)
(* run id and state rows, by a task retry or an operator's repair, and     *)
(* other runs may have been active in between.                             *)
(*                                                                         *)
(* A task is split at the writes that are separate Delta transactions:     *)
(* state row, Silver clean, Silver quarantine, each Gold mart partition.   *)
(* The months of a plan and the marts of a month are written in some       *)
(* order, the code's fixed order being one of them.                        *)
(***************************************************************************)
EXTENDS RunState

CONSTANTS Marts,             \* the Gold marts of run_gold_sql.MARTS
          Good,              \* snapshots that pass the DQ gate's thresholds
          Strays,            \* gs:// snapshots that give Bronze no row
          Elsewhere,         \* an https:// or file:// source URI
          Served,            \* snapshots TLC may serve for a month
          LatestMonth,       \* expected_months(config)[-1] of a scheduled run
          Requests,          \* the launch parameters that may be given
          MaxNoDataRuns,     \* monitoring.max_no_data_runs
          RepairSuperseded,  \* may an operator repair a superseded run
          Relanding,         \* may a repair carry other source URIs
          NoRun,             \* no run is active
          MaxResumes,        \* bound on retries and repairs of all runs
          MaxSourceChanges   \* bound on changes of the TLC files

\* backfill: start/end months are given, so nothing may be unpublished.
\* uris: the --source-uri map. A gs:// URI contains the snapshot it names; an
\* https:// or file:// URI names a file, landed under a gs:// URI of its own.
Request == [backfill : BOOLEAN, months : SUBSET Months,
            uris : [Months -> Snapshots \cup {NoSnapshot, Elsewhere}]]

ASSUME PipelineAssumption ==
    /\ Good \subseteq Snapshots
    /\ Strays \subseteq Snapshots
    /\ Served \subseteq Snapshots \ Strays
    /\ Elsewhere \notin Snapshots \cup {NoSnapshot}
    /\ Marts # {}
    /\ LatestMonth \in Months
    /\ Requests \subseteq Request
    /\ \A q \in Requests : q.months # {}
    /\ RepairSuperseded \in BOOLEAN
    /\ Relanding \in BOOLEAN
    /\ NoRun \notin Runs
    /\ {MaxNoDataRuns, MaxResumes, MaxSourceChanges} \subseteq Nat

\* Source URIs are given for every month of a backfill or for none
\* (runtime_config); the schedule of databricks.yml gives none.
ASSUME RequestAssumption ==
    \A q \in Requests :
        /\ Covered(q.uris) \in {{}, q.months}
        /\ ~q.backfill => q.uris = NoPlan /\ q.months = Months

VARIABLES phase,       \* phase[r]: where run r is in the job queue and chain
          task,        \* task[r]: the task run r executes or failed in
          request,     \* request[r]: the parameters run r was launched with
          resumes,     \* how often a failed run was taken up again
          active,      \* the run holding the job's only slot, or NoRun
          todo,        \* table partitions the active task has yet to write
          source,      \* the snapshot TLC serves for each month
          changes,     \* how often TLC changed it
          bronze,      \* <<month, snapshot>> objects ingested into Bronze
          clean,       \* snapshot held by trips_clean for each month
          quarantine,  \* snapshot held by trips_quarantine for each month
          gold,        \* snapshot each mart partition was computed from
          export       \* Gold contents in each run's serving handoff

queueVars == <<phase, task, request, resumes, active, todo>>
sourceVars == <<source, changes>>
silverVars == <<clean, quarantine>>
lakeVars == <<bronze, clean, quarantine, gold, export>>
vars == <<row, clock, phase, task, request, resumes, active, todo,
          source, changes, bronze, clean, quarantine, gold, export>>

Phase == {"unknown", "queued", "ready", "busy", "failed", "done"}

\* Mutant: aggregate_gold depends on transform_silver, beside the gate.
Bug_Successor == [source_landing      |-> "reference_preflight",
                  reference_preflight |-> "ingest_bronze",
                  ingest_bronze       |-> "transform_silver",
                  transform_silver    |-> "aggregate_gold",
                  dq_gate             |-> "aggregate_gold",
                  aggregate_gold      |-> "export_bigquery",
                  export_bigquery     |-> "monitor"]

\* The chain of depends_on in databricks.yml, and the place of a task in it.
Successor == [source_landing      |-> "reference_preflight",
              reference_preflight |-> "ingest_bronze",
              ingest_bronze       |-> "transform_silver",
              transform_silver    |-> "dq_gate",
              dq_gate             |-> "aggregate_gold",
              aggregate_gold      |-> "export_bigquery",
              export_bigquery     |-> "monitor"]

Place == [source_landing |-> 1, reference_preflight |-> 2, ingest_bronze |-> 3,
          transform_silver |-> 4, dq_gate |-> 5, aggregate_gold |-> 6,
          export_bigquery |-> 7, monitor |-> 8]

NoRequest == [backfill |-> FALSE, months |-> {}, uris |-> NoPlan]

\* The units a task writes in one Delta transaction.
SilverPartition == {"clean", "quarantine"} \X Months
GoldPartition == Marts \X Months
Partition == SilverPartition \cup GoldPartition

\* Every table cell, row and queue entry is a value of its type.
TypeOK ==
    /\ RowTypeOK
    /\ phase \in [Runs -> Phase]
    /\ task \in [Runs -> Task]
    /\ request \in [Runs -> Request]
    /\ resumes \in Nat
    /\ active \in Runs \cup {NoRun}
    /\ todo \subseteq Partition
    /\ source \in Plan
    /\ changes \in Nat
    /\ bronze \subseteq Months \X Snapshots
    /\ clean \in Plan
    /\ quarantine \in Plan
    /\ gold \in [Marts -> Plan]
    /\ export \in [Runs -> [Marts -> Plan]]

Init ==
    /\ RowInit
    /\ phase = [r \in Runs |-> "unknown"]
    /\ task = [r \in Runs |-> "source_landing"]
    /\ request = [r \in Runs |-> NoRequest]
    /\ resumes = 0
    /\ active = NoRun
    /\ todo = {}
    /\ source \in [Months -> Served \cup {NoSnapshot}]
    /\ changes = 0
    /\ bronze = {}
    /\ clean = NoPlan
    /\ quarantine = NoPlan
    /\ gold = [mart \in Marts |-> NoPlan]
    /\ export = [r \in Runs |-> [mart \in Marts |-> NoPlan]]
-----------------------------------------------------------------------------
(***************************************************************************)
(* The job queue and the environment.                                      *)
(***************************************************************************)

\* run-now: a run is launched with its job parameters and waits for the slot.
Submit(r, q) ==
    /\ phase[r] = "unknown"
    /\ phase' = [phase EXCEPT ![r] = "queued"]
    /\ request' = [request EXCEPT ![r] = q]
    /\ UNCHANGED <<stateVars, task, resumes, active, todo, sourceVars, lakeVars>>

Start(r) ==
    /\ active = NoRun
    /\ phase[r] = "queued"
    /\ active' = r
    /\ phase' = [phase EXCEPT ![r] = "ready"]
    /\ UNCHANGED <<stateVars, task, request, resumes, todo, sourceVars, lakeVars>>

\* Every source URI of the request, if it has any, is a gs:// one.
FromBucket(q) == \A m \in Months : q.uris[m] # Elsewhere

\* A repair may be given other source URIs ("an explicit correction").
Corrected(q) ==
    IF Relanding THEN {c \in Requests : c.backfill = q.backfill /\ c.months = q.months}
    ELSE {}

\* No landing of a run is ever replaced by another of the same run: repairs keep
\* the source URIs, and those are gs:// URIs.
LandsOnce == Relanding = FALSE /\ \A q \in Requests : FromBucket(q)

\* A task retry or a repair run takes a failed run up again at task t.
Resume(r, t) ==
    /\ active = NoRun
    /\ phase[r] = "failed"
    /\ resumes < MaxResumes
    /\ Place[t] <= Place[task[r]]
    /\ RepairSuperseded \/ ~Superseded(r, row[r]["source_landing"].payload.plan)
    /\ active' = r
    /\ phase' = [phase EXCEPT ![r] = "ready"]
    /\ task' = [task EXCEPT ![r] = t]
    /\ resumes' = resumes + 1
    /\ \E q \in {request[r]} \cup (IF t = "source_landing" THEN Corrected(request[r])
                                 ELSE {}) :
          request' = [request EXCEPT ![r] = q]
    /\ UNCHANGED <<stateVars, todo, sourceVars, lakeVars>>

\* A task is killed or times out: its row keeps what was last written.
Crash(r) ==
    /\ phase[r] \in {"ready", "busy"}
    /\ phase' = [phase EXCEPT ![r] = "failed"]
    /\ active' = NoRun
    /\ todo' = {}
    /\ UNCHANGED <<stateVars, task, request, resumes, sourceVars, lakeVars>>

\* TLC publishes or corrects a monthly file.
ChangeSource(m, s) ==
    /\ changes < MaxSourceChanges
    /\ source[m] # s
    /\ source' = [source EXCEPT ![m] = s]
    /\ changes' = changes + 1
    /\ UNCHANGED <<stateVars, queueVars, lakeVars>>
-----------------------------------------------------------------------------
(***************************************************************************)
(* How a task of the active run ends.                                      *)
(***************************************************************************)
At(r, t, p) == task[r] = t /\ phase[r] = p

Advance(r) ==
    IF task[r] = "monitor"
    THEN /\ phase' = [phase EXCEPT ![r] = "done"]
         /\ active' = NoRun
         /\ UNCHANGED task
    ELSE /\ phase' = [phase EXCEPT ![r] = "ready"]
         /\ task' = [task EXCEPT ![r] = Successor[task[r]]]
         /\ UNCHANGED active

\* The row of r's current task is written and the chain goes on.
Succeed(r, status, payload) ==
    /\ ValidState(status, payload)
    /\ Write(r, task[r], status, payload)
    /\ Advance(r)
    /\ todo' = {}
    /\ UNCHANGED <<request, resumes, sourceVars>>

\* Mutant: a failed run keeps the job's slot.
Bug_Fail(r, payload) ==
    /\ Write(r, task[r], "FAILED", payload)
    /\ phase' = [phase EXCEPT ![r] = "failed"]
    /\ todo' = {}
    /\ UNCHANGED <<active, task, request, resumes, sourceVars, lakeVars>>

\* An exception in the task: FAILED is written, the exception fails the run.
Fail(r, payload) ==
    /\ Write(r, task[r], "FAILED", payload)
    /\ phase' = [phase EXCEPT ![r] = "failed"]
    /\ active' = NoRun
    /\ todo' = {}
    /\ UNCHANGED <<task, request, resumes, sourceVars, lakeVars>>

\* RUNNING is written and the action of the task starts.
Begin(r, payload, work) ==
    /\ Write(r, task[r], "RUNNING", payload)
    /\ phase' = [phase EXCEPT ![r] = "busy"]
    /\ todo' = work
    /\ UNCHANGED <<task, request, resumes, active, sourceVars, lakeVars>>
-----------------------------------------------------------------------------
(***************************************************************************)
(* source_landing.run                                                      *)
(***************************************************************************)
Landing == "source_landing"

Expected(r) == IF request[r].backfill THEN request[r].months ELSE Months

\* Mutant: a repair lands the months anew.
Bug_SamePlan(r) == FALSE

\* The requested URIs against the landed ones. Every landed URI is a gs:// one,
\* so an https:// or file:// URI never equals the one it was landed under.
SamePlan(r) ==
    \A m \in Covered(request[r].uris) :
        row[r][Landing].payload.plan[m] = request[r].uris[m]

LandingReusesPrior(r) ==
    /\ At(r, Landing, "ready")
    /\ Passed(row[r][Landing].status)
    /\ SamePlan(r)
    /\ Advance(r)
    /\ UNCHANGED <<stateVars, request, resumes, todo, sourceVars, lakeVars>>

LandingBegins(r) ==
    /\ At(r, Landing, "ready")
    /\ ~(Passed(row[r][Landing].status) /\ SamePlan(r))
    /\ Begin(r, NoPayload, {})

\* fetch_snapshot: the object of a gs:// URI, or what the URL serves now; the
\* file at an https:// or file:// URI is TLC's, or a copy that follows it.
Fetched(r, m) ==
    IF request[r].uris[m] \in Snapshots THEN request[r].uris[m] ELSE source[m]

\* Only the latest month of a scheduled run may be unpublished, and not again.
MayBeMissing(r, m) ==
    /\ ~request[r].backfill
    /\ m = LatestMonth
    /\ Published(m) = NoSnapshot

Missing(r) == {m \in Expected(r) : Fetched(r, m) = NoSnapshot}

\* Mutant: a published month is left alone although a later run touched it.
Bug_LandedPlan(r) ==
    [m \in Months |->
        IF m \in Expected(r) /\ (request[r].backfill \/ Published(m) # Fetched(r, m))
        THEN Fetched(r, m) ELSE NoSnapshot]

\* The affected months: all of a backfill; else those dirty or changed.
LandedPlan(r) ==
    [m \in Months |->
        IF /\ m \in Expected(r)
           /\ \/ request[r].backfill
              \/ m \in DirtyMonths
              \/ Published(m) # Fetched(r, m)
        THEN Fetched(r, m) ELSE NoSnapshot]

\* All months are fetched, decided on and written in one step: SourceIntake
\* models the loop, during which the files may change.
LandingEnds(r) ==
    LET plan == LandedPlan(r)
    IN  /\ At(r, Landing, "busy")
        /\ \A m \in Missing(r) : MayBeMissing(r, m)
        /\ Succeed(r, IF plan # NoPlan THEN "SUCCESS" ELSE "NO_DATA",
                   [plan |-> plan, empty |-> {}])
        /\ UNCHANGED lakeVars

LandingUnavailable(r) ==
    /\ At(r, Landing, "busy")
    /\ \E m \in Missing(r) : ~MayBeMissing(r, m)
    /\ Fail(r, NoPayload)
-----------------------------------------------------------------------------
(***************************************************************************)
(* execute_task: what reference_preflight to export_bigquery have in       *)
(* common before and after their own action.                               *)
(***************************************************************************)
UpstreamRow(r) == row[r][Upstream[task[r]]]
Received(r) == UpstreamRow(r).payload
Chained(r) == task[r] \notin {"source_landing", "monitor"}

\* NO_DATA upstream: it is passed on and the task does nothing else.
PassNoData(r) ==
    /\ Chained(r) /\ phase[r] = "ready"
    /\ UpstreamRow(r).status = "NO_DATA"
    /\ Succeed(r, "NO_DATA", Received(r))
    /\ UNCHANGED lakeVars

\* ensure_not_superseded raises before any row is written.
RefuseSuperseded(r) ==
    /\ Chained(r) /\ phase[r] = "ready"
    /\ UpstreamRow(r).status = "SUCCESS"
    /\ Superseded(r, Received(r).plan)
    /\ phase' = [phase EXCEPT ![r] = "failed"]
    /\ active' = NoRun
    /\ UNCHANGED <<stateVars, task, request, resumes, todo, sourceVars, lakeVars>>

\* The partitions the action will write, from the plan it received.
Tables(t) == IF t = "transform_silver" THEN {"clean", "quarantine"}
             ELSE IF t = "aggregate_gold" THEN Marts ELSE {}

Work(r) == Tables(task[r]) \X Covered(Received(r).plan)

\* Mutant: only the first task after landing asks for a newer plan.
Bug_TaskBegins(r) ==
    /\ Chained(r) /\ phase[r] = "ready"
    /\ UpstreamRow(r).status = "SUCCESS"
    /\ task[r] = "reference_preflight" => ~Superseded(r, Received(r).plan)
    /\ Begin(r, Received(r), Work(r))

TaskBegins(r) ==
    /\ Chained(r) /\ phase[r] = "ready"
    /\ UpstreamRow(r).status = "SUCCESS"
    /\ ~Superseded(r, Received(r).plan)
    /\ Begin(r, Received(r), Work(r))

\* Any exception in the action (Spark, storage, reference tables).
TaskFails(r) ==
    /\ phase[r] = "busy"
    /\ Fail(r, IF task[r] = Landing THEN NoPayload ELSE Received(r))
-----------------------------------------------------------------------------
(***************************************************************************)
(* The actions of the tasks.                                               *)
(***************************************************************************)
\* load_references only validates the dimension tables.
PreflightEnds(r) ==
    /\ At(r, "reference_preflight", "busy")
    /\ Succeed(r, "SUCCESS", Received(r))
    /\ UNCHANGED lakeVars

\* Mutant: months outside the plan are ingested too.
Bug_Ingested(plan) ==
    {ms \in Months \X ((Snapshots \cup {NoSnapshot}) \ Strays) : plan[ms[1]] = ms[2]}

\* Mutant: a month that is in Bronze is not ingested again.
Bug_IngestedOnce(plan) ==
    {ms \in Months \X (Snapshots \ Strays) :
        plan[ms[1]] = ms[2] /\ \A old \in bronze : old[1] # ms[1]}

\* Auto Loader appends every object under the raw path that is not yet in
\* Bronze; a stray object is not under that path, or is itself without rows.
Ingested(plan) ==
    {ms \in Months \X (Snapshots \ Strays) : plan[ms[1]] = ms[2]}

BronzeEnds(r) ==
    /\ At(r, "ingest_bronze", "busy")
    /\ bronze' = bronze \cup Ingested(Received(r).plan)
    /\ Succeed(r, "SUCCESS", Received(r))
    /\ UNCHANGED <<clean, quarantine, gold, export>>

\* The Bronze rows a Silver month is rebuilt from; none for a stray.
BronzeBatch(r, m) ==
    LET s == Received(r).plan[m]
    IN  IF <<m, s>> \in bronze THEN s ELSE NoSnapshot

\* replace_snapshot(valid): the MERGE also deletes rows the batch lacks.
ReplaceClean(r, m) ==
    /\ At(r, "transform_silver", "busy")
    /\ <<"clean", m>> \in todo
    /\ clean' = [clean EXCEPT ![m] = BronzeBatch(r, m)]
    /\ todo' = todo \ {<<"clean", m>>}
    /\ UNCHANGED <<stateVars, phase, task, request, resumes, active, sourceVars,
                   bronze, quarantine, gold, export>>

\* replace_snapshot(quarantine): a second transaction, after clean.
ReplaceQuarantine(r, m) ==
    /\ At(r, "transform_silver", "busy")
    /\ <<"quarantine", m>> \in todo
    /\ <<"clean", m>> \notin todo
    /\ quarantine' = [quarantine EXCEPT ![m] = BronzeBatch(r, m)]
    /\ todo' = todo \ {<<"quarantine", m>>}
    /\ UNCHANGED <<stateVars, phase, task, request, resumes, active, sourceVars,
                   bronze, clean, gold, export>>

\* The reconciliation of what is stored, and the metrics of every month.
SilverEnds(r) ==
    LET plan == Received(r).plan
    IN  /\ At(r, "transform_silver", "busy")
        /\ todo = {}
        /\ \A m \in Covered(plan) : /\ clean[m] = BronzeBatch(r, m)
                                    /\ quarantine[m] = BronzeBatch(r, m)
        /\ Succeed(r, "SUCCESS",
                   [plan |-> plan,
                    empty |-> {m \in Covered(plan) : BronzeBatch(r, m) = NoSnapshot}])
        /\ UNCHANGED lakeVars

\* run_dq_gate: all metrics empty counts as a replay; else each must pass.
AllEmpty(r) == Received(r).empty = Covered(Received(r).plan)

\* Mutant: the gate only looks for empty months.
Bug_QualityOK(r) == Received(r).empty = {}

\* check_snapshot_metrics: one metric per snapshot, none empty, all rates pass.
QualityOK(r) ==
    LET plan == Received(r).plan
    IN  /\ Received(r).empty = {}
        /\ \A m, n \in Covered(plan) : plan[m] = plan[n] => m = n
        /\ \A m \in Covered(plan) : plan[m] \in Good

GateReplay(r) ==
    /\ At(r, "dq_gate", "busy")
    /\ AllEmpty(r)
    /\ Succeed(r, "NO_DATA", Received(r))
    /\ UNCHANGED lakeVars

GatePasses(r) ==
    /\ At(r, "dq_gate", "busy")
    /\ ~AllEmpty(r)
    /\ QualityOK(r)
    /\ Succeed(r, "SUCCESS", Received(r))
    /\ UNCHANGED lakeVars

GateRejects(r) ==
    /\ At(r, "dq_gate", "busy")
    /\ ~AllEmpty(r)
    /\ ~QualityOK(r)
    /\ Fail(r, Received(r))

\* INSERT OVERWRITE of one mart partition from the Silver month.
WriteMart(r, mart, m) ==
    /\ At(r, "aggregate_gold", "busy")
    /\ <<mart, m>> \in todo
    /\ gold' = [gold EXCEPT ![mart][m] = clean[m]]
    /\ todo' = todo \ {<<mart, m>>}
    /\ UNCHANGED <<stateVars, phase, task, request, resumes, active, sourceVars,
                   bronze, silverVars, export>>

GoldEnds(r) ==
    /\ At(r, "aggregate_gold", "busy")
    /\ todo = {}
    /\ Succeed(r, "SUCCESS", Received(r))
    /\ UNCHANGED lakeVars

\* prepare_serving_handoff: one file set per mart and month, or it raises.
HandoffComplete(r) ==
    \A mart \in Marts, m \in Covered(Received(r).plan) : gold[mart][m] # NoSnapshot

ExportEnds(r) ==
    LET plan == Received(r).plan
    IN  /\ At(r, "export_bigquery", "busy")
        /\ HandoffComplete(r)
        /\ export' = [export EXCEPT ![r] =
                         [mart \in Marts |-> [m \in Months |->
                             IF m \in Covered(plan) THEN gold[mart][m] ELSE NoSnapshot]]]
        /\ Succeed(r, "SUCCESS", Received(r))
        /\ UNCHANGED <<bronze, silverVars, gold>>
-----------------------------------------------------------------------------
(***************************************************************************)
(* monitor_pipeline.run. It reads the export row, writes no RUNNING row    *)
(* and does not call ensure_not_superseded.                                *)
(***************************************************************************)
Available(r) ==
    {m \in Months : Published(m) # NoSnapshot} \cup Covered(Received(r).plan)

MonitoringOK(r) ==
    /\ UpstreamRow(r).status = "NO_DATA" => ~NoDataStreak(MaxNoDataRuns)
    /\ Available(r) # {}
    /\ request[r].backfill \/ Months \ {LatestMonth} \subseteq Available(r)

MonitorPasses(r) ==
    /\ At(r, "monitor", "ready")
    /\ Passed(UpstreamRow(r).status)
    /\ MonitoringOK(r)
    /\ Succeed(r, UpstreamRow(r).status, Received(r))
    /\ UNCHANGED lakeVars

\* Also the freshness check, which depends on the date of the run.
MonitorFails(r) ==
    /\ At(r, "monitor", "ready")
    /\ Passed(UpstreamRow(r).status)
    /\ Fail(r, Received(r))
-----------------------------------------------------------------------------
Step(r) ==
    \/ LandingReusesPrior(r) \/ LandingBegins(r) \/ LandingEnds(r)
    \/ LandingUnavailable(r)
    \/ PassNoData(r) \/ RefuseSuperseded(r) \/ TaskBegins(r)
    \/ PreflightEnds(r) \/ BronzeEnds(r)
    \/ \E m \in Months : ReplaceClean(r, m) \/ ReplaceQuarantine(r, m)
    \/ SilverEnds(r)
    \/ GateReplay(r) \/ GatePasses(r) \/ GateRejects(r)
    \/ \E mart \in Marts, m \in Months : WriteMart(r, mart, m)
    \/ GoldEnds(r) \/ ExportEnds(r)
    \/ MonitorPasses(r) \/ MonitorFails(r)

Fault(r) == TaskFails(r) \/ Crash(r)

Next ==
    \/ \E r \in Runs :
         \/ \E q \in Requests : Submit(r, q)
         \/ Start(r)
         \/ \E t \in Task : Resume(r, t)
         \/ Step(r)
         \/ Fault(r)
    \/ \E m \in Months, s \in Served : ChangeSource(m, s)

Spec == Init /\ [][Next]_vars

\* Timeouts end every task attempt and the job queue starts every queued run.
FairSpec == Spec /\ \A r \in Runs : SF_vars(Start(r)) /\ WF_vars(Step(r))
-----------------------------------------------------------------------------
(***************************************************************************)
(* Safety.                                                                 *)
(***************************************************************************)
LandingPlan(r) == row[r][Landing].payload.plan

\* No mart partition is ever computed from a snapshot the DQ gate rejects:
\* aggregate_gold reads the shared Silver tables, which hold unchecked months
\* of whatever run wrote them last.
GoldOnlyChecked ==
    \A mart \in Marts, m \in Months : gold[mart][m] \in Good \cup {NoSnapshot}

\* The files of a READY_FOR_SERVING handoff hold, for every mart and month,
\* the snapshot its metrics and receipt name, whatever ran between the tasks.
HandoffFaithful ==
    \A r \in Runs :
        row[r]["export_bigquery"].status = "SUCCESS" =>
            LET plan == row[r]["export_bigquery"].payload.plan
            IN  \A mart \in Marts, m \in Covered(plan) : export[r][mart][m] = plan[m]

\* A run whose Gold task succeeded stays represented in full in Gold until a
\* newer plan for one of its months is landed: repaired older runs do not undo it.
GoldKeepsNewestPlan ==
    \A r \in Runs :
        LET gate == row[r]["aggregate_gold"]
        IN  gate.status = "SUCCESS" /\ ~Superseded(r, gate.payload.plan) =>
                \A mart \in Marts, m \in Covered(gate.payload.plan) :
                    gold[mart][m] = gate.payload.plan[m]

\* RunState.read of the upstream never raises: whatever was killed, failed or
\* repaired before, a task is only ever reached with its upstream row passed.
ChainReady ==
    \A r \in Runs :
        phase[r] \in {"ready", "busy"} /\ task[r] # Landing =>
            Passed(UpstreamRow(r).status)

\* dirty_months and published_snapshots: a month that is not dirty is held by
\* Silver and Gold exactly as the newest successful monitor published it.
\* "A failed attempt may have mutated Silver/Gold; force reconciliation."
DirtyCoversMutation ==
    \A m \in Months \ DirtyMonths :
        /\ clean[m] = Published(m)
        /\ quarantine[m] = Published(m)
        /\ \A mart \in Marts : gold[mart][m] = Published(m)

\* "NO_DATA cannot contain unprocessed work" (validate_state): the newest plan
\* for a month, once its gate reported NO_DATA, is what Silver already holds.
NoDataWasProcessed ==
    \A r \in Runs :
        LET gate == row[r]["dq_gate"]
        IN  gate.status = "NO_DATA" /\ ~Superseded(r, gate.payload.plan) =>
                \A m \in Covered(gate.payload.plan) : clean[m] = gate.payload.plan[m]

\* What NO_DATA of the gate can hide at most: objects without rows, or not under
\* the path Auto Loader reads. No other is passed over, however often it was
\* ingested before and whichever run ingested it.
NoDataOnlyStrays ==
    \A r \in Runs :
        LET gate == row[r]["dq_gate"]
        IN  gate.status = "NO_DATA" =>
                \A m \in Covered(gate.payload.plan) : gate.payload.plan[m] \in Strays

\* A backfill that is done, after whatever repairs, landed exactly the months it
\* was asked for, from the gs:// URIs it was given; and either none of their objects
\* could be read, or all of them pass the gate and are in its handoff. This is
\* what DailyWorkflow takes a successful run for.
BackfillServed ==
    \A r \in Runs : phase[r] = "done" /\ request[r].backfill =>
        LET plan == LandingPlan(r)
        IN  /\ Covered(plan) = request[r].months
            /\ \A m \in Months : request[r].uris[m] \in Snapshots =>
                                     plan[m] = request[r].uris[m]
            /\ \/ \A m \in Covered(plan) : plan[m] \in Strays
               \/ \A m \in Covered(plan) :
                      /\ plan[m] \in Good
                      /\ \A mart \in Marts : export[r][mart][m] = plan[m]

\* Where repairs keep their source URIs, what a run landed from gs:// URIs or
\* without URIs is never landed again by a retry or a repair: later tasks, other
\* runs and the publisher may hold on to it. A run with https:// or file:// URIs
\* is landed anew each time.
LandedPlanFinal ==
    [][\A r \in Runs :
         FromBucket(request[r]) /\ Passed(row[r][Landing].status) =>
            row'[r][Landing] = row[r][Landing]]_vars

\* A superseded run that is taken up again changes nothing in Silver or Gold.
SupersededNeverWrites ==
    [][\A r \in Runs : active = r /\ Superseded(r, LandingPlan(r)) =>
            UNCHANGED <<clean, quarantine, gold>>]_vars

\* A scheduled landing reports NO_DATA only when Gold already holds, for every
\* month of the window, the file TLC served when it was fetched.
NoDataMeansCurrent ==
    [][\A r \in Runs :
         row[r][Landing].status = "RUNNING" /\ row'[r][Landing].status = "NO_DATA" =>
            \A m \in Months, mart \in Marts :
                Fetched(r, m) \in {NoSnapshot, gold[mart][m]}]_vars

(***************************************************************************)
(* Liveness.                                                               *)
(***************************************************************************)
\* Every launched run gets the slot and leaves it again, done or failed.
QueueDrains ==
    \A r \in Runs : phase[r] = "queued" ~> phase[r] \in {"done", "failed"}
-----------------------------------------------------------------------------
(***************************************************************************)
(* What the job promises to readers of Gold: see MonthLedger.              *)
(***************************************************************************)
\* The snapshot the newest landed plan intends for the month.
Intended(m) ==
    IF Events(Landing, m) = {} THEN NoSnapshot
    ELSE row[Newest(Landing, Events(Landing, m))][Landing].payload.plan[m]

Ledger == INSTANCE MonthLedger WITH intent <- [m \in Months |-> Intended(m)]

LedgerSpec == Ledger!Spec
=============================================================================
