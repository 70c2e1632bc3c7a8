---------------------------- MODULE DailyWorkflow ----------------------------
(***************************************************************************)
(* The daily production workflow (.github/workflows/daily-production.yml): *)
(* find the newest published month, land its file as an immutable object,  *)
(* launch the Databricks job for it, wait, fetch the handoff, publish it   *)
(* to BigQuery and reconcile. A workflow may fail or be cancelled at every *)
(* step, while the run or the query job it started goes on.                *)
(*                                                                         *)
(* A Databricks run is reduced to its place in the queue and its outcome   *)
(* (TaxiPipeline has its inside); a publication to what a month is served  *)
(* from (ServingPublication has its inside).                               *)
(***************************************************************************)
EXTENDS Integers, Sequences, FiniteSets

CONSTANTS Workflows,     \* GitHub workflow runs, reused once they have ended
          Runs,          \* Databricks run ids, reused once nobody needs them
          Newest,        \* the candidate months are 1..Newest
          Contents,      \* what the file of a month may hold
          Good,          \* contents the job's quality gate accepts
          NoContent, NoRun,
          MaxChanges,    \* bound on changes of the source
          MaxOverrides,  \* bound on manual dispatches
          MaxFaults      \* bound on failures

ASSUME WorkflowAssumption ==
    /\ Newest \in Nat \ {0}
    /\ Good \subseteq Contents
    /\ NoContent \notin Contents
    /\ NoRun \notin Runs
    /\ MaxChanges \in Nat /\ MaxOverrides \in Nat /\ MaxFaults \in Nat

VARIABLES tlc,       \* tlc[m]: the file TLC has for month m
          raw,       \* raw[m]: contents with an object in the bucket
          pc,        \* pc[w]: the step workflow w is at
          month,     \* month[w]: artifacts/source-month
          content,   \* content[w]: the snapshot in artifacts/source-uri
          run,       \* run[w]: the run it launched
          handoff,   \* handoff[w]: artifacts/serving-handoff.json
          queue,     \* Databricks runs waiting or active, the active one first
          result,    \* result[r]: outcome of a run
          plan,      \* plan[r]: month and snapshot it was launched with
          job,       \* job[w]: the publication query job of w
          served,    \* served[m]: the snapshot the native tables serve
          changes, overrides, faults

sourceVars == <<tlc, raw>>
runVars == <<queue, result, plan>>
bounds == <<changes, overrides, faults>>
vars == <<tlc, raw, pc, month, content, run, handoff, queue, result, plan, job,
          served, changes, overrides, faults>>

Months == 1..Newest
Item == Months \X Contents
NoItem == <<0, NoContent>>

Idle == {"idle", "no_data", "red", "green"}
Steps == {"head", "get", "upload", "launch", "wait", "fetch", "submit", "publish",
          "reconcile"}

\* Every step, run and job is in one of its states.
TypeOK ==
    /\ tlc \in [Months -> Contents \cup {NoContent}]
    /\ raw \in [Months -> SUBSET Contents]
    /\ pc \in [Workflows -> Idle \cup Steps]
    /\ month \in [Workflows -> Months]
    /\ content \in [Workflows -> Contents \cup {NoContent}]
    /\ run \in [Workflows -> Runs \cup {NoRun}]
    /\ handoff \in [Workflows -> Item \cup {NoItem}]
    /\ queue \in Seq(Runs)
    /\ result \in [Runs -> {"none", "pending", "SUCCESS", "FAILED"}]
    /\ plan \in [Runs -> Item \cup {NoItem}]
    /\ job \in [Workflows -> {"none", "running", "committed", "aborted"}]
    /\ served \in [Months -> Contents \cup {NoContent}]
    /\ changes \in Nat /\ overrides \in Nat /\ faults \in Nat

Init ==
    /\ tlc = [m \in Months |-> NoContent]
    /\ raw = [m \in Months |-> {}]
    /\ pc = [w \in Workflows |-> "idle"]
    /\ month = [w \in Workflows |-> Newest]
    /\ content = [w \in Workflows |-> NoContent]
    /\ run = [w \in Workflows |-> NoRun]
    /\ handoff = [w \in Workflows |-> NoItem]
    /\ queue = <<>>
    /\ result = [r \in Runs |-> "none"]
    /\ plan = [r \in Runs |-> NoItem]
    /\ job = [w \in Workflows |-> "none"]
    /\ served = [m \in Months |-> NoContent]
    /\ changes = 0 /\ overrides = 0 /\ faults = 0
-----------------------------------------------------------------------------
\* TLC publishes, corrects or withdraws the file of a month.
ChangeSource(m, c) ==
    /\ changes < MaxChanges
    /\ tlc[m] # c
    /\ tlc' = [tlc EXCEPT ![m] = c]
    /\ changes' = changes + 1
    /\ UNCHANGED <<raw, pc, month, content, run, handoff, runVars, job, served,
                   overrides, faults>>

Goto(w, step) == pc' = [pc EXCEPT ![w] = step]

\* Mutant: without a concurrency group any number of workflows is active.
Bug_MayStart(w) == pc[w] \in Idle

\* concurrency: a workflow starts when the one before it has ended.
MayStart(w) == \A v \in Workflows : pc[v] \in Idle

\* A fresh runner has no artifacts. Query jobs of old workflows are forgotten.
StartWith(w, step, m, c) ==
    /\ MayStart(w)
    /\ job[w] # "running"
    /\ Goto(w, step)
    /\ month' = [month EXCEPT ![w] = m]
    /\ content' = [content EXCEPT ![w] = c]
    /\ run' = [run EXCEPT ![w] = NoRun]
    /\ handoff' = [handoff EXCEPT ![w] = NoItem]
    /\ job' = [job EXCEPT ![w] = "none"]
    /\ UNCHANGED <<sourceVars, runVars, served, changes, faults>>

\* By schedule, or by hand without an override: candidates newest first.
Scheduled(w) == StartWith(w, "head", Newest, NoContent) /\ UNCHANGED overrides

\* Dispatched with MONTH=gs://...: verify_gcs_object, and nothing is landed.
Dispatched(w, m, c) ==
    /\ overrides < MaxOverrides
    /\ c \in raw[m]
    /\ StartWith(w, "launch", m, c)
    /\ overrides' = overrides + 1

\* candidate_months ends lookback_months before the newest.
LastCandidate(w) == month[w] = 1

\* discover_latest: one HEAD request.
Discover(w) ==
    /\ pc[w] = "head"
    /\ \/ tlc[month[w]] # NoContent /\ Goto(w, "get") /\ UNCHANGED month
       \/ /\ tlc[month[w]] = NoContent /\ ~LastCandidate(w)
          /\ month' = [month EXCEPT ![w] = @ - 1]
          /\ UNCHANGED pc
       \/ /\ tlc[month[w]] = NoContent /\ LastCandidate(w)
          /\ Goto(w, "no_data")
          /\ UNCHANGED month
    /\ UNCHANGED <<sourceVars, content, run, handoff, runVars, job, served, bounds>>

\* download_and_land: the file may have changed since the HEAD, or be gone
\* (404 is no data, 403 an error, though discover_latest takes both alike).
Get(w) ==
    /\ pc[w] = "get"
    /\ content' = [content EXCEPT ![w] = tlc[month[w]]]
    /\ \/ tlc[month[w]] # NoContent /\ Goto(w, "upload")
       \/ tlc[month[w]] = NoContent /\ \E end \in {"no_data", "red"} : Goto(w, end)
    /\ UNCHANGED <<sourceVars, month, run, handoff, runVars, job, served, bounds>>

\* Mutant: a snapshot landed before is taken for no new data.
Bug_AfterUpload(w) == IF content[w] \in raw[month[w]] THEN "no_data" ELSE "launch"

\* LANDED and ALREADY_LANDED both go on.
AfterUpload(w) == "launch"

\* land_bytes: the object is named by its content; writing it again is a no-op.
Upload(w) ==
    /\ pc[w] = "upload"
    /\ raw' = [raw EXCEPT ![month[w]] = @ \cup {content[w]}]
    /\ Goto(w, AfterUpload(w))
    /\ UNCHANGED <<tlc, month, content, run, handoff, runVars, job, served, bounds>>
-----------------------------------------------------------------------------
\* Nobody waits for run r and it has ended.
Forgotten(r) == /\ result[r] \in {"none", "SUCCESS", "FAILED"}
                /\ \A w \in Workflows : run[w] = r => pc[w] \in Idle

Enqueue(w, r) ==
    /\ pc[w] = "launch"
    /\ Forgotten(r)
    /\ queue' = Append(queue, r)
    /\ result' = [result EXCEPT ![r] = "pending"]
    /\ plan' = [plan EXCEPT ![r] = <<month[w], content[w]>>]

\* launch_run: the id comes from the response to run-now.
Launch(w, r) ==
    /\ Enqueue(w, r)
    /\ run' = [run EXCEPT ![w] = r]
    /\ Goto(w, "wait")
    /\ UNCHANGED <<sourceVars, month, content, handoff, job, served, bounds>>

\* The response is lost: the run exists, but its id is unknown.
LaunchLost(w, r) ==
    /\ faults < MaxFaults
    /\ Enqueue(w, r)
    /\ Goto(w, "red")
    /\ faults' = faults + 1
    /\ UNCHANGED <<sourceVars, month, content, run, handoff, job, served, changes,
                   overrides>>

\* The job has a single slot; the others are queued.
RunEnds(r, outcome) ==
    /\ queue # <<>> /\ r = Head(queue)
    /\ queue' = Tail(queue)
    /\ result' = [result EXCEPT ![r] = outcome]
    /\ UNCHANGED <<sourceVars, pc, month, content, run, handoff, plan, job, served,
                   changes, overrides>>

RunSucceeds(r) == plan[r][2] \in Good /\ RunEnds(r, "SUCCESS") /\ UNCHANGED faults

\* The quality gate rejects the snapshot, or a task fails for another reason.
RunFails(r) ==
    /\ RunEnds(r, "FAILED")
    /\ \/ plan[r][2] \notin Good /\ UNCHANGED faults
       \/ faults < MaxFaults /\ faults' = faults + 1

\* wait_for_run sees a terminal state: only SUCCESS goes on.
RunSeen(w) ==
    /\ pc[w] = "wait"
    /\ result[run[w]] \in {"SUCCESS", "FAILED"}
    /\ Goto(w, IF result[run[w]] = "SUCCESS" THEN "fetch" ELSE "red")
    /\ UNCHANGED <<sourceVars, month, content, run, handoff, runVars, job, served, bounds>>
-----------------------------------------------------------------------------
\* Mutant: the handoff of some successful run.
Bug_HandoffOf(w) == plan[CHOOSE r \in Runs : result[r] = "SUCCESS"]

\* The export row of the run id that launch_run returned.
HandoffOf(w) == plan[run[w]]

\* fetch_serving_handoff
Fetch(w) ==
    /\ pc[w] = "fetch"
    /\ handoff' = [handoff EXCEPT ![w] = HandoffOf(w)]
    /\ Goto(w, "submit")
    /\ UNCHANGED <<sourceVars, month, content, run, runVars, job, served, bounds>>

\* publish_bigquery. A query job a dead workflow left has ended by then: a
\* publication takes seconds, and a whole Databricks run lies in between.
Submit(w) ==
    /\ pc[w] = "submit"
    /\ \A v \in Workflows : job[v] # "running"
    /\ job' = [job EXCEPT ![w] = "running"]
    /\ Goto(w, "publish")
    /\ UNCHANGED <<sourceVars, month, content, run, handoff, runVars, served, bounds>>

JobCommits(w) ==
    /\ job[w] = "running"
    /\ job' = [job EXCEPT ![w] = "committed"]
    /\ served' = [served EXCEPT ![handoff[w][1]] = handoff[w][2]]
    /\ UNCHANGED <<sourceVars, pc, month, content, run, handoff, runVars, bounds>>

JobAborts(w) ==
    /\ job[w] = "running"
    /\ faults < MaxFaults
    /\ job' = [job EXCEPT ![w] = "aborted"]
    /\ faults' = faults + 1
    /\ UNCHANGED <<sourceVars, pc, month, content, run, handoff, runVars, served,
                   changes, overrides>>

PublishReturns(w) ==
    /\ pc[w] = "publish"
    /\ job[w] \in {"committed", "aborted"}
    /\ Goto(w, IF job[w] = "committed" THEN "reconcile" ELSE "red")
    /\ UNCHANGED <<sourceVars, month, content, run, handoff, runVars, job, served, bounds>>

\* The counts match or not (ServingPublication); equal counts do not prove
\* that the rows are the workflow's own.
Reconcile(w, outcome) ==
    /\ pc[w] = "reconcile"
    /\ Goto(w, outcome)
    /\ UNCHANGED <<sourceVars, month, content, run, handoff, runVars, job, served, bounds>>

\* A step fails, wait_for_run times out, or the workflow is cancelled: what it
\* started in Databricks and BigQuery goes on.
WorkflowFails(w) ==
    /\ pc[w] \in Steps
    /\ faults < MaxFaults
    /\ Goto(w, "red")
    /\ faults' = faults + 1
    /\ UNCHANGED <<sourceVars, month, content, run, handoff, runVars, job, served,
                   changes, overrides>>
-----------------------------------------------------------------------------
Step(w) == \/ Discover(w) \/ Get(w) \/ Upload(w) \/ RunSeen(w) \/ Fetch(w) \/ Submit(w)
           \/ PublishReturns(w)
           \/ \E r \in Runs : Launch(w, r)
           \/ \E outcome \in {"green", "red"} : Reconcile(w, outcome)

Start(w) == Scheduled(w) \/ \E m \in Months : \E c \in raw[m] : Dispatched(w, m, c)

Fault(w) == WorkflowFails(w) \/ JobAborts(w) \/ \E r \in Runs : LaunchLost(w, r)

Next ==
    \/ \E m \in Months, c \in Contents \cup {NoContent} : ChangeSource(m, c)
    \/ \E w \in Workflows : Start(w) \/ Step(w) \/ JobCommits(w) \/ Fault(w)
    \/ \E r \in Runs : RunSucceeds(r) \/ RunFails(r)

Spec == Init /\ [][Next]_vars

\* The schedule fires every day, runners and Databricks and BigQuery do not
\* stop working for good.
Fairness ==
    /\ WF_vars(\E w \in Workflows : Scheduled(w))
    /\ \A w \in Workflows : WF_vars(Step(w)) /\ WF_vars(JobCommits(w) \/ JobAborts(w))
    /\ \A r \in Runs : WF_vars(RunSucceeds(r) \/ RunFails(r))

FairSpec == Spec /\ Fairness
-----------------------------------------------------------------------------
\* Whatever runs and jobs earlier workflows left behind: a workflow publishes
\* the very snapshot it landed or was dispatched with (run_cd_job "without
\* guessing its ID", fetch_serving_handoff --run-id).
PublishesWhatItLanded ==
    \A w \in Workflows : job[w] # "none" =>
        /\ handoff[w] = <<month[w], content[w]>>
        /\ content[w] \in raw[month[w]] \cap Good

\* While a workflow reconciles, its month is served from its own snapshot: a
\* green workflow has compared its own rows, not those of another one.
ReconcilesItsOwn ==
    \A w \in Workflows : pc[w] = "reconcile" => served[month[w]] = content[w]

\* The snapshots under reconciliation.
Examined == {<<month[w], content[w]>> : w \in {v \in Workflows : pc[v] = "reconcile"}}

\* Workflows, runs and query jobs, left behind or not, implement the promise to
\* the readers.
Promise == INSTANCE ServedMonths WITH stored <- raw, examined <- Examined
ServedSpec == Promise!Spec

\* Once TLC and the operators leave things alone, an acceptable file of the
\* newest month is served, however the workflows before failed.
NewestIsServed ==
    \A m \in Months, c \in Good :
        <>[](tlc[m] = c /\ \A n \in Months : n > m => tlc[n] = NoContent)
            => <>[](served[m] = c)
=============================================================================
