------------------------- MODULE ServingPublication -------------------------
(***************************************************************************)
(* From a run's Gold files to the native BigQuery tables: the export task  *)
(* writes files and then a manifest (export_bigquery.py); any number of    *)
(* publisher processes fetch the manifest, load the files into stages of   *)
(* their own and submit one transaction (publish_bigquery.py), and then    *)
(* count what is served (reconcile_bigquery.py). Publishers and the        *)
(* BigQuery jobs they leave behind interleave freely.                      *)
(*                                                                         *)
(* The rows of a mart month are told apart by their MERGE key and the      *)
(* snapshot they were computed from. That the files of a run hold the      *)
(* snapshots of its plan is TaxiPipeline!HandoffFaithful.                  *)
(***************************************************************************)
EXTENDS Integers, FiniteSets

CONSTANTS Runs,         \* runs whose export task may succeed
          Months, Marts, Snapshots, NoSnapshot,
          Keys,         \* MART_KEYS values within a month
          KeysOf,       \* KeysOf[s]: the keys a mart month built from s has
          Handoff,      \* Handoff[r]: the snapshot run r exports for each month
          Attempts,     \* publisher processes
          NoRun,
          MaxExports    \* bound on executions of each run's export task

ASSUME ServingAssumption ==
    /\ NoSnapshot \notin Snapshots
    /\ KeysOf \in [Snapshots -> SUBSET Keys]
    /\ Handoff \in [Runs -> [Months -> Snapshots \cup {NoSnapshot}]]
    /\ \A r \in Runs : \E m \in Months : Handoff[r][m] # NoSnapshot
    /\ IsFiniteSet(Keys)
    /\ Marts # {}
    /\ NoRun \notin Runs
    /\ MaxExports \in [Runs -> Nat]

VARIABLES exporting,  \* exporting[r]: run r's export task is RUNNING
          pending,    \* mart months that task has yet to write
          exports,    \* how often it was started
          files,      \* files[r][p]: version of the Parquet objects of a mart month
          manifest,   \* manifest[r]: the versions named by the handoff, or NoFiles
          pc,         \* pc[a]: what publisher a is doing
          run,        \* run[a]: the run whose handoff a fetched
          wanted,     \* wanted[a]: the versions that handoff names
          loaded,     \* mart months a has loaded
          stage,      \* stage[n][mart][m]: the snapshot a stage table holds
          job,        \* job[a]: the publication query job a submitted
          commits,    \* commits[a]: the number of the publication a committed
          checked,    \* mart months a has counted
          match,      \* match[a]: all of them matched the metrics
          target,     \* target[mart][m][k]: the snapshot the served row comes from
          receipt,    \* receipt[r]: published_at of run r's receipt, 0 if none
          now         \* the number of publications

exportVars == <<exporting, pending, exports, files, manifest>>
attemptVars == <<pc, run, wanted, loaded>>
checkVars == <<checked, match>>
servedVars == <<target, receipt, now>>
vars == <<exporting, pending, exports, files, manifest, pc, run, wanted, loaded,
          stage, job, commits, checked, match, target, receipt, now>>

Part == Marts \X Months
Plan == [Months -> Snapshots \cup {NoSnapshot}]
NoPlan == [m \in Months |-> NoSnapshot]
Covered(plan) == {m \in Months : plan[m] # NoSnapshot}
PartsOf(r) == Marts \X Covered(Handoff[r])

Versions == [Part -> Nat]
NoFiles == [p \in Part |-> 0]

\* A row per key: the rows of snapshot s, and what a mart month serves.
Rows == [Keys -> Snapshots \cup {NoSnapshot}]
Empty == [k \in Keys |-> NoSnapshot]
RowsOf(s) == [k \in Keys |-> IF k \in KeysOf[s] THEN s ELSE NoSnapshot]

\* Mutant: the stages of a run are shared by its publishers.
Bug_StageName(a, r) == <<CHOOSE b \in Attempts : TRUE, r>>

\* stage_table_name: the run's id and a fresh attempt id.
StageName(a, r) == <<a, r>>

Client == {"idle", "loading", "submitted", "published", "reconciled",
           "mismatch", "failed"}

\* Every process is at one of its steps and every table cell is of its type.
TypeOK ==
    /\ exporting \in [Runs -> BOOLEAN]
    /\ pending \in [Runs -> SUBSET Part]
    /\ exports \in [Runs -> Nat]
    /\ files \in [Runs -> Versions]
    /\ manifest \in [Runs -> Versions]
    /\ pc \in [Attempts -> Client]
    /\ run \in [Attempts -> Runs \cup {NoRun}]
    /\ \A a \in Attempts : pc[a] # "idle" \/ job[a] # "none" => run[a] \in Runs
    /\ wanted \in [Attempts -> Versions]
    /\ loaded \in [Attempts -> SUBSET Part]
    /\ stage \in [Attempts \X Runs -> [Marts -> Plan]]
    /\ job \in [Attempts -> {"none", "running", "committed", "aborted"}]
    /\ commits \in [Attempts -> Nat]
    /\ checked \in [Attempts -> SUBSET Part]
    /\ match \in [Attempts -> BOOLEAN]
    /\ target \in [Marts -> [Months -> Rows]]
    /\ receipt \in [Runs -> Nat]
    /\ now \in Nat

Init ==
    /\ exporting = [r \in Runs |-> FALSE]
    /\ pending = [r \in Runs |-> {}]
    /\ exports = [r \in Runs |-> 0]
    /\ files = [r \in Runs |-> NoFiles]
    /\ manifest = [r \in Runs |-> NoFiles]
    /\ pc = [a \in Attempts |-> "idle"]
    /\ run = [a \in Attempts |-> NoRun]
    /\ wanted = [a \in Attempts |-> NoFiles]
    /\ loaded = [a \in Attempts |-> {}]
    /\ stage = [n \in Attempts \X Runs |-> [mart \in Marts |-> NoPlan]]
    /\ job = [a \in Attempts |-> "none"]
    /\ commits = [a \in Attempts |-> 0]
    /\ checked = [a \in Attempts |-> {}]
    /\ match = [a \in Attempts |-> TRUE]
    /\ target = [mart \in Marts |-> [m \in Months |-> Empty]]
    /\ receipt = [r \in Runs |-> 0]
    /\ now = 0
-----------------------------------------------------------------------------
(***************************************************************************)
(* The export task of a run: execute_task around prepare_serving_handoff.  *)
(***************************************************************************)
\* RUNNING replaces the row: a handoff written before is gone. The job has
\* one slot; which runs may still export is decided in TaxiPipeline.
ExportBegins(r) ==
    /\ \A q \in Runs : ~exporting[q]
    /\ exports[r] < MaxExports[r]
    /\ exporting' = [exporting EXCEPT ![r] = TRUE]
    /\ pending' = [pending EXCEPT ![r] = PartsOf(r)]
    /\ exports' = [exports EXCEPT ![r] = @ + 1]
    /\ manifest' = [manifest EXCEPT ![r] = NoFiles]
    /\ UNCHANGED <<files, attemptVars, stage, job, commits, checkVars, servedVars>>

\* mode("overwrite"): the old objects of the path are deleted, new ones written.
WriteFiles(r, p) ==
    /\ p \in pending[r]
    /\ files' = [files EXCEPT ![r][p] = @ + 1]
    /\ pending' = [pending EXCEPT ![r] = @ \ {p}]
    /\ UNCHANGED <<exporting, exports, manifest, attemptVars, stage, job, commits,
                   checkVars, servedVars>>

\* The handoff names every object written, in a row with status SUCCESS.
ExportEnds(r) ==
    /\ exporting[r]
    /\ pending[r] = {}
    /\ exporting' = [exporting EXCEPT ![r] = FALSE]
    /\ manifest' = [manifest EXCEPT ![r] =
                       [p \in Part |-> IF p \in PartsOf(r) THEN files[r][p] ELSE 0]]
    /\ UNCHANGED <<pending, exports, files, attemptVars, stage, job, commits,
                   checkVars, servedVars>>

\* The task fails or is killed; its row names no handoff.
ExportFails(r) ==
    /\ exporting[r]
    /\ exporting' = [exporting EXCEPT ![r] = FALSE]
    /\ pending' = [pending EXCEPT ![r] = {}]
    /\ UNCHANGED <<exports, files, manifest, attemptVars, stage, job, commits,
                   checkVars, servedVars>>
-----------------------------------------------------------------------------
(***************************************************************************)
(* fetch_handoff, load_handoff and publish_handoff.                        *)
(***************************************************************************)
\* fetch_handoff: the manifest in the export row, by run id.
Fetch(a, r) ==
    /\ pc[a] = "idle"
    /\ manifest[r] # NoFiles
    /\ pc' = [pc EXCEPT ![a] = "loading"]
    /\ run' = [run EXCEPT ![a] = r]
    /\ wanted' = [wanted EXCEPT ![a] = manifest[r]]
    /\ UNCHANGED <<exportVars, loaded, stage, job, commits, checkVars, servedVars>>

\* Mutant: every load truncates its stage.
Bug_Staged(a, mart, m) == [NoPlan EXCEPT ![m] = Handoff[run[a]][m]]

\* WRITE_TRUNCATE for the first load of a mart, WRITE_APPEND for the others.
Staged(a, mart, m) ==
    LET old == IF \E q \in loaded[a] : q[1] = mart
               THEN stage[StageName(a, run[a])][mart] ELSE NoPlan
    IN  [old EXCEPT ![m] = Handoff[run[a]][m]]

\* The load job reads exactly the objects the handoff names.
Load(a, mart, m) ==
    /\ pc[a] = "loading"
    /\ <<mart, m>> \in PartsOf(run[a]) \ loaded[a]
    /\ files[run[a]][<<mart, m>>] = wanted[a][<<mart, m>>]
    /\ stage' = [stage EXCEPT ![StageName(a, run[a])][mart] = Staged(a, mart, m)]
    /\ loaded' = [loaded EXCEPT ![a] = @ \cup {<<mart, m>>}]
    /\ UNCHANGED <<exportVars, pc, run, wanted, job, commits, checkVars, servedVars>>

\* They were overwritten by a later execution of the export task.
LoadFails(a, mart, m) ==
    /\ pc[a] = "loading"
    /\ <<mart, m>> \in PartsOf(run[a]) \ loaded[a]
    /\ files[run[a]][<<mart, m>>] # wanted[a][<<mart, m>>]
    /\ pc' = [pc EXCEPT ![a] = "failed"]
    /\ UNCHANGED <<exportVars, run, wanted, loaded, stage, job, commits, checkVars,
                   servedVars>>

\* client.query submits the script; the job no longer depends on the client.
Submit(a) ==
    /\ pc[a] = "loading"
    /\ loaded[a] = PartsOf(run[a])
    /\ pc' = [pc EXCEPT ![a] = "submitted"]
    /\ job' = [job EXCEPT ![a] = "running"]
    /\ UNCHANGED <<exportVars, run, wanted, loaded, stage, commits, checkVars, servedVars>>

\* MERGE on the keys of the mart: rows the stage lacks stay.
Merged(old, s) ==
    IF s = NoSnapshot THEN old
    ELSE [k \in Keys |-> IF k \in KeysOf[s] THEN s ELSE old[k]]

\* Mutant: only one of the marts is merged in the transaction.
Bug_Published(a) ==
    [mart \in Marts |-> [m \in Months |->
        IF mart = CHOOSE x \in Marts : TRUE
        THEN Merged(target[mart][m], stage[StageName(a, run[a])][mart][m])
        ELSE target[mart][m]]]

\* The MERGE statements of publication_sql, one for every mart.
Published(a) ==
    [mart \in Marts |-> [m \in Months |->
        Merged(target[mart][m], stage[StageName(a, run[a])][mart][m])]]

\* The transaction commits: all marts and the receipt at once.
JobCommits(a) ==
    /\ job[a] = "running"
    /\ job' = [job EXCEPT ![a] = "committed"]
    /\ target' = Published(a)
    /\ receipt' = [receipt EXCEPT ![run[a]] = now + 1]
    /\ now' = now + 1
    /\ commits' = [commits EXCEPT ![a] = now + 1]
    /\ UNCHANGED <<exportVars, attemptVars, stage, checkVars>>

\* It aborts, for instance on a concurrent change of a target table.
JobAborts(a) ==
    /\ job[a] = "running"
    /\ job' = [job EXCEPT ![a] = "aborted"]
    /\ UNCHANGED <<exportVars, attemptVars, stage, commits, checkVars, servedVars>>

\* query_job.result() returns or raises.
PublishReturns(a) ==
    /\ pc[a] = "submitted"
    /\ job[a] \in {"committed", "aborted"}
    /\ pc' = [pc EXCEPT ![a] = IF job[a] = "committed" THEN "published" ELSE "failed"]
    /\ UNCHANGED <<exportVars, run, wanted, loaded, stage, job, commits, checkVars,
                   servedVars>>

\* The publisher is killed or loses its connection; its job is not cancelled.
PublisherDies(a) ==
    /\ pc[a] \in {"loading", "submitted", "published"}
    /\ pc' = [pc EXCEPT ![a] = "failed"]
    /\ UNCHANGED <<exportVars, run, wanted, loaded, stage, job, commits, checkVars,
                   servedVars>>
-----------------------------------------------------------------------------
(***************************************************************************)
(* reconcile: one query per month and mart, then one for the receipt.      *)
(***************************************************************************)
RowCount(rows) == Cardinality({k \in Keys : rows[k] # NoSnapshot})

\* Mutant: a mart month with too many rows passes.
Bug_CountMatches(r, mart, m) == RowCount(target[mart][m]) >= Cardinality(KeysOf[Handoff[r][m]])

\* The metrics of the handoff count the rows Gold had for the month. The sums
\* of trip_count compared beside them would only refuse more.
CountMatches(r, mart, m) ==
    RowCount(target[mart][m]) = Cardinality(KeysOf[Handoff[r][m]])

CountRows(a, mart, m) ==
    /\ pc[a] = "published"
    /\ <<mart, m>> \in PartsOf(run[a]) \ checked[a]
    /\ checked' = [checked EXCEPT ![a] = @ \cup {<<mart, m>>}]
    /\ match' = [match EXCEPT ![a] = @ /\ CountMatches(run[a], mart, m)]
    /\ UNCHANGED <<exportVars, attemptVars, stage, job, commits, servedVars>>

ReconcileEnds(a) ==
    /\ pc[a] = "published"
    /\ checked[a] = PartsOf(run[a])
    /\ pc' = [pc EXCEPT ![a] = IF match[a] /\ receipt[run[a]] # 0
                               THEN "reconciled" ELSE "mismatch"]
    /\ UNCHANGED <<exportVars, run, wanted, loaded, stage, job, commits, checkVars,
                   servedVars>>
-----------------------------------------------------------------------------
Export(r) == \/ ExportBegins(r) \/ ExportEnds(r) \/ ExportFails(r)
             \/ \E p \in Part : WriteFiles(r, p)

Publisher(a) ==
    \/ \E r \in Runs : Fetch(a, r)
    \/ \E mart \in Marts, m \in Months :
          Load(a, mart, m) \/ LoadFails(a, mart, m) \/ CountRows(a, mart, m)
    \/ Submit(a) \/ PublishReturns(a) \/ PublisherDies(a) \/ ReconcileEnds(a)

Next == \/ \E r \in Runs : Export(r)
        \/ \E a \in Attempts : Publisher(a) \/ JobCommits(a) \/ JobAborts(a)

Spec == Init /\ [][Next]_vars
-----------------------------------------------------------------------------
\* Whatever publishers overlap, die or retry: the rows of the newest
\* publication of a month are all served, in every mart (publish_handoff).
PublishedComplete ==
    \A r \in Runs, m \in Months :
        /\ receipt[r] # 0
        /\ m \in Covered(Handoff[r])
        /\ \A q \in Runs : m \in Covered(Handoff[q]) => receipt[q] <= receipt[r]
        => \A mart \in Marts, k \in KeysOf[Handoff[r][m]] :
               target[mart][m][k] = Handoff[r][m]

\* A publication found RECONCILED is served exactly, unless something was
\* published after it: the counts leave no room for rows of other snapshots.
ReconciledExact ==
    \A a \in Attempts :
        pc[a] = "reconciled" /\ commits[a] = now =>
            \A p \in PartsOf(run[a]) :
                target[p[1]][p[2]] = RowsOf(Handoff[run[a]][p[2]])

\* "row_count_match" (reconcile): a publication nobody published after
\* reconciles with the metrics of its own handoff.
FreshlyPublishedReconciles ==
    \A a \in Attempts : pc[a] = "mismatch" => commits[a] # now

\* What the MERGE of a's run cannot remove: a publication of one of its months
\* had a key that the run has not.
LeftOver(a) ==
    \E q \in Runs : \E m \in Covered(Handoff[q]) \cap Covered(Handoff[run[a]]) :
        /\ receipt[q] # 0
        /\ ~(KeysOf[Handoff[q][m]] \subseteq KeysOf[Handoff[run[a]][m]])

\* A publication nobody published after is only refused for rows that an earlier
\* one left behind: never for its own rows, or for what the publishers do to
\* one another.
MismatchExplained ==
    \A a \in Attempts : pc[a] = "mismatch" /\ commits[a] = now => LeftOver(a)

\* The publishers together implement the atomic publication.
Atomic == INSTANCE AtomicPublication
AtomicSpec == Atomic!Spec
=============================================================================
