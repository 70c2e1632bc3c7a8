------------------------------ MODULE RunState ------------------------------
(***************************************************************************)
(* The durable table `pipeline_run_state` (src/src/common/run_state.py):   *)
(* one row per (pipeline_run_id, task_name), overwritten by every write.   *)
(* A row keeps its status and the part of its JSON payload the tasks act   *)
(* on: the snapshot planned for each month, and the months whose Silver    *)
(* metrics report rows_in = 0.                                             *)
(*                                                                         *)
(* `updated_at` is only ever compared between source_landing and monitor   *)
(* rows that ended SUCCESS or NO_DATA, so `clock` ticks at those writes    *)
(* and every other row carries at = 0.                                     *)
(***************************************************************************)
EXTENDS Integers, FiniteSets

CONSTANTS Runs,         \* pipeline_run_id values
          Months,       \* first-of-month source months
          Snapshots,    \* snapshot_id values (content checksums)
          NoSnapshot    \* "no snapshot": an absent key or an empty partition

ASSUME SnapshotAssumption == NoSnapshot \notin Snapshots

VARIABLES row,          \* row[r][t]: the state row of task t of run r
          clock         \* the newest updated_at given out

stateVars == <<row, clock>>

Task == {"source_landing", "reference_preflight", "ingest_bronze",
         "transform_silver", "dq_gate", "aggregate_gold", "export_bigquery",
         "monitor"}

\* The `upstream` argument each task gives to execute_task or to read.
Upstream == [reference_preflight |-> "source_landing",
             ingest_bronze       |-> "reference_preflight",
             transform_silver    |-> "ingest_bronze",
             dq_gate             |-> "transform_silver",
             aggregate_gold      |-> "dq_gate",
             export_bigquery     |-> "aggregate_gold",
             monitor             |-> "export_bigquery"]

Status == {"ABSENT", "RUNNING", "SUCCESS", "NO_DATA", "FAILED"}

\* A plan gives each affected month the snapshot it is to be rebuilt from.
Plan == [Months -> Snapshots \cup {NoSnapshot}]
NoPlan == [m \in Months |-> NoSnapshot]
Covered(plan) == {m \in Months : plan[m] # NoSnapshot}

Payload == [plan : Plan, empty : SUBSET Months]
NoPayload == [plan |-> NoPlan, empty |-> {}]

Row == [status : Status, payload : Payload, at : Nat]
AbsentRow == [status |-> "ABSENT", payload |-> NoPayload, at |-> 0]

RowTypeOK == /\ row \in [Runs -> [Task -> Row]]
             /\ clock \in Nat

RowInit == /\ row = [r \in Runs |-> [t \in Task |-> AbsentRow]]
           /\ clock = 0
-----------------------------------------------------------------------------
\* The statuses a downstream task accepts from its upstream.
Passed(status) == status \in {"SUCCESS", "NO_DATA"}

\* validate_state: what a row may claim, else write raises. The only NO_DATA
\* that may name snapshots is a replay: every metric counts zero input rows.
ValidState(status, payload) ==
    /\ status = "SUCCESS" => Covered(payload.plan) # {}
    /\ status = "NO_DATA" => payload.empty = Covered(payload.plan)

\* RunState.write: the MERGE on (pipeline_run_id, task_name).
Ordered(t, status) == t \in {"source_landing", "monitor"} /\ Passed(status)

Write(r, t, status, payload) ==
    LET now == IF Ordered(t, status) THEN clock + 1 ELSE clock
    IN  /\ row' = [row EXCEPT ![r][t] =
                     [status  |-> status,
                      payload |-> payload,
                      at      |-> IF Ordered(t, status) THEN now ELSE 0]]
        /\ clock' = now

\* The runs whose row of task t ended SUCCESS with a plan for month m.
Events(t, m) == {r \in Runs : /\ row[r][t].status = "SUCCESS"
                              /\ m \in Covered(row[r][t].payload.plan)}

Newest(t, runs) ==
    CHOOSE r \in runs : \A q \in runs : row[q][t].at <= row[r][t].at

\* published_snapshots: per month, what the newest successful monitor named.
Published(m) ==
    IF Events("monitor", m) = {} THEN NoSnapshot
    ELSE row[Newest("monitor", Events("monitor", m))]["monitor"].payload.plan[m]

\* Mutant: a month that was ever published is never dirty again.
Bug_DirtyMonths ==
    {m \in Months : Events("source_landing", m) # {} /\ Events("monitor", m) = {}}

\* dirty_months: the newest successful event of the month is a landing.
DirtyMonths ==
    {m \in Months : \E r \in Events("source_landing", m) :
        \A q \in Events("monitor", m) :
            row[q]["monitor"].at < row[r]["source_landing"].at}

\* Mutants: never superseded; only by a plan that covers all of the months;
\* superseded by an older plan.
Bug_NeverSuperseded(r, plan) == FALSE

Bug_SupersededWhole(r, plan) ==
    \E q \in Runs \ {r} :
        /\ row[q]["source_landing"].status = "SUCCESS"
        /\ row[q]["source_landing"].at > row[r]["source_landing"].at
        /\ Covered(plan) \subseteq Covered(row[q]["source_landing"].payload.plan)

Bug_SupersededByOlder(r, plan) ==
    \E q \in Runs \ {r} :
        /\ row[q]["source_landing"].status = "SUCCESS"
        /\ row[q]["source_landing"].at < row[r]["source_landing"].at
        /\ Covered(plan) \cap Covered(row[q]["source_landing"].payload.plan) # {}

\* ensure_not_superseded: another run landed a newer plan for one of the months.
Superseded(r, plan) ==
    \E q \in Runs \ {r} :
        /\ row[q]["source_landing"].status = "SUCCESS"
        /\ row[q]["source_landing"].at > row[r]["source_landing"].at
        /\ Covered(plan) \cap Covered(row[q]["source_landing"].payload.plan) # {}

\* The newest `limit` finished landings all ended NO_DATA (monitor.run).
NoDataStreak(limit) ==
    LET landed == {r \in Runs : row[r]["source_landing"].status = "SUCCESS"}
        streak == {r \in Runs :
                     /\ row[r]["source_landing"].status = "NO_DATA"
                     /\ \A q \in landed : row[q]["source_landing"].at
                                            < row[r]["source_landing"].at}
    IN  Cardinality(streak) >= limit
=============================================================================
