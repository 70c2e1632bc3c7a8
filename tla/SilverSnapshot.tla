--------------------------- MODULE SilverSnapshot ---------------------------
(***************************************************************************)
(* The Silver transform and the quality gate, row by row. Every count and  *)
(* every write of the transform classifies the batch anew ("the bounded    *)
(* monthly batch is recomputed per action instead"), joining it with the   *)
(* reference tables as they are at that moment, while seed_references may  *)
(* be replacing them. TaxiPipeline has the task around it.                 *)
(***************************************************************************)
EXTENDS Integers, Sequences, FiniteSets

CONSTANTS Months, Snapshots,
          RowsOf,         \* RowsOf[s]: the rows Bronze holds of snapshot s
          Received,       \* Received[s]: rows_received in the plan
          Unknown,        \* ... which is None for landed gs:// objects
          Plans,          \* the plans runs are launched with
          ZoneVersions,   \* contents dim_zone may be seeded with
          RateCodes, PaymentTypes,
          MaxBad, OutOf,  \* quarantine_rate_max = MaxBad / OutOf
          MinimumRows,    \* min_snapshot_rows
          MaxSeeds        \* bound on tables replaced by seed_references

\* flag_implausible_trips: the first rule that fails gives the reason.
Rules == <<"SCHEMA_RESCUED_DATA", "MISSING_REQUIRED_FIELD", "INVALID_NUMERIC_VALUE",
           "NEGATIVE_FARE", "NONPOSITIVE_DURATION", "OUTSIDE_SOURCE_MONTH",
           "NONPOSITIVE_TOTAL", "NEGATIVE_DISTANCE", "DISTANCE_FARE_MISMATCH",
           "ZERO_DISTANCE_ZERO_FARE">>

AllRows == UNION {RowsOf[s] : s \in Snapshots}

\* trip_id hashes all columns of the source: deliveries of one trip can only
\* differ in what Auto Loader rescued. A plan names snapshots of some months,
\* and in a version of dim_zone a location is known, a sentinel or absent.
ASSUME RowAssumption ==
    /\ \A r \in AllRows : r.fails \subseteq {Rules[i] : i \in DOMAIN Rules}
    /\ \A r, q \in AllRows : r.trip = q.trip =>
          /\ [r EXCEPT !.fails = {}, !.id = q.id] = [q EXCEPT !.fails = {}]
          /\ r.fails \ {Rules[1]} = q.fails \ {Rules[1]}
    /\ Months # {}
    /\ \A s \in Snapshots : /\ IsFiniteSet(RowsOf[s])
                            /\ Received[s] \in {Unknown, Cardinality(RowsOf[s])}
    /\ \A p \in Plans : DOMAIN p \subseteq Months /\ \A m \in DOMAIN p : p[m] \in Snapshots
    /\ \A v \in ZoneVersions, r \in AllRows :
          {v[r.pickup], v[r.dropoff]} \subseteq {"known", "sentinel", "absent"}
    /\ MaxBad \in Nat /\ OutOf \in Nat \ {0} /\ MinimumRows \in Nat /\ MaxSeeds \in Nat

VARIABLES zone, rate, payment,    \* the reference tables
          plan, todo,             \* the run's plan, and the months still to do
          pc, month,              \* what the transform does next, and for which month
          counted,                \* rows_valid, rows_quarantine, raw_bad of the month
          clean, quarantine,      \* the Silver partitions
          metrics,                \* metrics[m], written with the task's row
          outcome,                \* how the gate ended
          steady,                 \* no reference changed since the run began
          seeds                   \* reference tables replaced so far

references == <<zone, rate, payment, seeds>>
tables == <<clean, quarantine>>
vars == <<zone, rate, payment, plan, todo, pc, month, counted, clean, quarantine,
          metrics, outcome, steady, seeds>>

Counts == [valid : Nat, quarantined : Nat, bad : Nat]
NoCounts == [valid |-> 0, quarantined |-> 0, bad |-> 0]

Working == {"count_valid", "count_quarantine", "count_bad", "write_clean",
            "write_quarantine", "check"}

\* dim_rate_code and dim_payment_type are truncated, filled and then stamped.
SeedSteps == {"loaded", "truncated", "unstamped"}

TypeOK ==
    /\ zone \in ZoneVersions
    /\ rate \in SeedSteps /\ payment \in SeedSteps
    /\ plan \in Plans /\ todo \subseteq DOMAIN plan
    /\ pc \in {"idle", "next", "gate"} \cup Working
    /\ month \in Months
    /\ counted \in Counts
    /\ \A m \in Months :
          /\ \A t \in clean[m] : t.snapshot \in Snapshots
          /\ \A t \in quarantine[m] : t.snapshot \in Snapshots
    /\ metrics \in [Months -> Counts]
    /\ outcome \in {"none", "SUCCESS", "NO_DATA", "FAILED"}
    /\ steady \in BOOLEAN
    /\ seeds \in Nat

Init ==
    /\ zone \in ZoneVersions
    /\ rate = "loaded" /\ payment = "loaded"
    /\ plan \in Plans /\ todo = {}
    /\ pc = "idle" /\ month = CHOOSE m \in Months : TRUE
    /\ counted = NoCounts
    /\ clean = [m \in Months |-> {}]
    /\ quarantine = [m \in Months |-> {}]
    /\ metrics = [m \in Months |-> NoCounts]
    /\ outcome = "none"
    /\ steady = FALSE
    /\ seeds = 0
-----------------------------------------------------------------------------
(***************************************************************************)
(* Classification under the references of the moment.                      *)
(***************************************************************************)
Valid == "VALID"

FailedRules(r) == {i \in DOMAIN Rules : Rules[i] \in r.fails}

ZonesOf(r) == {zone[r.pickup], zone[r.dropoff]}

\* flag_unresolved_references
ReferenceReason(r) ==
    IF "absent" \in ZonesOf(r) THEN "UNKNOWN_ZONE"
    ELSE IF "sentinel" \in ZonesOf(r) THEN "SENTINEL_ZONE"
    ELSE IF rate = "truncated" \/ r.rate \notin RateCodes THEN "UNKNOWN_RATE_CODE"
    ELSE IF payment = "truncated" \/ r.payment \notin PaymentTypes THEN "UNKNOWN_PAYMENT_TYPE"
    ELSE Valid

\* Mutant: an unresolved reference hides the rules, and a row that fails one
\* but resolves is let through.
Bug_Reason(r) == ReferenceReason(r)

\* classify_batch: a reason of the rules is never overwritten.
Reason(r) ==
    IF FailedRules(r) = {} THEN ReferenceReason(r)
    ELSE Rules[CHOOSE i \in FailedRules(r) : \A k \in FailedRules(r) : i <= k]

Batch(m) == RowsOf[plan[m]]

\* process_batch keeps one row per trip_id, and one per trip_id and reason.
ValidRows(m) ==
    {[trip |-> r.trip, snapshot |-> plan[m]] : r \in {q \in Batch(m) : Reason(q) = Valid}}

InvalidRows(m) ==
    {[trip |-> r.trip, reason |-> Reason(r), snapshot |-> plan[m]] :
        r \in {q \in Batch(m) : Reason(q) # Valid}}
-----------------------------------------------------------------------------
(***************************************************************************)
(* The transform. A retry of the task begins anew.                         *)
(***************************************************************************)
\* Mutant: dim_payment_type is not validated.
Bug_Usable == rate = "loaded"

\* validate_dimension refuses an empty or unstamped table.
Usable == rate = "loaded" /\ payment = "loaded"

\* Mutant: every known month is transformed, planned or not.
Bug_MonthsOf(p) == Months

MonthsOf(p) == DOMAIN p

\* The task starts, and load_references accepts the reference tables.
Begin(p) ==
    /\ pc = "idle"
    /\ Usable
    /\ plan' = p
    /\ todo' = MonthsOf(p)
    /\ pc' = "next"
    /\ metrics' = [m \in Months |-> NoCounts]
    /\ outcome' = "none"
    /\ steady' = TRUE
    /\ UNCHANGED <<references, month, counted, tables>>

\* The next snapshot of the plan; its Bronze rows must all be there.
TakeMonth(m) ==
    /\ pc = "next"
    /\ m \in todo
    /\ Received[plan[m]] \in {Unknown, Cardinality(Batch(m))}
    /\ month' = m
    /\ todo' = todo \ {m}
    /\ pc' = "count_valid"
    /\ UNCHANGED <<references, plan, counted, tables, metrics, outcome, steady>>

Count(from, to, field, n) ==
    /\ pc = from
    /\ counted' = [counted EXCEPT ![field] = n]
    /\ pc' = to
    /\ UNCHANGED <<references, plan, todo, month, tables, metrics, outcome, steady>>

CountValid == Count("count_valid", "count_quarantine", "valid",
                    Cardinality(ValidRows(month)))

CountQuarantine == Count("count_quarantine", "count_bad", "quarantined",
                         Cardinality(InvalidRows(month)))

\* Mutant: bad rows are counted after deduplication.
Bug_BadRows(m) == InvalidRows(m)

\* raw_bad counts every delivery.
BadRows(m) == {r \in Batch(m) : Reason(r) # Valid}

CountBad == Count("count_bad", "write_clean", "bad", Cardinality(BadRows(month)))

\* replace_snapshot: one MERGE that updates, inserts and deletes.
WriteClean ==
    /\ pc = "write_clean"
    /\ clean' = [clean EXCEPT ![month] = ValidRows(month)]
    /\ pc' = "write_quarantine"
    /\ UNCHANGED <<references, plan, todo, month, counted, quarantine, metrics,
                   outcome, steady>>

WriteQuarantine ==
    /\ pc = "write_quarantine"
    /\ quarantine' = [quarantine EXCEPT ![month] = InvalidRows(month)]
    /\ pc' = "check"
    /\ UNCHANGED <<references, plan, todo, month, counted, clean, metrics, outcome,
                   steady>>

\* Mutant: only the clean table is compared with its count.
Bug_StoredMatches(m) == Cardinality(clean[m]) = counted.valid

\* Both tables hold as many rows as were counted, all of this snapshot.
StoredMatches(m) ==
    /\ Cardinality(clean[m]) = counted.valid
    /\ Cardinality(quarantine[m]) = counted.quarantined
    /\ \A t \in clean[m] \cup quarantine[m] : t.snapshot = plan[m]

Check ==
    /\ pc = "check"
    /\ StoredMatches(month)
    /\ metrics' = [metrics EXCEPT ![month] = counted]
    /\ counted' = NoCounts
    /\ pc' = "next"
    /\ UNCHANGED <<references, plan, todo, month, tables, outcome, steady>>

TransformEnds ==
    /\ pc = "next" /\ todo = {}
    /\ pc' = "gate"
    /\ UNCHANGED <<references, plan, todo, month, counted, tables, metrics, outcome,
                   steady>>

\* A check fails, or the task is killed, whatever it was doing.
TaskFails ==
    /\ pc # "idle"
    /\ pc' = "idle"
    /\ outcome' = "FAILED"
    /\ todo' = {}
    /\ counted' = NoCounts
    /\ metrics' = [m \in Months |-> NoCounts]
    /\ UNCHANGED <<references, plan, month, tables, steady>>
-----------------------------------------------------------------------------
(***************************************************************************)
(* The quality gate reads the metrics of the transform.                    *)
(***************************************************************************)
RowsIn(m) == Cardinality(Batch(m))

Deduplicated(m) == RowsIn(m) - metrics[m].valid - metrics[m].quarantined

\* check_snapshot_metrics and the alert on small snapshots.
GatePasses ==
    /\ \A m, n \in DOMAIN plan : plan[m] = plan[n] => m = n
    /\ \A m \in DOMAIN plan :
          /\ RowsIn(m) > 0
          /\ Deduplicated(m) >= 0
          /\ metrics[m].bad <= RowsIn(m)
          /\ metrics[m].bad * OutOf <= MaxBad * RowsIn(m)
          /\ Received[plan[m]] = Unknown \/ Received[plan[m]] >= MinimumRows

Gate ==
    /\ pc = "gate"
    /\ pc' = "idle"
    /\ outcome' = IF \A m \in DOMAIN plan : RowsIn(m) = 0 THEN "NO_DATA"
                  ELSE IF GatePasses THEN "SUCCESS" ELSE "FAILED"
    /\ UNCHANGED <<references, plan, todo, month, counted, tables, metrics, steady>>
-----------------------------------------------------------------------------
(***************************************************************************)
(* seed_references, statement by statement, at any time.                   *)
(***************************************************************************)
Seeded == /\ steady' = FALSE
          /\ UNCHANGED <<plan, todo, pc, month, counted, tables, metrics, outcome>>

BeginSeed == seeds < MaxSeeds /\ seeds' = seeds + 1

SeedZone(v) ==
    /\ BeginSeed
    /\ zone' = v
    /\ Seeded
    /\ UNCHANGED <<rate, payment>>

\* TRUNCATE, INSERT, UPDATE ... SET _loaded_at
SeedStep(step, next) ==
    \/ step = "loaded" /\ BeginSeed /\ next = "truncated"
    \/ step = "truncated" /\ next = "unstamped" /\ UNCHANGED seeds
    \/ step = "unstamped" /\ next = "loaded" /\ UNCHANGED seeds

SeedRate == SeedStep(rate, rate') /\ Seeded /\ UNCHANGED <<zone, payment>>

SeedPayment ==
    /\ rate = "loaded"
    /\ SeedStep(payment, payment')
    /\ Seeded
    /\ UNCHANGED <<zone, rate>>

Next ==
    \/ \E p \in Plans : Begin(p)
    \/ \E m \in Months : TakeMonth(m)
    \/ CountValid \/ CountQuarantine \/ CountBad
    \/ WriteClean \/ WriteQuarantine \/ Check \/ TransformEnds \/ TaskFails
    \/ Gate
    \/ \E v \in ZoneVersions : SeedZone(v)
    \/ SeedRate \/ SeedPayment

Spec == Init /\ [][Next]_vars
-----------------------------------------------------------------------------
\* Whatever happened to the references meanwhile, an accepted snapshot adds up
\* in the tables: each partition holds rows of this snapshot only, and the
\* deliveries are clean, quarantined or duplicates (run_dq_gate.py "Silver row
\* count reconciliation").
AcceptedAddsUp ==
    outcome = "SUCCESS" => \A m \in DOMAIN plan :
        /\ \A t \in clean[m] \cup quarantine[m] : t.snapshot = plan[m]
        /\ Cardinality(clean[m]) + Cardinality(quarantine[m]) + Deduplicated(m) = RowsIn(m)
        /\ Cardinality(clean[m]) + Cardinality(quarantine[m]) <= RowsIn(m)

Acceptable(r) ==
    /\ r.fails = {}
    /\ zone[r.pickup] = "known" /\ zone[r.dropoff] = "known"
    /\ r.rate \in RateCodes /\ r.payment \in PaymentTypes

\* If the references stood still, the partitions are exactly the snapshot: a
\* trip is clean if and only if some delivery of it is acceptable, and it is
\* quarantined if and only if some delivery is not. Trips that a correction
\* dropped are gone, whatever attempts failed before. (A reseed between the
\* two writes can leave a trip in neither table or in both, with counts that
\* still agree.)
ExactWhenSteady ==
    steady /\ outcome = "SUCCESS" => \A m \in DOMAIN plan :
        /\ {t.trip : t \in clean[m]} = {r.trip : r \in {q \in Batch(m) : Acceptable(q)}}
        /\ {t.trip : t \in quarantine[m]}
               = {r.trip : r \in {q \in Batch(m) : ~Acceptable(q)}}

\* The same while the transform runs: what it has written so far is what the
\* references, still unchanged, say.
ExactSoFar ==
    /\ zone \in ZoneVersions
    /\ DOMAIN clean = Months /\ DOMAIN quarantine = Months
    /\ plan \in Plans /\ todo \subseteq DOMAIN plan
    /\ pc \in Working => month \in DOMAIN plan \ todo
    /\ pc = "gate" => todo = {}
    /\ outcome = "SUCCESS" => pc = "idle" /\ todo = {}
    /\ steady =>
          /\ rate = "loaded" /\ payment = "loaded"
          /\ pc # "idle" \/ outcome = "SUCCESS" =>
                \A m \in DOMAIN plan \ todo : pc \notin Working \/ m # month =>
                    clean[m] = ValidRows(m) /\ quarantine[m] = InvalidRows(m)
          /\ pc \in {"write_quarantine", "check"} => clean[month] = ValidRows(month)
          /\ pc = "check" => quarantine[month] = InvalidRows(month)

\* Every duplicate delivery of a bad trip counts against the threshold.
GateCountsDeliveries ==
    steady /\ outcome = "SUCCESS" => \A m \in DOMAIN plan :
        Cardinality({r \in Batch(m) : ~Acceptable(r)}) * OutOf <= MaxBad * RowsIn(m)
=============================================================================
