--------------------------- MODULE MCTaxiPipeline ---------------------------
(***************************************************************************)
(* Launch parameters and sizes for model checking TaxiPipeline.            *)
(***************************************************************************)
EXTENDS TaxiPipelineInvariant, TLC

CONSTANTS m1, m2, s1, s2, s3, bad, stray

\* A backfill of the months of uris from already landed gs:// objects.
Backfill(uris) ==
    [backfill |-> TRUE, months |-> Covered(uris), uris |-> uris]

Uris(a, b) == [m \in Months |-> IF m = m1 THEN a ELSE b]

\* The run of the job's own schedule: no months and no URIs are given.
Scheduled == [backfill |-> FALSE, months |-> Months, uris |-> NoPlan]

\* Plans for both months and for one of them, so that superseding is partial,
\* and one whose object holds no row of its month.
OverlapRequests == {Backfill(Uris(s1, s2)), Backfill(Uris(NoSnapshot, s3)),
                    Backfill(Uris(NoSnapshot, stray))}

\* Backfills of the first month from any object.
GateRequests == {Backfill(Uris(s, NoSnapshot)) : s \in Snapshots}

\* The schedule, and backfills of the first month as operators launch them.
ScheduledRequests == {Scheduled, Backfill(Uris(s2, NoSnapshot))}

\* The schedule, and backfills of the first month with a gs:// URI and with an
\* https:// or file:// URI, whose landing every repair repeats.
QueueRequests == {Scheduled, Backfill(Uris(s1, NoSnapshot)),
                  Backfill(Uris(Elsewhere, NoSnapshot))}

\* Run ids are interchangeable: no property names one.
RunSymmetry == Permutations(Runs)
=============================================================================
