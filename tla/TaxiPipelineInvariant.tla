------------------------ MODULE TaxiPipelineInvariant ------------------------
(***************************************************************************)
(* The inductive invariant of TaxiPipeline where no run lands twice:       *)
(* repairs keep their source URIs, and these are gs:// URIs (LandsOnce).   *)
(* It says why a snapshot the DQ gate rejects cannot reach Gold through    *)
(* the shared Silver tables: only the run with the newest landed plan of a *)
(* month writes that month, and what such a run wrote is still there when  *)
(* its Gold task reads it.                                                 *)
(***************************************************************************)
EXTENDS TaxiPipeline

StatusOf(r, t) == row[r][t].status
PlanOf(r, t) == row[r][t].payload.plan
EmptyOf(r, t) == row[r][t].payload.empty

InSlot(r) == phase[r] \in {"ready", "busy"}
Taken(r) == phase[r] \in {"ready", "busy", "failed"}

\* The run in the slot is the only one whose task is starting or running.
SlotInv == \A r \in Runs : InSlot(r) <=> active = r

\* Until its first task starts a run has no rows; then it has a request.
LaunchInv ==
    \A r \in Runs :
        /\ phase[r] \in {"unknown", "queued"} =>
               /\ \A t \in Task : StatusOf(r, t) = "ABSENT"
               /\ task[r] = Landing
        /\ phase[r] # "unknown" => request[r] \in Requests

\* Every task before the current one has passed.
ChainInv ==
    \A r \in Runs : Taken(r) =>
        \A t \in Task : Place[t] < Place[task[r]] => Passed(StatusOf(r, t))

\* A landed plan is final: it is what the URIs ask for, and what the rows of
\* all later tasks carry.
PlanInv ==
    \A r \in Runs :
        /\ Passed(StatusOf(r, Landing)) => SamePlan(r)
        /\ \A t \in Task \ {Landing} :
               /\ StatusOf(r, t) # "ABSENT" =>
                      /\ Passed(StatusOf(r, Landing))
                      /\ PlanOf(r, t) = LandingPlan(r)
               /\ StatusOf(r, t) \in {"RUNNING", "SUCCESS"} =>
                      StatusOf(r, Landing) = "SUCCESS"

\* Successful landings are totally ordered by updated_at.
StampInv ==
    \A r \in Runs : Passed(StatusOf(r, Landing)) =>
        /\ row[r][Landing].at \in 1..clock
        /\ \A q \in Runs \ {r} : Passed(StatusOf(q, Landing)) =>
               row[q][Landing].at # row[r][Landing].at

\* A task past its checks is marked RUNNING, has a successful upstream and the
\* newest plan of its months.
BusyInv ==
    \A r \in Runs : phase[r] = "busy" =>
        /\ StatusOf(r, task[r]) = "RUNNING"
        /\ task[r] # "monitor"
        /\ task[r] # Landing =>
               /\ UpstreamRow(r).status = "SUCCESS"
               /\ ~Superseded(r, LandingPlan(r))

\* Only months of the active run's plan are written.
TodoInv ==
    \A p \in todo : /\ active \in Runs
                    /\ phase[active] = "busy"
                    /\ p[2] \in Covered(LandingPlan(active))

\* Past the gate: Silver succeeded, no month was empty and all snapshots pass.
GateInv ==
    \A r \in Runs :
        /\ Taken(r)
        /\ Place["dq_gate"] < Place[task[r]]
        /\ StatusOf(r, "dq_gate") = "SUCCESS"
        => /\ StatusOf(r, "transform_silver") = "SUCCESS"
           /\ EmptyOf(r, "transform_silver") = {}
           /\ \A m \in Covered(LandingPlan(r)) : LandingPlan(r)[m] \in Good

\* What a successful Silver task wrote stays until a newer plan is landed.
SilverInv ==
    \A r \in Runs :
        /\ StatusOf(r, "transform_silver") = "SUCCESS"
        /\ ~Superseded(r, LandingPlan(r))
        => \A m \in Covered(LandingPlan(r)) :
               clean[m] = IF m \in EmptyOf(r, "transform_silver") THEN NoSnapshot
                          ELSE LandingPlan(r)[m]

\* Together: inductive, and enough for what aggregate_gold reads.
IInv ==
    /\ SlotInv /\ LaunchInv /\ ChainInv /\ PlanInv /\ StampInv
    /\ BusyInv /\ TodoInv /\ GateInv /\ SilverInv /\ GoldOnlyChecked
=============================================================================
