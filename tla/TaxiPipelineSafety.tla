-------------------------- MODULE TaxiPipelineSafety --------------------------
(***************************************************************************)
(* TaxiPipeline for every number of runs, months, snapshots and marts: its *)
(* types, and the invariant IInv of every run history in which repairs     *)
(* keep their source URIs and these are gs:// URIs (LandsOnce); with it,   *)
(* only checked snapshots reach Gold and superseded runs write nothing.    *)
(***************************************************************************)
EXTENDS TaxiPipelineInvariant, TLAPS

USE SnapshotAssumption, PipelineAssumption

-----------------------------------------------------------------------------
(***************************************************************************)
(* Typing.                                                                 *)
(***************************************************************************)
\* RunState.write keeps the table well typed.
LEMMA WriteTyped ==
    ASSUME RowTypeOK, NEW r \in Runs, NEW t \in Task, NEW status \in Status,
           NEW p \in Payload, Write(r, t, status, p)
    PROVE  RowTypeOK'
<1>1. clock' \in Nat
  BY DEF Write, RowTypeOK
<1>2. [status |-> status, payload |-> p,
       at |-> IF Ordered(t, status)
              THEN IF Ordered(t, status) THEN clock + 1 ELSE clock ELSE 0] \in Row
  BY DEF Row, RowTypeOK
<1>3. row' \in [Runs -> [Task -> Row]]
  BY <1>2 DEF Write, RowTypeOK
<1> QED  BY <1>1, <1>3 DEF RowTypeOK

\* The payload a task with an upstream receives.
LEMMA ReceivedTyped ==
    ASSUME TypeOK, NEW r \in Runs, task[r] # Landing
    PROVE  /\ Upstream[task[r]] \in Task
           /\ Received(r) \in Payload
           /\ Received(r).plan \in Plan
           /\ Received(r).empty \subseteq Months
           /\ UpstreamRow(r).status \in Status
<1>1. task[r] \in Task
  BY DEF TypeOK
<1>2. Upstream[task[r]] \in Task
  BY <1>1 DEF Upstream, Task, Landing
<1>3. UpstreamRow(r) \in Row
  BY <1>2 DEF UpstreamRow, TypeOK, RowTypeOK
<1> QED  BY <1>2, <1>3 DEF Row, Received, Payload

\* Where the chain goes next is a task again.
LEMMA AdvanceTyped ==
    ASSUME TypeOK, NEW r \in Runs, Advance(r)
    PROVE  /\ phase' \in [Runs -> Phase]
           /\ task' \in [Runs -> Task]
           /\ active' \in Runs \cup {NoRun}
<1>1. CASE task[r] = "monitor"
  BY <1>1 DEF Advance, TypeOK, Phase
<1>2. CASE task[r] # "monitor"
  <2>1. Successor[task[r]] \in Task
    BY <1>2 DEF TypeOK, Task, Successor
  <2> QED  BY <1>2, <2>1 DEF Advance, TypeOK, Phase
<1> QED  BY <1>1, <1>2

\* The lake tables and handoffs, the only variables a task's own action writes.
LakeTypeOK ==
    /\ bronze \subseteq Months \X Snapshots
    /\ clean \in Plan
    /\ quarantine \in Plan
    /\ gold \in [Marts -> Plan]
    /\ export \in [Runs -> [Marts -> Plan]]

\* A task that succeeds, whatever well-typed tables it leaves.
LEMMA SucceedTyped ==
    ASSUME TypeOK, NEW r \in Runs, NEW p \in Payload, NEW status \in Status,
           Succeed(r, status, p), LakeTypeOK'
    PROVE  TypeOK'
<1>1. task[r] \in Task
  BY DEF TypeOK
<1>2. RowTypeOK'
  BY <1>1, WriteTyped DEF Succeed, TypeOK
<1>3. /\ phase' \in [Runs -> Phase]
      /\ task' \in [Runs -> Task]
      /\ active' \in Runs \cup {NoRun}
  BY AdvanceTyped DEF Succeed
<1> QED  BY <1>2, <1>3 DEF Succeed, TypeOK, LakeTypeOK, sourceVars

LEMMA LakeUnchanged ==
    ASSUME TypeOK, UNCHANGED lakeVars
    PROVE  LakeTypeOK'
BY DEF TypeOK, LakeTypeOK, lakeVars

\* A task that fails.
LEMMA FailTyped ==
    ASSUME TypeOK, NEW r \in Runs, NEW p \in Payload, Fail(r, p)
    PROVE  TypeOK'
<1>1. task[r] \in Task /\ "FAILED" \in Status
  BY DEF TypeOK, Status
<1>2. RowTypeOK'
  BY <1>1, WriteTyped DEF Fail, TypeOK
<1> QED  BY <1>2 DEF Fail, TypeOK, Phase, sourceVars, lakeVars

\* The plan source_landing arrives at is a plan.
LEMMA LandedTyped ==
    ASSUME TypeOK, NEW r \in Runs
    PROVE  LandedPlan(r) \in Plan
<1>1. \A m \in Months : Fetched(r, m) \in Snapshots \cup {NoSnapshot}
  BY DEF Fetched, TypeOK, Plan
<1> QED  BY <1>1 DEF LandedPlan, Plan

LEMMA NoPayloadTyped == NoPayload \in Payload
BY DEF NoPayload, Payload, NoPlan, Plan

\* Marking a row RUNNING and taking up the work of the task.
LEMMA BeginTyped ==
    ASSUME TypeOK, NEW r \in Runs, NEW p \in Payload,
           NEW work \in SUBSET Partition, Begin(r, p, work)
    PROVE  TypeOK'
<1>1. task[r] \in Task /\ "RUNNING" \in Status
  BY DEF TypeOK, Status
<1>2. RowTypeOK'
  BY <1>1, WriteTyped DEF Begin, TypeOK
<1> QED  BY <1>2 DEF Begin, TypeOK, Phase, sourceVars, lakeVars

LEMMA WorkTyped ==
    ASSUME TypeOK, NEW r \in Runs
    PROVE  Work(r) \subseteq Partition
<1>1. Covered(Received(r).plan) \subseteq Months
  BY DEF Covered
<1> QED  BY <1>1 DEF Work, Tables, Partition, SilverPartition, GoldPartition

\* The queue, the faults and the source: no state row and no table changes.
LEMMA QueueTyped ==
    ASSUME TypeOK, NEW r \in Runs,
           \/ \E q \in Requests : Submit(r, q)
           \/ Start(r)
           \/ \E t \in Task : Resume(r, t)
           \/ Crash(r)
           \/ RefuseSuperseded(r)
           \/ LandingReusesPrior(r)
    PROVE  TypeOK'
<1> USE DEF TypeOK, RowTypeOK, stateVars, sourceVars, lakeVars
<1>1. ASSUME NEW q \in Requests, Submit(r, q)  PROVE TypeOK'
  BY <1>1 DEF Submit, Phase
<1>2. CASE Start(r)
  BY <1>2 DEF Start, Phase
<1>3. ASSUME NEW t \in Task, Resume(r, t)  PROVE TypeOK'
  <2>1. Corrected(request[r]) \subseteq Request
    BY DEF Corrected
  <2>2. request' \in [Runs -> Request]
    BY <1>3, <2>1 DEF Resume
  <2>3. resumes' \in Nat
    BY <1>3 DEF Resume
  <2> QED  BY <1>3, <2>2, <2>3 DEF Resume, Phase
<1>4. CASE Crash(r)
  BY <1>4 DEF Crash, Phase
<1>5. CASE RefuseSuperseded(r)
  BY <1>5 DEF RefuseSuperseded, Phase
<1>6. CASE LandingReusesPrior(r)
  BY <1>6, AdvanceTyped DEF LandingReusesPrior
<1> QED  BY <1>1, <1>2, <1>3, <1>4, <1>5, <1>6

\* source_landing ends or begins.
LEMMA LandingTyped ==
    ASSUME TypeOK, NEW r \in Runs,
           LandingBegins(r) \/ LandingEnds(r) \/ LandingUnavailable(r)
    PROVE  TypeOK'
<1>1. CASE LandingBegins(r)
  BY <1>1, BeginTyped, NoPayloadTyped DEF LandingBegins
<1>2. CASE LandingEnds(r)
  <2>1. [plan |-> LandedPlan(r), empty |-> {}] \in Payload
    BY LandedTyped DEF Payload
  <2>2. {"SUCCESS", "NO_DATA"} \subseteq Status
    BY DEF Status
  <2> QED  BY <1>2, <2>1, <2>2, SucceedTyped, LakeUnchanged DEF LandingEnds
<1>3. CASE LandingUnavailable(r)
  BY <1>3, FailTyped, NoPayloadTyped DEF LandingUnavailable
<1> QED  BY <1>1, <1>2, <1>3

\* The common part of execute_task, and monitor_pipeline.run.
LEMMA ChainTyped ==
    ASSUME TypeOK, NEW r \in Runs,
           \/ PassNoData(r) \/ TaskBegins(r) \/ TaskFails(r)
           \/ MonitorPasses(r) \/ MonitorFails(r)
    PROVE  TypeOK'
<1> "NO_DATA" \in Status
  BY DEF Status
<1>1. CASE PassNoData(r)
  BY <1>1, ReceivedTyped, SucceedTyped, LakeUnchanged DEF PassNoData, Chained, Landing
<1>2. CASE TaskBegins(r)
  BY <1>2, ReceivedTyped, WorkTyped, BeginTyped DEF TaskBegins, Chained, Landing
<1>3. CASE TaskFails(r)
  BY <1>3, ReceivedTyped, NoPayloadTyped, FailTyped DEF TaskFails
<1>4. CASE MonitorPasses(r)
  BY <1>4, ReceivedTyped, SucceedTyped, LakeUnchanged DEF MonitorPasses, At, Landing
<1>5. CASE MonitorFails(r)
  BY <1>5, ReceivedTyped, FailTyped DEF MonitorFails, At, Landing
<1> QED  BY <1>1, <1>2, <1>3, <1>4, <1>5

\* The tasks whose own action leaves the tables alone.
LEMMA CheckTyped ==
    ASSUME TypeOK, NEW r \in Runs,
           \/ PreflightEnds(r) \/ SilverEnds(r) \/ GoldEnds(r)
           \/ GateReplay(r) \/ GatePasses(r) \/ GateRejects(r)
    PROVE  TypeOK'
<1> {"SUCCESS", "NO_DATA"} \subseteq Status
  BY DEF Status
<1>1. task[r] # Landing
  BY DEF PreflightEnds, SilverEnds, GoldEnds, GateReplay, GatePasses, GateRejects,
         At, Landing
<1> Received(r) \in Payload /\ Received(r).plan \in Plan
  BY <1>1, ReceivedTyped
<1>2. CASE PreflightEnds(r)
  BY <1>2, SucceedTyped, LakeUnchanged DEF PreflightEnds
<1>3. CASE SilverEnds(r)
  <2>1. ASSUME NEW empty \in SUBSET Months
        PROVE  [plan |-> Received(r).plan, empty |-> empty] \in Payload
    BY DEF Payload
  <2>2. {m \in Covered(Received(r).plan) : BronzeBatch(r, m) = NoSnapshot} \subseteq Months
    BY DEF Covered
  <2> QED  BY <1>3, <2>1, <2>2, SucceedTyped, LakeUnchanged DEF SilverEnds
<1>4. CASE GoldEnds(r)
  BY <1>4, SucceedTyped, LakeUnchanged DEF GoldEnds
<1>5. CASE GateReplay(r)
  BY <1>5, SucceedTyped, LakeUnchanged DEF GateReplay
<1>6. CASE GatePasses(r)
  BY <1>6, SucceedTyped, LakeUnchanged DEF GatePasses
<1>7. CASE GateRejects(r)
  BY <1>7, FailTyped DEF GateRejects
<1> QED  BY <1>2, <1>3, <1>4, <1>5, <1>6, <1>7

\* The tasks that write tables.
LEMMA LakeTyped ==
    ASSUME TypeOK, NEW r \in Runs,
           \/ BronzeEnds(r) \/ ExportEnds(r)
           \/ \E m \in Months : ReplaceClean(r, m) \/ ReplaceQuarantine(r, m)
           \/ \E mart \in Marts, m \in Months : WriteMart(r, mart, m)
    PROVE  TypeOK'
<1> "SUCCESS" \in Status
  BY DEF Status
<1>1. task[r] # Landing
  BY DEF BronzeEnds, ExportEnds, ReplaceClean, ReplaceQuarantine, WriteMart, At, Landing
<1>2. Received(r) \in Payload /\ Received(r).plan \in Plan
  BY <1>1, ReceivedTyped
<1>3. \A m \in Months : BronzeBatch(r, m) \in Snapshots \cup {NoSnapshot}
  BY <1>2 DEF BronzeBatch, Plan
<1>4. CASE BronzeEnds(r)
  <2>1. LakeTypeOK'
    BY <1>4 DEF BronzeEnds, Ingested, TypeOK, LakeTypeOK
  <2> QED  BY <1>2, <1>4, <2>1, SucceedTyped DEF BronzeEnds
<1>5. CASE ExportEnds(r)
  <2>1. [mart \in Marts |-> [m \in Months |->
           IF m \in Covered(Received(r).plan) THEN gold[mart][m] ELSE NoSnapshot]]
        \in [Marts -> Plan]
    BY DEF TypeOK, Plan
  <2>2. LakeTypeOK'
    BY <1>5, <2>1 DEF ExportEnds, TypeOK, LakeTypeOK, silverVars
  <2> QED  BY <1>2, <1>5, <2>2, SucceedTyped DEF ExportEnds
<1>6. ASSUME NEW m \in Months, ReplaceClean(r, m) \/ ReplaceQuarantine(r, m)
      PROVE  TypeOK'
  <2>1. todo' \subseteq todo /\ clean' \in Plan /\ quarantine' \in Plan
    <3>1. CASE ReplaceClean(r, m)
      BY <1>3, <3>1 DEF ReplaceClean, TypeOK, Plan
    <3>2. CASE ReplaceQuarantine(r, m)
      BY <1>3, <3>2 DEF ReplaceQuarantine, TypeOK, Plan
    <3> QED  BY <1>6, <3>1, <3>2
  <2>2. UNCHANGED <<row, clock, phase, task, request, resumes, active, source, changes,
                    bronze, gold, export>>
    BY <1>6 DEF ReplaceClean, ReplaceQuarantine, stateVars, sourceVars
  <2> QED  BY <2>1, <2>2 DEF TypeOK, RowTypeOK
<1>7. ASSUME NEW mart \in Marts, NEW m \in Months, WriteMart(r, mart, m)
      PROVE  TypeOK'
  BY <1>7 DEF WriteMart, TypeOK, RowTypeOK, Plan, stateVars, sourceVars, silverVars
<1> QED  BY <1>4, <1>5, <1>6, <1>7

LEMMA TypeInit == Init => TypeOK
<1> SUFFICES ASSUME Init PROVE TypeOK
  OBVIOUS
<1>1. NoPlan \in Plan
  BY DEF NoPlan, Plan
<1>2. NoRequest \in Request
  BY DEF NoRequest, Request, NoPlan
<1>3. AbsentRow \in Row
  BY NoPayloadTyped DEF AbsentRow, Row, Status
<1>4. source \in Plan
  BY DEF Init, Plan
<1> QED  BY <1>1, <1>2, <1>3, <1>4 DEF Init, TypeOK, RowInit, RowTypeOK, Phase, Task

LEMMA TypeStep == TypeOK /\ [Next]_vars => TypeOK'
<1> SUFFICES ASSUME TypeOK, [Next]_vars PROVE TypeOK'
  OBVIOUS
<1>1. ASSUME NEW r \in Runs, Step(r) \/ Fault(r) PROVE TypeOK'
  BY <1>1, QueueTyped, LandingTyped, ChainTyped, CheckTyped, LakeTyped DEF Step, Fault
<1>2. ASSUME NEW r \in Runs,
             \/ \E q \in Requests : Submit(r, q)
             \/ Start(r)
             \/ \E t \in Task : Resume(r, t)
      PROVE TypeOK'
  BY <1>2, QueueTyped
<1>3. ASSUME NEW m \in Months, NEW s \in Served, ChangeSource(m, s) PROVE TypeOK'
  BY <1>3 DEF ChangeSource, TypeOK, RowTypeOK, Plan, stateVars, queueVars, lakeVars
<1>4. CASE UNCHANGED vars
  BY <1>4 DEF vars, TypeOK, RowTypeOK
<1> QED  BY <1>1, <1>2, <1>3, <1>4 DEF Next

\* Every reachable state is well typed.
THEOREM TypeCorrect == Spec => []TypeOK
<1> QED  BY TypeInit, TypeStep, PTL DEF Spec

-----------------------------------------------------------------------------
(***************************************************************************)
(* Safety.                                                                 *)
(***************************************************************************)
\* The six ways a step of run r can change its rows and its place in the chain.
Stops(r) ==
    /\ phase' = [phase EXCEPT ![r] = "failed"]
    /\ active' = NoRun
    /\ todo' = {}
    /\ UNCHANGED <<row, clock, task, request, lakeVars>>

WritesPartition(r) ==
    /\ phase[r] = "busy"
    /\ \/ \E m \in Months : ReplaceClean(r, m) \/ ReplaceQuarantine(r, m)
       \/ \E mart \in Marts, m \in Months : WriteMart(r, mart, m)

Begins(r) == LandingBegins(r) \/ TaskBegins(r)

Succeeds(r) ==
    \/ LandingEnds(r) \/ PassNoData(r) \/ PreflightEnds(r) \/ BronzeEnds(r)
    \/ SilverEnds(r) \/ GateReplay(r) \/ GatePasses(r) \/ GoldEnds(r)
    \/ ExportEnds(r) \/ MonitorPasses(r)

Fails(r) ==
    LandingUnavailable(r) \/ TaskFails(r) \/ GateRejects(r) \/ MonitorFails(r)

LEMMA StepShapes ==
    ASSUME TypeOK, TodoInv, SlotInv, NEW r \in Runs, Step(r) \/ Fault(r)
    PROVE  /\ InSlot(r)
           /\ \/ Stops(r) \/ WritesPartition(r) \/ Begins(r) \/ Succeeds(r)
              \/ Fails(r) \/ LandingReusesPrior(r)
<1>1. InSlot(r)
  BY DEF InSlot, Step, Fault, LandingReusesPrior, LandingBegins, LandingEnds,
     LandingUnavailable, PassNoData, RefuseSuperseded, TaskBegins, PreflightEnds,
     BronzeEnds, ReplaceClean, ReplaceQuarantine, SilverEnds, GateReplay, GatePasses,
     GateRejects, WriteMart, GoldEnds, ExportEnds, MonitorPasses, MonitorFails,
     TaskFails, Crash, At
<1>2. CASE RefuseSuperseded(r)
  <2>1. phase[r] # "busy" /\ active = r
    BY <1>1, <1>2 DEF RefuseSuperseded, SlotInv
  <2>2. todo = {}
    BY <2>1 DEF TodoInv
  <2> QED  BY <1>1, <1>2, <2>2 DEF RefuseSuperseded, Stops, stateVars
<1>3. CASE Crash(r)
  BY <1>1, <1>3 DEF Crash, Stops, stateVars
<1>4. CASE \/ \E m \in Months : ReplaceClean(r, m) \/ ReplaceQuarantine(r, m)
           \/ \E mart \in Marts, m \in Months : WriteMart(r, mart, m)
  BY <1>1, <1>4 DEF WritesPartition, ReplaceClean, ReplaceQuarantine, WriteMart, At
<1> QED  BY <1>1, <1>2, <1>3, <1>4 DEF Step, Fault, Begins, Succeeds, Fails

\* Each of them, as one of the operators the actions are written with.
LEMMA BeginsShape ==
    ASSUME NEW r \in Runs, Begins(r)
    PROVE  \E p, work : Begin(r, p, work)
BY DEF Begins, LandingBegins, TaskBegins

LEMMA SucceedsShape ==
    ASSUME NEW r \in Runs, Succeeds(r)
    PROVE  \E status \in {"SUCCESS", "NO_DATA"} : \E p : Succeed(r, status, p)
<1>1. CASE MonitorPasses(r)
  BY <1>1 DEF MonitorPasses, Passed
<1> QED  BY <1>1 DEF Succeeds, LandingEnds, PassNoData, PreflightEnds, BronzeEnds, SilverEnds,
            GateReplay, GatePasses, GoldEnds, ExportEnds

LEMMA FailsShape ==
    ASSUME NEW r \in Runs, Fails(r)
    PROVE  \E p : Fail(r, p)
BY DEF Fails, LandingUnavailable, TaskFails, GateRejects, MonitorFails

\* What RunState.write leaves in the table.
LEMMA WriteEffect ==
    ASSUME RowTypeOK, NEW r \in Runs, NEW t \in Task, NEW status, NEW p,
           Write(r, t, status, p)
    PROVE  /\ row'[r][t].status = status
           /\ row'[r][t].payload = p
           /\ Ordered(t, status) => row'[r][t].at = clock + 1 /\ clock' = clock + 1
           /\ ~Ordered(t, status) => clock' = clock
           /\ \A u \in Task \ {t} : row'[r][u] = row[r][u]
           /\ \A q \in Runs \ {r} : row'[q] = row[q]
BY DEF Write, RowTypeOK

\* A step of run r leaves the other runs, and r's other rows, as they are.
LEMMA Frame ==
    ASSUME TypeOK, TodoInv, SlotInv, NEW r \in Runs, Step(r) \/ Fault(r)
    PROVE  /\ request' = request
           /\ \A q \in Runs \ {r} : /\ phase'[q] = phase[q]
                                   /\ task'[q] = task[q]
                                   /\ row'[q] = row[q]
           /\ \A u \in Task \ {task[r]} : row'[r][u] = row[r][u]
           /\ clock' \in {clock, clock + 1}
<1> USE DEF TypeOK
<1>0. task[r] \in Task /\ RowTypeOK
  OBVIOUS
<1>1. CASE Stops(r)
  BY <1>1 DEF Stops
<1>2. CASE WritesPartition(r)
  BY <1>2 DEF WritesPartition, ReplaceClean, ReplaceQuarantine, WriteMart, stateVars
<1>3. CASE Begins(r)
  <2>1. PICK p, work : Begin(r, p, work)
    BY <1>3, BeginsShape
  <2> QED  BY <1>0, <2>1, WriteEffect DEF Begin
<1>4. CASE Succeeds(r)
  <2>1. PICK status \in {"SUCCESS", "NO_DATA"} : \E p : Succeed(r, status, p)
    BY <1>4, SucceedsShape
  <2> QED  BY <1>0, <2>1, WriteEffect DEF Succeed, Advance
<1>5. CASE Fails(r)
  <2>1. PICK p : Fail(r, p)
    BY <1>5, FailsShape
  <2> QED  BY <1>0, <2>1, WriteEffect DEF Fail
<1>6. CASE LandingReusesPrior(r)
  BY <1>6 DEF LandingReusesPrior, Advance, stateVars
<1> QED  BY StepShapes, <1>1, <1>2, <1>3, <1>4, <1>5, <1>6

\* The slot is kept until the run stops, and then given up.
LEMMA SlotRun ==
    ASSUME TypeOK, TodoInv, SlotInv, NEW r \in Runs, Step(r) \/ Fault(r)
    PROVE  SlotInv'
<1> USE DEF TypeOK, SlotInv, InSlot
<1>0. active = r
  BY StepShapes
<1>1. CASE Stops(r)
  BY <1>0, <1>1 DEF Stops
<1>2. CASE WritesPartition(r)
  BY <1>2 DEF WritesPartition, ReplaceClean, ReplaceQuarantine, WriteMart
<1>3. CASE Begins(r)
  <2>1. PICK p, work : Begin(r, p, work)
    BY <1>3, BeginsShape
  <2> QED  BY <1>0, <2>1 DEF Begin
<1>4. CASE Advance(r)
  BY <1>0, <1>4 DEF Advance
<1>5. CASE Fails(r)
  <2>1. PICK p : Fail(r, p)
    BY <1>5, FailsShape
  <2> QED  BY <1>0, <2>1 DEF Fail
<1>6. CASE Succeeds(r)
  BY <1>4, <1>6, SucceedsShape DEF Succeed
<1>7. CASE LandingReusesPrior(r)
  BY <1>4, <1>7 DEF LandingReusesPrior
<1> QED  BY StepShapes, <1>1, <1>2, <1>3, <1>5, <1>6, <1>7
-----------------------------------------------------------------------------
(***************************************************************************)
(* Landed plans are final, so a superseded run stays superseded.           *)
(***************************************************************************)
LEMMA LandingStable ==
    ASSUME TypeOK, IInv, NEW r \in Runs, Step(r) \/ Fault(r)
    PROVE  \A q \in Runs : Passed(StatusOf(q, Landing)) =>
               row'[q][Landing] = row[q][Landing]
<1> USE DEF IInv
<1>1. \A q \in Runs \ {r} : row'[q] = row[q]
  BY Frame
<1>2. CASE task[r] # Landing
  <2>1. Landing \in Task \ {task[r]}
    BY <1>2 DEF Landing, Task
  <2> QED  BY <1>1, <2>1, Frame
<1>3. ASSUME task[r] = Landing, Passed(StatusOf(r, Landing))
      PROVE  row'[r][Landing] = row[r][Landing]
  <2>1. phase[r] # "busy"
    BY <1>3 DEF BusyInv, Passed
  <2>2. CASE Stops(r)
    BY <2>2 DEF Stops
  <2>3. ~WritesPartition(r)
    BY <2>1 DEF WritesPartition
  <2>4. ~Begins(r)
    BY <1>3 DEF Begins, LandingBegins, TaskBegins, Chained, PlanInv, StatusOf, Landing
  <2>5. ~Succeeds(r)
    BY <1>3, <2>1 DEF Succeeds, LandingEnds, PassNoData, PreflightEnds, BronzeEnds,
       SilverEnds, GateReplay, GatePasses, GoldEnds, ExportEnds, MonitorPasses,
       Chained, At, Landing
  <2>6. ~Fails(r)
    BY <1>3, <2>1 DEF Fails, LandingUnavailable, TaskFails, GateRejects, MonitorFails,
       At, Landing
  <2>7. CASE LandingReusesPrior(r)
    BY <2>7 DEF LandingReusesPrior, stateVars
  <2> QED  BY StepShapes, <2>2, <2>3, <2>4, <2>5, <2>6, <2>7
<1> QED  BY <1>1, <1>2, <1>3

LEMMA SupersededStays ==
    ASSUME NEW r \in Runs, Passed(StatusOf(r, Landing)),
           \A q \in Runs : Passed(StatusOf(q, Landing)) =>
               row'[q][Landing] = row[q][Landing],
           Superseded(r, LandingPlan(r))
    PROVE  Superseded(r, LandingPlan(r))'
BY DEF Superseded, LandingPlan, StatusOf, Passed, Landing

\* A landing that passes is stamped later than everything before it.
LEMMA LandedStamp ==
    ASSUME TypeOK, IInv, NEW r \in Runs, Step(r) \/ Fault(r),
           Passed(StatusOf(r, Landing))', ~Passed(StatusOf(r, Landing))
    PROVE  row'[r][Landing].at = clock + 1 /\ clock' = clock + 1
<1> USE DEF IInv
<1>0. RowTypeOK /\ task[r] \in Task
  BY DEF TypeOK
<1>1. task[r] = Landing
  BY Frame DEF StatusOf, Landing, Task
<1>2. ~Stops(r) /\ ~WritesPartition(r) /\ ~LandingReusesPrior(r)
  BY DEF Stops, WritesPartition, ReplaceClean, ReplaceQuarantine, WriteMart,
     LandingReusesPrior, stateVars, StatusOf
<1>3. ~Begins(r)
  <2>1. ASSUME NEW p, NEW work, Begin(r, p, work) PROVE FALSE
    BY <1>0, <1>1, <2>1, WriteEffect DEF Begin, StatusOf, Passed
  <2> QED  BY <2>1, BeginsShape
<1>4. ~Fails(r)
  <2>1. ASSUME NEW p, Fail(r, p) PROVE FALSE
    BY <1>0, <1>1, <2>1, WriteEffect DEF Fail, StatusOf, Passed
  <2> QED  BY <2>1, FailsShape
<1>5. PICK status \in {"SUCCESS", "NO_DATA"} : \E p : Succeed(r, status, p)
  BY <1>2, <1>3, <1>4, StepShapes, SucceedsShape
<1> QED  BY <1>0, <1>1, <1>5, WriteEffect DEF Succeed, Ordered, Passed, Landing

\* So a step preserves the order of the stamps.
LEMMA StampRun ==
    ASSUME TypeOK, IInv, NEW r \in Runs, Step(r) \/ Fault(r)
    PROVE  StampInv'
<1> USE DEF IInv
<1>1. \A q \in Runs : Passed(StatusOf(q, Landing)) => row'[q][Landing] = row[q][Landing]
  BY LandingStable
<1>2. \A q \in Runs \ {r} : row'[q] = row[q]
  BY Frame
<1>3. clock \in Nat /\ clock' \in {clock, clock + 1}
  BY Frame DEF TypeOK, RowTypeOK
<1> QED  BY <1>1, <1>2, <1>3, LandedStamp DEF StampInv, StatusOf
-----------------------------------------------------------------------------
(***************************************************************************)
(* The chain of tasks.                                                     *)
(***************************************************************************)
\* Places, successors and upstreams describe the same chain.
LEMMA ChainOrder ==
    /\ \A t \in Task : Place[t] \in 1..8
    /\ \A t, u \in Task : Place[t] = Place[u] => t = u
    /\ \A t \in Task \ {"monitor"} :
           Successor[t] \in Task /\ Place[Successor[t]] = Place[t] + 1
    /\ \A t \in Task \ {Landing} :
           /\ Upstream[t] \in Task
           /\ Place[t] = Place[Upstream[t]] + 1
           /\ Place[Landing] < Place[t]
           /\ Upstream[t] # t
    /\ Place[Landing] = 1
    /\ Landing \in Task
BY DEF Task, Place, Successor, Upstream, Landing

\* What a task past the landing received is the landed plan; only a landing
\* that ended SUCCESS has a successful task after it.
LEMMA ReceivedPlan ==
    ASSUME TypeOK, IInv, NEW r \in Runs, Taken(r), task[r] # Landing
    PROVE  /\ Passed(StatusOf(r, Landing))
           /\ Received(r).plan = LandingPlan(r)
           /\ UpstreamRow(r).status = "SUCCESS" => StatusOf(r, Landing) = "SUCCESS"
<1>1. task[r] \in Task \ {Landing}
  BY DEF TypeOK
<1>2. Passed(StatusOf(r, Landing)) /\ Passed(UpstreamRow(r).status)
  <2>1. Place[Upstream[task[r]]] < Place[task[r]] /\ Upstream[task[r]] \in Task
    BY <1>1, ChainOrder
  <2> QED  BY <1>1, <2>1, ChainOrder DEF IInv, ChainInv, StatusOf, UpstreamRow
<1>3. CASE Upstream[task[r]] = Landing
  BY <1>2, <1>3 DEF Received, UpstreamRow, LandingPlan, StatusOf
<1>4. CASE Upstream[task[r]] # Landing
  <2>1. Upstream[task[r]] \in Task \ {Landing}
    BY <1>1, <1>4, ChainOrder
  <2> QED  BY <1>2, <2>1 DEF IInv, PlanInv, PlanOf, StatusOf, Received, UpstreamRow, Passed
<1> QED  BY <1>2, <1>3, <1>4

\* Where a step leaves its run, and what it writes on the way.
LEMMA RunMoves ==
    ASSUME TypeOK, IInv, NEW r \in Runs, Step(r) \/ Fault(r)
    PROVE  /\ phase'[r] \in {"ready", "busy", "failed", "done"}
           /\ \/ task'[r] = task[r]
              \/ /\ task[r] # "monitor"
                 /\ task'[r] = Successor[task[r]]
                 /\ Passed(row'[r][task[r]].status)
<1> USE DEF TypeOK, IInv
<1>0. task[r] \in Task /\ RowTypeOK /\ InSlot(r)
  BY StepShapes
<1>1. CASE Stops(r)
  BY <1>1 DEF Stops
<1>2. CASE WritesPartition(r)
  BY <1>2 DEF WritesPartition, ReplaceClean, ReplaceQuarantine, WriteMart
<1>3. CASE Begins(r)
  <2>1. PICK p, work : Begin(r, p, work)
    BY <1>3, BeginsShape
  <2> QED  BY <2>1 DEF Begin
<1>4. CASE Succeeds(r)
  <2>1. PICK status \in {"SUCCESS", "NO_DATA"} : \E p : Succeed(r, status, p)
    BY <1>4, SucceedsShape
  <2>2. Passed(row'[r][task[r]].status)
    BY <1>0, <2>1, WriteEffect DEF Succeed, StatusOf, Passed
  <2> QED  BY <2>1, <2>2 DEF Succeed, Advance, StatusOf
<1>5. CASE Fails(r)
  <2>1. PICK p : Fail(r, p)
    BY <1>5, FailsShape
  <2> QED  BY <2>1 DEF Fail
<1>6. CASE LandingReusesPrior(r)
  BY <1>6 DEF LandingReusesPrior, Advance, At, stateVars, StatusOf
<1> QED  BY StepShapes, <1>1, <1>2, <1>3, <1>4, <1>5, <1>6

LEMMA LaunchRun ==
    ASSUME TypeOK, IInv, NEW r \in Runs, Step(r) \/ Fault(r)
    PROVE  LaunchInv'
<1> USE DEF IInv
<1>1. InSlot(r)
  BY StepShapes
<1>2. phase'[r] \notin {"unknown", "queued"}
  BY RunMoves
<1> QED  BY <1>1, <1>2, Frame DEF LaunchInv, InSlot, StatusOf

LEMMA ChainRun ==
    ASSUME TypeOK, IInv, NEW r \in Runs, Step(r) \/ Fault(r)
    PROVE  ChainInv'
<1> USE DEF IInv
<1>1. Taken(r) /\ task[r] \in Task
  BY StepShapes DEF InSlot, Taken, TypeOK
<1>2. ASSUME NEW t \in Task, Place[t] < Place[task'[r]]
      PROVE  Passed(StatusOf(r, t))'
  <2>1. CASE Place[t] < Place[task[r]]
    <3>1. t # task[r]
      BY <2>1, ChainOrder
    <3>2. row'[r][t] = row[r][t]
      BY <3>1, Frame
    <3> QED  BY <1>1, <2>1, <3>2 DEF ChainInv, StatusOf
  <2>2. CASE ~(Place[t] < Place[task[r]])
    <3>1. task'[r] = Successor[task[r]] /\ Passed(row'[r][task[r]].status) /\ task[r] # "monitor"
      BY <1>2, <2>2, RunMoves
    <3>2. Place[task'[r]] = Place[task[r]] + 1
      BY <1>1, <3>1, ChainOrder
    <3>3. t = task[r]
      BY <1>1, <1>2, <2>2, <3>2, ChainOrder
    <3> QED  BY <3>1, <3>3 DEF StatusOf
  <2> QED  BY <2>1, <2>2
<1> QED  BY <1>2, Frame DEF ChainInv, Taken, StatusOf
-----------------------------------------------------------------------------
(***************************************************************************)
(* What the rows of a run carry.                                           *)
(***************************************************************************)
\* A task past the landing writes the plan it received, and RUNNING or SUCCESS
\* only after a successful upstream.
LEMMA WrittenRow ==
    ASSUME TypeOK, IInv, NEW r \in Runs, Step(r) \/ Fault(r), task[r] # Landing
    PROVE  \/ row' = row
           \/ /\ row'[r][task[r]].payload.plan = Received(r).plan
              /\ row'[r][task[r]].status \in {"RUNNING", "SUCCESS"} =>
                     UpstreamRow(r).status = "SUCCESS"
<1> USE DEF IInv
<1>0. task[r] \in Task /\ RowTypeOK
  BY DEF TypeOK
<1>1. CASE Stops(r)
  BY <1>1 DEF Stops
<1>2. CASE WritesPartition(r)
  BY <1>2 DEF WritesPartition, ReplaceClean, ReplaceQuarantine, WriteMart, stateVars
<1>3. CASE Begins(r)
  <2>1. TaskBegins(r)
    BY <1>3 DEF Begins, LandingBegins, At
  <2> QED  BY <1>0, <2>1, WriteEffect DEF TaskBegins, Begin
<1>4. CASE Succeeds(r)
  <2>1. UpstreamRow(r).status = "SUCCESS" \/ PassNoData(r) \/ MonitorPasses(r)
    BY <1>4 DEF Succeeds, LandingEnds, PreflightEnds, BronzeEnds, SilverEnds, GateReplay,
       GatePasses, GoldEnds, ExportEnds, At, BusyInv
  <2>2. CASE PassNoData(r)
    BY <1>0, <2>2, WriteEffect DEF PassNoData, Succeed
  <2>3. CASE MonitorPasses(r)
    BY <1>0, <2>3, WriteEffect DEF MonitorPasses, Succeed, Passed
  <2>4. PICK status, p : Succeed(r, status, p) /\ p.plan = Received(r).plan
    <3>1. CASE SilverEnds(r)
      BY <3>1 DEF SilverEnds
    <3> QED  BY <1>4, <3>1 DEF Succeeds, LandingEnds, At, PassNoData, PreflightEnds,
             BronzeEnds, GateReplay, GatePasses, GoldEnds, ExportEnds, MonitorPasses
  <2>5. row'[r][task[r]].payload.plan = Received(r).plan
    BY <1>0, <2>4, WriteEffect DEF Succeed
  <2> QED  BY <2>1, <2>2, <2>3, <2>5
<1>5. CASE Fails(r)
  <2>1. Fail(r, Received(r))
    BY <1>5 DEF Fails, LandingUnavailable, TaskFails, GateRejects, MonitorFails, At
  <2> QED  BY <1>0, <2>1, WriteEffect DEF Fail
<1>6. CASE LandingReusesPrior(r)
  BY <1>6 DEF LandingReusesPrior, stateVars
<1> QED  BY StepShapes, <1>1, <1>2, <1>3, <1>4, <1>5, <1>6

\* A landing passes only where it ends.
LEMMA LandingWritten ==
    ASSUME TypeOK, IInv, NEW r \in Runs, Step(r) \/ Fault(r),
           ~Passed(StatusOf(r, Landing)), Passed(StatusOf(r, Landing))'
    PROVE  LandingEnds(r) /\ row'[r][Landing].payload.plan = LandedPlan(r)
<1> USE DEF IInv
<1>0. RowTypeOK /\ task[r] \in Task
  BY DEF TypeOK
<1>1. task[r] = Landing
  BY Frame, ChainOrder DEF StatusOf
<1>2. LandingEnds(r)
  <2>1. ~Stops(r) /\ ~WritesPartition(r) /\ ~LandingReusesPrior(r)
    BY DEF Stops, WritesPartition, ReplaceClean, ReplaceQuarantine, WriteMart,
       LandingReusesPrior, stateVars, StatusOf
  <2>2. ~Begins(r)
    <3>1. ASSUME NEW p, NEW work, Begin(r, p, work) PROVE FALSE
      BY <1>0, <1>1, <3>1, WriteEffect DEF Begin, StatusOf, Passed
    <3> QED  BY <3>1, BeginsShape
  <2>3. ~Fails(r)
    <3>1. ASSUME NEW p, Fail(r, p) PROVE FALSE
      BY <1>0, <1>1, <3>1, WriteEffect DEF Fail, StatusOf, Passed
    <3> QED  BY <3>1, FailsShape
  <2> QED  BY <1>1, <2>1, <2>2, <2>3, StepShapes DEF Succeeds, PassNoData, PreflightEnds,
           BronzeEnds, SilverEnds, GateReplay, GatePasses, GoldEnds, ExportEnds,
           MonitorPasses, Chained, At, Landing
<1>3. row'[r][Landing].payload.plan = LandedPlan(r)
  BY <1>0, <1>1, <1>2, WriteEffect DEF LandingEnds, Succeed
<1> QED  BY <1>2, <1>3

\* A plan lands from the gs:// URIs of the request what they contain.
LEMMA PlanAsked ==
    ASSUME NEW r \in Runs, request[r] \in Requests, FromBucket(request[r])
    PROVE  \A m \in Covered(request[r].uris) : LandedPlan(r)[m] = request[r].uris[m]
<1>1. ASSUME NEW m \in Covered(request[r].uris)
      PROVE  LandedPlan(r)[m] = request[r].uris[m]
  <2>1. m \in Months /\ request[r].uris[m] # NoSnapshot
    BY DEF Covered
  <2>2. request[r].uris[m] \in Snapshots
    BY <2>1 DEF FromBucket, Request
  <2>3. request[r].backfill /\ m \in request[r].months
    BY <2>1, RequestAssumption DEF NoPlan, Covered
  <2> QED  BY <2>1, <2>2, <2>3 DEF LandedPlan, Expected, Fetched
<1> QED  BY <1>1

\* A landing that passes was done as the URIs of the request ask, and that of a
\* backfill for all of its months.
LEMMA LandedAsAsked ==
    ASSUME TypeOK, IInv, LandsOnce, NEW r \in Runs, Step(r) \/ Fault(r),
           ~Passed(StatusOf(r, Landing)), Passed(StatusOf(r, Landing))'
    PROVE  /\ SamePlan(r)'
           /\ request[r].backfill => Covered(LandingPlan(r))' = request[r].months
<1> USE DEF IInv
<1>0. request[r] \in Request /\ request' = request
  BY Frame DEF TypeOK
<1>1. LandingEnds(r) /\ LandingPlan(r)' = LandedPlan(r)
  BY LandingWritten DEF LandingPlan
<1>2. request[r] \in Requests /\ FromBucket(request[r])
  BY StepShapes DEF LaunchInv, InSlot, LandsOnce
<1>3. \A m \in Covered(request[r].uris) : LandedPlan(r)[m] = request[r].uris[m]
  BY <1>2, PlanAsked
<1>4. ASSUME request[r].backfill
      PROVE  Covered(LandedPlan(r)) = request[r].months
  <2>1. \A m \in request[r].months : m \in Months /\ Fetched(r, m) # NoSnapshot
    BY <1>0, <1>1, <1>4 DEF LandingEnds, Missing, MayBeMissing, Expected, Request
  <2> QED  BY <1>4, <2>1 DEF LandedPlan, Expected, Covered
<1>5. SamePlan(r)'
  BY <1>0, <1>1, <1>3 DEF SamePlan, LandingPlan
<1> QED  BY <1>1, <1>4, <1>5 DEF Covered

LEMMA PlanRun ==
    ASSUME TypeOK, IInv, LandsOnce, NEW r \in Runs, Step(r) \/ Fault(r)
    PROVE  PlanInv'
<1> USE DEF IInv
<1>0. Taken(r) /\ task[r] \in Task /\ request' = request
  BY StepShapes, Frame DEF InSlot, Taken, TypeOK
<1>1. ASSUME NEW q \in Runs \ {r}
      PROVE  /\ Passed(StatusOf(q, Landing))' => SamePlan(q)'
             /\ \A t \in Task \ {Landing} :
                    /\ StatusOf(q, t)' # "ABSENT" =>
                           /\ Passed(StatusOf(q, Landing))'
                           /\ PlanOf(q, t)' = LandingPlan(q)'
                    /\ StatusOf(q, t)' \in {"RUNNING", "SUCCESS"} =>
                           StatusOf(q, Landing)' = "SUCCESS"
  <2>1. row'[q] = row[q]
    BY Frame
  <2> QED  BY <1>0, <2>1 DEF PlanInv, SamePlan, StatusOf, PlanOf, LandingPlan
<1>2. Passed(StatusOf(r, Landing))' => SamePlan(r)'
  <2>1. CASE Passed(StatusOf(r, Landing))
    BY <1>0, <2>1, LandingStable DEF PlanInv, SamePlan
  <2> QED  BY <2>1, LandedAsAsked
<1>3. ASSUME NEW t \in Task \ {Landing}
      PROVE  /\ StatusOf(r, t)' # "ABSENT" =>
                    /\ Passed(StatusOf(r, Landing))'
                    /\ PlanOf(r, t)' = LandingPlan(r)'
             /\ StatusOf(r, t)' \in {"RUNNING", "SUCCESS"} =>
                    StatusOf(r, Landing)' = "SUCCESS"
  <2>1. CASE row'[r][t] = row[r][t]
    <3>1. CASE StatusOf(r, t) = "ABSENT"
      BY <2>1, <3>1 DEF StatusOf
    <3>2. CASE StatusOf(r, t) # "ABSENT"
      <4>1. row'[r][Landing] = row[r][Landing]
        BY <3>2, LandingStable DEF PlanInv
      <4> QED  BY <2>1, <3>2, <4>1 DEF PlanInv, StatusOf, PlanOf, LandingPlan
    <3> QED  BY <3>1, <3>2
  <2>2. CASE row'[r][t] # row[r][t]
    <3>1. t = task[r] /\ task[r] # Landing
      BY <2>2, Frame
    <3>2. row'[r][Landing] = row[r][Landing]
      BY <3>1, Frame, ChainOrder
    <3> QED  BY <1>0, <2>2, <3>1, <3>2, WrittenRow, ReceivedPlan
             DEF StatusOf, PlanOf, LandingPlan
  <2> QED  BY <2>1, <2>2
<1> QED  BY <1>1, <1>2, <1>3 DEF PlanInv

\* Only the run in the slot is busy; it began with its checks.
LEMMA BusyRun ==
    ASSUME TypeOK, IInv, NEW r \in Runs, Step(r) \/ Fault(r)
    PROVE  BusyInv'
<1> USE DEF IInv
<1>0. Taken(r) /\ task[r] \in Task /\ RowTypeOK /\ active = r
  BY StepShapes DEF InSlot, Taken, TypeOK, SlotInv
<1>1. \A q \in Runs \ {r} : phase'[q] # "busy"
  BY <1>0, Frame DEF SlotInv, InSlot
<1>2. ASSUME phase'[r] = "busy"
      PROVE  /\ row'[r][task'[r]].status = "RUNNING"
             /\ task'[r] # "monitor"
             /\ task'[r] # Landing =>
                    /\ row'[r][Upstream[task'[r]]].status = "SUCCESS"
                    /\ ~Superseded(r, LandingPlan(r))'
  <2>1. WritesPartition(r) \/ Begins(r)
    <3>1. ~Stops(r)
      BY <1>2 DEF Stops, TypeOK
    <3>2. ~Fails(r)
      BY <1>2, FailsShape DEF Fail, TypeOK
    <3>3. ~Succeeds(r)
      BY <1>2, SucceedsShape DEF Succeed, Advance, TypeOK
    <3>4. ~LandingReusesPrior(r)
      BY <1>2 DEF LandingReusesPrior, Advance, TypeOK
    <3> QED  BY <3>1, <3>2, <3>3, <3>4, StepShapes
  <2>2. CASE WritesPartition(r)
    <3>1. row' = row /\ task' = task /\ phase' = phase
      BY <2>2 DEF WritesPartition, ReplaceClean, ReplaceQuarantine, WriteMart, stateVars
    <3> QED  BY <1>2, <3>1 DEF BusyInv, StatusOf, UpstreamRow, Superseded, LandingPlan
  <2>3. CASE LandingBegins(r)
    BY <1>0, <2>3, WriteEffect DEF LandingBegins, Begin, At, Landing
  <2>4. CASE TaskBegins(r)
    <3>1. task' = task /\ task[r] \notin {Landing, "monitor"}
      BY <2>4 DEF TaskBegins, Begin, Chained, Landing
    <3>2. row'[r][task[r]].status = "RUNNING"
      BY <1>0, <2>4, WriteEffect DEF TaskBegins, Begin
    <3>3. row'[r][Upstream[task[r]]] = row[r][Upstream[task[r]]]
      BY <1>0, <3>1, Frame, ChainOrder
    <3>4. row'[r][Landing] = row[r][Landing]
      BY <3>1, Frame, ChainOrder
    <3>5. ~Superseded(r, LandingPlan(r))
      BY <1>0, <2>4, <3>1, ReceivedPlan DEF TaskBegins
    <3>6. ~Superseded(r, LandingPlan(r))'
      BY <3>4, <3>5, Frame DEF Superseded, LandingPlan, Landing
    <3> QED  BY <2>4, <3>1, <3>2, <3>3, <3>6 DEF TaskBegins, UpstreamRow
  <2> QED  BY <2>1, <2>2, <2>3, <2>4 DEF Begins
<1> QED  BY <1>1, <1>2 DEF BusyInv, StatusOf, UpstreamRow

LEMMA TodoRun ==
    ASSUME TypeOK, IInv, NEW r \in Runs, Step(r) \/ Fault(r)
    PROVE  TodoInv'
<1> USE DEF IInv
<1>0. InSlot(r) /\ Taken(r) /\ task[r] \in Task /\ active = r
  BY StepShapes DEF InSlot, Taken, TypeOK, SlotInv
<1>1. CASE Stops(r)
  BY <1>1 DEF Stops, TodoInv
<1>2. CASE WritesPartition(r)
  <2>1. todo' \subseteq todo /\ row' = row /\ phase' = phase /\ active' = active
    BY <1>2 DEF WritesPartition, ReplaceClean, ReplaceQuarantine, WriteMart, stateVars
  <2> QED  BY <2>1 DEF TodoInv, LandingPlan
<1>3. CASE LandingBegins(r)
  BY <1>3 DEF LandingBegins, Begin, TodoInv
<1>4. CASE TaskBegins(r)
  <2>1. todo' = Work(r) /\ active' = active /\ phase'[r] = "busy" /\ task[r] # Landing
    BY <1>4 DEF TaskBegins, Begin, TypeOK, Chained, Landing
  <2>2. row'[r][Landing] = row[r][Landing]
    BY <2>1, Frame, ChainOrder
  <2>3. Received(r).plan = LandingPlan(r)
    BY <1>0, <2>1, ReceivedPlan
  <2> QED  BY <1>0, <2>1, <2>2, <2>3 DEF TodoInv, Work, LandingPlan
<1>5. CASE Succeeds(r)
  BY <1>5, SucceedsShape DEF Succeed, TodoInv
<1>6. CASE Fails(r)
  BY <1>6, FailsShape DEF Fail, TodoInv
<1>7. CASE LandingReusesPrior(r)
  <2>1. phase[r] # "busy"
    BY <1>7 DEF LandingReusesPrior, At
  <2>2. todo = {}
    BY <1>0, <2>1 DEF TodoInv
  <2> QED  BY <1>7, <2>2 DEF LandingReusesPrior, TodoInv
<1> QED  BY StepShapes, <1>1, <1>2, <1>3, <1>4, <1>5, <1>6, <1>7 DEF Begins

\* The gate's verdict is made on the metrics of the run's own Silver task.
LEMMA GateRun ==
    ASSUME TypeOK, IInv, NEW r \in Runs, Step(r) \/ Fault(r)
    PROVE  GateInv'
<1> USE DEF IInv
<1>0. Taken(r) /\ task[r] \in Task /\ RowTypeOK
  BY StepShapes DEF InSlot, Taken, TypeOK
<1>1. ASSUME Place["dq_gate"] < Place[task'[r]], row'[r]["dq_gate"].status = "SUCCESS"
      PROVE  /\ row'[r]["transform_silver"].status = "SUCCESS"
             /\ row'[r]["transform_silver"].payload.empty = {}
             /\ \A m \in Covered(LandingPlan(r))' : LandingPlan(r)'[m] \in Good
  <2>0. /\ "dq_gate" \in Task /\ "transform_silver" \in Task
        /\ Upstream["dq_gate"] = "transform_silver"
    BY DEF Task, Upstream
  <2>1. CASE Place["dq_gate"] < Place[task[r]]
    <3>1. task[r] \notin {"dq_gate", "transform_silver", Landing}
      BY <2>1 DEF Place, Landing
    <3>2. /\ row'[r]["dq_gate"] = row[r]["dq_gate"]
          /\ row'[r]["transform_silver"] = row[r]["transform_silver"]
          /\ row'[r][Landing] = row[r][Landing]
      BY <2>0, <3>1, Frame, ChainOrder
    <3> QED  BY <1>0, <1>1, <2>1, <3>2 DEF GateInv, StatusOf, EmptyOf, LandingPlan, Covered
  <2>2. CASE ~(Place["dq_gate"] < Place[task[r]])
    <3>1. task'[r] = Successor[task[r]] /\ task[r] # "monitor"
      BY <1>1, <2>2, RunMoves
    <3>2. task[r] = "dq_gate"
      <4>1. Place[task'[r]] = Place[task[r]] + 1
        BY <1>0, <3>1, ChainOrder
      <4>2. Place[task[r]] = Place["dq_gate"]
        BY <1>0, <1>1, <2>0, <2>2, <4>1, ChainOrder
      <4> QED  BY <1>0, <2>0, <4>2, ChainOrder
    <3>3. task'[r] # task[r]
      BY <1>0, <3>1, <3>2, ChainOrder DEF Successor
    <3>4. Succeeds(r)
      BY <3>2, <3>3, StepShapes, BeginsShape, FailsShape DEF Stops, WritesPartition,
         ReplaceClean, ReplaceQuarantine, WriteMart, Begin, Fail, LandingReusesPrior,
         At, Landing
    <3>5. GatePasses(r)
      <4>1. ~PassNoData(r)
        BY <1>0, <1>1, <3>2, WriteEffect DEF PassNoData, Succeed
      <4>2. ~GateReplay(r)
        BY <1>0, <1>1, <3>2, WriteEffect DEF GateReplay, Succeed
      <4> QED  BY <3>2, <3>4, <4>1, <4>2 DEF Succeeds, LandingEnds, PreflightEnds,
               BronzeEnds, SilverEnds, GoldEnds, ExportEnds, MonitorPasses, At, Landing
    <3>6. UpstreamRow(r).status = "SUCCESS" /\ UpstreamRow(r) = row[r]["transform_silver"]
      BY <2>0, <3>2, <3>5 DEF GatePasses, At, BusyInv, UpstreamRow, Landing
    <3>7. /\ row'[r]["transform_silver"] = row[r]["transform_silver"]
          /\ row'[r][Landing] = row[r][Landing]
      BY <2>0, <3>2, Frame, ChainOrder DEF Landing
    <3>8. Received(r).plan = LandingPlan(r)
      BY <1>0, <3>2, ReceivedPlan DEF Landing
    <3> QED  BY <3>5, <3>6, <3>7, <3>8 DEF GatePasses, QualityOK, Received, LandingPlan,
             Covered
  <2> QED  BY <2>1, <2>2
<1> QED  BY <1>1, Frame DEF GateInv, Taken, StatusOf, EmptyOf, LandingPlan, Covered
-----------------------------------------------------------------------------
(***************************************************************************)
(* Silver and Gold.                                                        *)
(***************************************************************************)
\* Only ReplaceClean writes trips_clean and only WriteMart writes a mart.
LEMMA LakeFrame ==
    ASSUME NEW r \in Runs, Step(r) \/ Fault(r)
    PROVE  /\ clean' = clean \/ \E m \in Months : ReplaceClean(r, m)
           /\ gold' = gold \/ \E mart \in Marts, m \in Months : WriteMart(r, mart, m)
<1>1. CASE \E m \in Months : ReplaceClean(r, m) \/ ReplaceQuarantine(r, m)
  BY <1>1 DEF ReplaceClean, ReplaceQuarantine
<1>2. CASE \E mart \in Marts, m \in Months : WriteMart(r, mart, m)
  BY <1>2 DEF WriteMart, silverVars
<1>3. CASE ~(\E m \in Months : ReplaceClean(r, m) \/ ReplaceQuarantine(r, m))
           /\ ~(\E mart \in Marts, m \in Months : WriteMart(r, mart, m))
  BY <1>3 DEF Step, Fault, LandingReusesPrior, LandingBegins, LandingEnds,
     LandingUnavailable, PassNoData, RefuseSuperseded, TaskBegins, PreflightEnds,
     BronzeEnds, SilverEnds, GateReplay, GatePasses, GateRejects, GoldEnds,
     ExportEnds, MonitorPasses, MonitorFails, TaskFails, Crash, Begin, Fail,
     lakeVars, silverVars
<1> QED  BY <1>1, <1>2, <1>3

\* Whoever writes a month is the run with its newest landed plan: any other
\* run with a landed plan for that month is superseded.
LEMMA WriterIsNewest ==
    ASSUME TypeOK, IInv, NEW r \in Runs, NEW m \in Months, NEW u,
           <<u, m>> \in todo, active = r, task[r] # Landing,
           NEW q \in Runs \ {r}, StatusOf(q, Landing) = "SUCCESS",
           m \in Covered(LandingPlan(q))
    PROVE  Superseded(q, LandingPlan(q))
<1> USE DEF IInv
<1>1. phase[r] = "busy" /\ m \in Covered(LandingPlan(r))
  BY DEF TodoInv
<1>2. ~Superseded(r, LandingPlan(r)) /\ UpstreamRow(r).status = "SUCCESS"
  BY <1>1 DEF BusyInv
<1>3. StatusOf(r, Landing) = "SUCCESS"
  BY <1>1, <1>2, ReceivedPlan DEF Taken
<1>4. ~(row[q][Landing].at > row[r][Landing].at)
  BY <1>1, <1>2 DEF Superseded, LandingPlan, StatusOf, Landing
<1>5. /\ row[q][Landing].at # row[r][Landing].at
      /\ row[q][Landing].at \in Nat /\ row[r][Landing].at \in Nat
  BY <1>3 DEF StampInv, Passed, TypeOK, RowTypeOK
<1> QED  BY <1>1, <1>3, <1>4, <1>5 DEF Superseded, LandingPlan, StatusOf, Landing

LEMMA SilverRun ==
    ASSUME TypeOK, IInv, NEW r \in Runs, Step(r) \/ Fault(r)
    PROVE  SilverInv'
<1> USE DEF IInv
<1>0. task[r] \in Task /\ RowTypeOK /\ active = r /\ clean \in Plan
  BY StepShapes DEF TypeOK, SlotInv
<1>t. "transform_silver" \in Task \ {Landing}
  BY DEF Task, Landing
<1>1. ASSUME NEW q \in Runs, ~Superseded(q, LandingPlan(q))',
             row'[q]["transform_silver"] = row[q]["transform_silver"],
             StatusOf(q, "transform_silver") = "SUCCESS"
      PROVE  \A m \in Covered(LandingPlan(q))' :
                 clean'[m] = IF m \in EmptyOf(q, "transform_silver")' THEN NoSnapshot
                             ELSE LandingPlan(q)'[m]
  <2>1. StatusOf(q, Landing) = "SUCCESS" /\ Passed(StatusOf(q, Landing))
    BY <1>1, <1>t DEF PlanInv, Passed
  <2>2. row'[q][Landing] = row[q][Landing]
    BY <2>1, LandingStable
  <2>3. ~Superseded(q, LandingPlan(q))
    BY <1>1, <2>1, LandingStable, SupersededStays
  <2>4. \A m \in Covered(LandingPlan(q)) :
            clean[m] = IF m \in EmptyOf(q, "transform_silver") THEN NoSnapshot
                       ELSE LandingPlan(q)[m]
    BY <1>1, <2>3 DEF SilverInv
  <2>5. ASSUME NEW m \in Covered(LandingPlan(q)), clean'[m] # clean[m]
        PROVE  FALSE
    <3>1. PICK n \in Months : ReplaceClean(r, n)
      BY <2>5, LakeFrame
    <3>2. m \in Months /\ n = m
      BY <1>0, <2>5, <3>1 DEF ReplaceClean, Covered, Plan
    <3>3. task[r] = "transform_silver" /\ phase[r] = "busy" /\ <<"clean", m>> \in todo
      BY <3>1, <3>2 DEF ReplaceClean, At
    <3>4. q # r
      BY <1>1, <3>3 DEF BusyInv, StatusOf
    <3> QED  BY <1>0, <1>t, <2>1, <2>3, <2>5, <3>2, <3>3, <3>4, WriterIsNewest
  <2> QED  BY <1>1, <2>2, <2>4, <2>5 DEF LandingPlan, EmptyOf, Covered
<1>2. ASSUME row'[r]["transform_silver"] # row[r]["transform_silver"],
             row'[r]["transform_silver"].status = "SUCCESS"
      PROVE  \A m \in Covered(LandingPlan(r))' :
                 clean'[m] = IF m \in EmptyOf(r, "transform_silver")' THEN NoSnapshot
                             ELSE LandingPlan(r)'[m]
  <2>1. task[r] = "transform_silver" /\ task[r] # Landing
    BY <1>2, <1>t, Frame
  <2>2. row'[r][Landing] = row[r][Landing]
    BY <2>1, Frame, ChainOrder
  <2>3. SilverEnds(r)
    <3>1. ~Stops(r) /\ ~WritesPartition(r) /\ ~LandingReusesPrior(r)
      BY <1>2 DEF Stops, WritesPartition, ReplaceClean, ReplaceQuarantine, WriteMart,
         LandingReusesPrior, stateVars
    <3>2. ~Begins(r)
      <4>1. ASSUME NEW p, NEW work, Begin(r, p, work) PROVE FALSE
        BY <1>0, <1>2, <2>1, <4>1, WriteEffect DEF Begin
      <4> QED  BY <4>1, BeginsShape
    <3>3. ~Fails(r)
      <4>1. ASSUME NEW p, Fail(r, p) PROVE FALSE
        BY <1>0, <1>2, <2>1, <4>1, WriteEffect DEF Fail
      <4> QED  BY <4>1, FailsShape
    <3>4. ~PassNoData(r)
      BY <1>0, <1>2, <2>1, WriteEffect DEF PassNoData, Succeed
    <3> QED  BY <2>1, <3>1, <3>2, <3>3, <3>4, StepShapes DEF Succeeds, LandingEnds,
             PreflightEnds, BronzeEnds, GateReplay, GatePasses, GoldEnds, ExportEnds,
             MonitorPasses, At, Landing
  <2>4. InSlot(r) /\ Received(r).plan = LandingPlan(r)
    BY <2>1, StepShapes, ReceivedPlan DEF InSlot, Taken
  <2>5. /\ \A m \in Covered(LandingPlan(r)) : clean[m] = BronzeBatch(r, m)
        /\ row'[r]["transform_silver"].payload.empty =
               {m \in Covered(LandingPlan(r)) : BronzeBatch(r, m) = NoSnapshot}
        /\ clean' = clean
    BY <1>0, <2>1, <2>3, <2>4, WriteEffect DEF SilverEnds, Succeed, lakeVars
  <2>6. \A m \in Covered(LandingPlan(r)) :
            BronzeBatch(r, m) \in {LandingPlan(r)[m], NoSnapshot}
    BY <2>4 DEF BronzeBatch
  <2> QED  BY <2>2, <2>5, <2>6 DEF LandingPlan, EmptyOf, Covered
<1>3. \A q \in Runs \ {r} : row'[q] = row[q]
  BY Frame
<1>4. ASSUME NEW q \in Runs, StatusOf(q, "transform_silver")' = "SUCCESS",
             ~Superseded(q, LandingPlan(q))'
      PROVE  \A m \in Covered(LandingPlan(q))' :
                 clean'[m] = IF m \in EmptyOf(q, "transform_silver")' THEN NoSnapshot
                             ELSE LandingPlan(q)'[m]
  <2>1. CASE row'[q]["transform_silver"] = row[q]["transform_silver"]
    BY <1>1, <1>4, <2>1 DEF StatusOf
  <2>2. CASE row'[q]["transform_silver"] # row[q]["transform_silver"]
    BY <1>2, <1>3, <1>4, <2>2 DEF StatusOf
  <2> QED  BY <2>1, <2>2
<1> QED  BY <1>4 DEF SilverInv

\* What a mart is computed from: the newest landed plan, which the gate passed.
LEMMA MartSource ==
    ASSUME TypeOK, IInv, NEW r \in Runs, NEW mart \in Marts, NEW m \in Months,
           WriteMart(r, mart, m)
    PROVE  /\ StatusOf(r, Landing) = "SUCCESS"
           /\ ~Superseded(r, LandingPlan(r))
           /\ m \in Covered(LandingPlan(r))
           /\ clean[m] = LandingPlan(r)[m]
           /\ LandingPlan(r)[m] \in Good
<1> USE DEF IInv
<1>1. task[r] = "aggregate_gold" /\ phase[r] = "busy" /\ <<mart, m>> \in todo
  BY DEF WriteMart, At
<1>2. active = r
  BY <1>1 DEF SlotInv, InSlot
<1>3. m \in Covered(LandingPlan(r))
  BY <1>1, <1>2 DEF TodoInv
<1>4. /\ ~Superseded(r, LandingPlan(r))
      /\ StatusOf(r, "dq_gate") = "SUCCESS"
  BY <1>1 DEF BusyInv, UpstreamRow, Upstream, StatusOf, Landing
<1>5. /\ StatusOf(r, "transform_silver") = "SUCCESS"
      /\ EmptyOf(r, "transform_silver") = {}
      /\ LandingPlan(r)[m] \in Good
  BY <1>1, <1>3, <1>4 DEF GateInv, Taken, Place
<1>6. StatusOf(r, Landing) = "SUCCESS"
  BY <1>5 DEF PlanInv, Task, Landing
<1> QED  BY <1>3, <1>4, <1>5, <1>6 DEF SilverInv

LEMMA GoldRun ==
    ASSUME TypeOK, IInv, NEW r \in Runs, Step(r) \/ Fault(r)
    PROVE  GoldOnlyChecked'
<1> USE DEF IInv
<1>1. CASE gold' = gold
  BY <1>1 DEF GoldOnlyChecked
<1>2. ASSUME NEW mart \in Marts, NEW m \in Months, WriteMart(r, mart, m)
      PROVE  GoldOnlyChecked'
  <2>1. gold' = [gold EXCEPT ![mart][m] = clean[m]] /\ gold \in [Marts -> Plan]
    BY <1>2 DEF WriteMart, TypeOK
  <2> QED  BY <1>2, <2>1, MartSource DEF GoldOnlyChecked, Plan
<1> QED  BY <1>1, <1>2, LakeFrame
-----------------------------------------------------------------------------
(***************************************************************************)
(* The job queue and the environment.                                      *)
(***************************************************************************)
\* Without a step of a run the rows and the tables stay, and repairs keep
\* their URIs.
Quiet ==
    \/ \E r \in Runs, q \in Requests : Submit(r, q)
    \/ \E r \in Runs : Start(r)
    \/ \E r \in Runs, t \in Task : Resume(r, t)
    \/ \E m \in Months, s \in Served : ChangeSource(m, s)
    \/ UNCHANGED vars

LEMMA QuietFrame ==
    ASSUME Quiet
    PROVE  UNCHANGED <<row, clock, todo, clean, gold>>
BY DEF Quiet, Submit, Start, Resume, ChangeSource, stateVars, queueVars, lakeVars, vars

LEMMA QuietStep ==
    ASSUME TypeOK, IInv, LandsOnce, Quiet
    PROVE  IInv'
<1> USE DEF IInv, StatusOf, PlanOf, EmptyOf, LandingPlan, InSlot, Taken
<1>0. row' = row /\ clock' = clock /\ todo' = todo /\ clean' = clean /\ gold' = gold
  BY QuietFrame
<1>1. StampInv' /\ SilverInv' /\ GoldOnlyChecked'
  BY <1>0 DEF StampInv, SilverInv, GoldOnlyChecked, Superseded
<1>2. ASSUME NEW r \in Runs, NEW q \in Requests, Submit(r, q)
      PROVE  SlotInv' /\ LaunchInv' /\ ChainInv' /\ PlanInv' /\ BusyInv' /\ TodoInv' /\ GateInv'
  <2>1. /\ phase[r] = "unknown" /\ phase' = [phase EXCEPT ![r] = "queued"]
        /\ request' = [request EXCEPT ![r] = q] /\ task' = task /\ active' = active
    BY <1>2 DEF Submit
  <2>2. \A t \in Task : row[r][t].status = "ABSENT"
    BY <2>1 DEF LaunchInv
  <2>3. SlotInv' /\ LaunchInv' /\ ChainInv' /\ TodoInv' /\ GateInv'
    BY <1>0, <2>1 DEF SlotInv, LaunchInv, ChainInv, TodoInv, GateInv, TypeOK
  <2>4. PlanInv'
    BY <1>0, <2>1, <2>2 DEF PlanInv, SamePlan, TypeOK, Passed, Landing, Task
  <2>5. BusyInv'
    BY <1>0, <2>1 DEF BusyInv, UpstreamRow, Superseded, TypeOK
  <2> QED  BY <2>3, <2>4, <2>5
<1>3. ASSUME NEW r \in Runs, Start(r)
      PROVE  SlotInv' /\ LaunchInv' /\ ChainInv' /\ PlanInv' /\ BusyInv' /\ TodoInv' /\ GateInv'
  <2>1. /\ phase[r] = "queued" /\ phase' = [phase EXCEPT ![r] = "ready"]
        /\ request' = request /\ task' = task /\ active = NoRun /\ active' = r
    BY <1>3 DEF Start
  <2>2. task[r] = Landing
    BY <2>1 DEF LaunchInv
  <2>3. SlotInv' /\ LaunchInv' /\ TodoInv'
    BY <1>0, <2>1 DEF SlotInv, LaunchInv, TodoInv, TypeOK
  <2>4. ChainInv' /\ GateInv'
    BY <1>0, <2>1, <2>2, ChainOrder DEF ChainInv, GateInv, TypeOK, Place, Landing, Task
  <2>5. PlanInv'
    BY <1>0, <2>1 DEF PlanInv, SamePlan
  <2>6. BusyInv'
    BY <1>0, <2>1 DEF BusyInv, UpstreamRow, Superseded, TypeOK
  <2> QED  BY <2>3, <2>4, <2>5, <2>6
<1>4. ASSUME NEW r \in Runs, NEW t \in Task, Resume(r, t)
      PROVE  SlotInv' /\ LaunchInv' /\ ChainInv' /\ PlanInv' /\ BusyInv' /\ TodoInv' /\ GateInv'
  <2>1. /\ phase[r] = "failed" /\ phase' = [phase EXCEPT ![r] = "ready"]
        /\ task' = [task EXCEPT ![r] = t] /\ Place[t] <= Place[task[r]]
        /\ request' = request /\ active = NoRun /\ active' = r
    BY <1>4 DEF Resume, Corrected, LandsOnce, TypeOK
  <2>2. SlotInv' /\ LaunchInv' /\ TodoInv'
    BY <1>0, <2>1 DEF SlotInv, LaunchInv, TodoInv, TypeOK
  <2>3. ChainInv' /\ GateInv'
    <3>1. \A u \in Task : Place[u] \in Int
      BY ChainOrder
    <3>2. "dq_gate" \in Task /\ task[r] \in Task
      BY DEF Task, TypeOK
    <3> QED  BY <1>0, <2>1, <3>1, <3>2 DEF ChainInv, GateInv, TypeOK
  <2>4. PlanInv'
    BY <1>0, <2>1 DEF PlanInv, SamePlan
  <2>5. BusyInv'
    BY <1>0, <2>1 DEF BusyInv, UpstreamRow, Superseded, TypeOK
  <2> QED  BY <2>2, <2>3, <2>4, <2>5
<1>5. CASE UNCHANGED <<phase, task, request, active>>
  <2>1. SlotInv' /\ LaunchInv' /\ ChainInv' /\ TodoInv' /\ GateInv'
    BY <1>0, <1>5 DEF SlotInv, LaunchInv, ChainInv, TodoInv, GateInv
  <2>2. PlanInv'
    BY <1>0, <1>5 DEF PlanInv, SamePlan
  <2>3. BusyInv'
    BY <1>0, <1>5 DEF BusyInv, UpstreamRow, Superseded
  <2> QED  BY <1>1, <2>1, <2>2, <2>3
<1>6. ASSUME NEW m \in Months, NEW s \in Served, ChangeSource(m, s)
      PROVE  UNCHANGED <<phase, task, request, active>>
  BY <1>6 DEF ChangeSource, queueVars
<1>7. CASE UNCHANGED vars
  BY <1>5, <1>7 DEF vars
<1> QED  BY <1>1, <1>2, <1>3, <1>4, <1>5, <1>6, <1>7 DEF Quiet
-----------------------------------------------------------------------------
(***************************************************************************)
(* The theorems.                                                           *)
(***************************************************************************)
LEMMA InvInit ==
    ASSUME Init
    PROVE  IInv
<1> USE DEF Init, RowInit, AbsentRow, StatusOf, InSlot, Taken
<1>1. SlotInv /\ BusyInv /\ TodoInv
  BY DEF SlotInv, BusyInv, TodoInv
<1>2. LaunchInv /\ ChainInv /\ GateInv
  BY DEF LaunchInv, ChainInv, GateInv, Landing, Task
<1>3. PlanInv /\ StampInv /\ SilverInv
  BY DEF PlanInv, StampInv, SilverInv, Passed, Task, Landing
<1>4. GoldOnlyChecked
  BY DEF GoldOnlyChecked, NoPlan
<1> QED  BY <1>1, <1>2, <1>3, <1>4 DEF IInv

LEMMA InvStep ==
    ASSUME TypeOK, IInv, LandsOnce, [Next]_vars
    PROVE  IInv'
<1>1. ASSUME NEW r \in Runs, Step(r) \/ Fault(r)
      PROVE  IInv'
  <2>1. SlotInv'
    BY <1>1, SlotRun DEF IInv
  <2> QED  BY <1>1, <2>1, LaunchRun, ChainRun, PlanRun, StampRun, BusyRun, TodoRun,
           GateRun, SilverRun, GoldRun DEF IInv
<1>2. Quiet \/ \E r \in Runs : Step(r) \/ Fault(r)
  BY DEF Next, Quiet
<1> QED  BY <1>1, <1>2, QuietStep

\* The invariant holds in every run history in which no run lands twice,
\* however many runs, months, snapshots and marts there are.
THEOREM InvCorrect ==
    ASSUME LandsOnce
    PROVE  Spec => []IInv
<1>1. Init => IInv
  BY InvInit
<1>2. TypeOK /\ IInv /\ [Next]_vars => IInv'
  BY InvStep
<1>3. Spec => []TypeOK
  BY TypeCorrect
<1> QED  BY <1>1, <1>2, <1>3, PTL DEF Spec

\* Gold never holds a snapshot the DQ gate rejects, although aggregate_gold
\* reads the Silver tables all runs share.
THEOREM GoldChecked ==
    ASSUME LandsOnce
    PROVE  Spec => []GoldOnlyChecked
<1>1. IInv => GoldOnlyChecked
  BY DEF IInv
<1> QED  BY <1>1, InvCorrect, PTL

\* A task never finds its upstream row missing, running or failed.
THEOREM ChainCorrect ==
    ASSUME LandsOnce
    PROVE  Spec => []ChainReady
<1>1. TypeOK /\ IInv => ChainReady
  <2>1. ASSUME TypeOK, IInv, NEW r \in Runs, phase[r] \in {"ready", "busy"}, task[r] # Landing
        PROVE  Passed(UpstreamRow(r).status)
    <3>1. task[r] \in Task \ {Landing}
      BY <2>1 DEF TypeOK
    <3>2. Upstream[task[r]] \in Task /\ Place[Upstream[task[r]]] < Place[task[r]]
      BY <3>1, ChainOrder
    <3> QED  BY <2>1, <3>2 DEF IInv, ChainInv, Taken, StatusOf, UpstreamRow
  <2> QED  BY <2>1 DEF ChainReady
<1> QED  BY <1>1, InvCorrect, TypeCorrect, PTL

\* A superseded run that holds the slot again changes nothing in Silver or Gold.
THEOREM SupersededSilent ==
    ASSUME LandsOnce
    PROVE  Spec => SupersededNeverWrites
<1>1. TypeOK /\ IInv /\ [Next]_vars =>
          [\A r \in Runs : active = r /\ Superseded(r, LandingPlan(r)) =>
               UNCHANGED <<clean, quarantine, gold>>]_vars
  <2> SUFFICES ASSUME TypeOK, IInv, [Next]_vars,
                      NEW r \in Runs, active = r, Superseded(r, LandingPlan(r))
               PROVE  UNCHANGED <<clean, quarantine, gold>>
    OBVIOUS
  <2> USE DEF IInv
  <2>1. CASE Quiet
    BY <2>1 DEF Quiet, Submit, Start, Resume, ChangeSource, lakeVars, vars
  <2>2. ASSUME NEW q \in Runs, Step(q) \/ Fault(q)
        PROVE  UNCHANGED <<clean, quarantine, gold>>
    <3>1. q = r
      BY <2>2, StepShapes DEF SlotInv
    <3>2. ~WritesPartition(r)
      BY DEF WritesPartition, BusyInv, ReplaceClean, ReplaceQuarantine, WriteMart, At,
         Landing
    <3> QED  BY <2>2, <3>1, <3>2, StepShapes DEF Stops, Begins, Succeeds, Fails,
             LandingReusesPrior, LandingBegins, LandingEnds, LandingUnavailable,
             PassNoData, TaskBegins, PreflightEnds, BronzeEnds, SilverEnds, GateReplay,
             GatePasses, GateRejects, GoldEnds, ExportEnds, MonitorPasses, MonitorFails,
             TaskFails, Begin, Fail, lakeVars, silverVars
  <2>3. Quiet \/ \E q \in Runs : Step(q) \/ Fault(q)
    BY DEF Next, Quiet
  <2> QED  BY <2>1, <2>2, <2>3
<1> QED  BY <1>1, InvCorrect, TypeCorrect, PTL DEF Spec, SupersededNeverWrites

-----------------------------------------------------------------------------
(***************************************************************************)
(* A run from gs:// URIs lands once, whatever other runs do: this needs no *)
(* more than that repairs keep their source URIs.                          *)
(***************************************************************************)
\* What it takes: a landing under way is marked RUNNING, and a passed one of a
\* run from gs:// URIs is what they ask for.
LandedInv ==
    \A r \in Runs :
        /\ phase[r] \in {"unknown", "queued"} => StatusOf(r, Landing) = "ABSENT"
        /\ phase[r] # "unknown" => request[r] \in Requests
        /\ At(r, Landing, "busy") => StatusOf(r, Landing) = "RUNNING"
        /\ FromBucket(request[r]) /\ Passed(StatusOf(r, Landing)) => SamePlan(r)

\* What a step of r can do to its landing row, in the order of a landing.
KeepsLanding(r) ==
    /\ row'[r][Landing] = row[r][Landing]
    /\ At(r, Landing, "busy")' => At(r, Landing, "busy")

BeginsLanding(r) == LandingBegins(r) /\ row'[r][Landing].status = "RUNNING"

EndsLanding(r) ==
    /\ LandingEnds(r)
    /\ phase'[r] # "busy"
    /\ LandingPlan(r)' = LandedPlan(r)

FailsLanding(r) ==
    /\ At(r, Landing, "busy")
    /\ phase'[r] # "busy"
    /\ row'[r][Landing].status = "FAILED"

\* Every step that is not one of a landing leaves the row alone.
LEMMA LandingMoves ==
    ASSUME TypeOK, NEW r \in Runs, Step(r) \/ Fault(r)
    PROVE  /\ phase[r] # "unknown" /\ phase'[r] \notin {"unknown", "queued"}
           /\ request' = request
           /\ \A q \in Runs \ {r} : /\ phase'[q] = phase[q]
                                   /\ task'[q] = task[q]
                                   /\ row'[q] = row[q]
           /\ KeepsLanding(r) \/ BeginsLanding(r) \/ EndsLanding(r) \/ FailsLanding(r)
<1> USE DEF TypeOK
<1>0. task[r] \in Task /\ RowTypeOK /\ Landing \in Task
  BY ChainOrder
<1>1. CASE RefuseSuperseded(r) \/ Crash(r)
  BY <1>1 DEF RefuseSuperseded, Crash, KeepsLanding, At, stateVars
<1>2. CASE LandingReusesPrior(r)
  BY <1>2 DEF LandingReusesPrior, Advance, KeepsLanding, At, stateVars
<1>3. CASE WritesPartition(r)
  BY <1>3 DEF WritesPartition, ReplaceClean, ReplaceQuarantine, WriteMart, KeepsLanding,
     At, stateVars
<1>4. CASE Begins(r)
  <2>1. PICK p, work : Begin(r, p, work)
    BY <1>4, BeginsShape
  <2>2. /\ phase'[r] = "busy" /\ phase[r] = "ready" /\ task' = task /\ request' = request
        /\ \A q \in Runs \ {r} : phase'[q] = phase[q] /\ row'[q] = row[q]
        /\ \A u \in Task \ {task[r]} : row'[r][u] = row[r][u]
        /\ row'[r][task[r]].status = "RUNNING"
    BY <1>0, <1>4, <2>1, WriteEffect DEF Begin, Begins, LandingBegins, TaskBegins, At
  <2>3. CASE LandingBegins(r)
    BY <2>2, <2>3 DEF LandingBegins, BeginsLanding, At
  <2>4. CASE TaskBegins(r)
    BY <1>0, <2>2, <2>4 DEF TaskBegins, Chained, KeepsLanding, At, Landing
  <2> QED  BY <1>4, <2>2, <2>3, <2>4 DEF Begins
<1>5. CASE Succeeds(r)
  <2>1. PICK status \in {"SUCCESS", "NO_DATA"} : \E p : Succeed(r, status, p)
    BY <1>5, SucceedsShape
  <2>2. /\ phase'[r] \in {"ready", "done"} /\ request' = request
        /\ \A q \in Runs \ {r} : /\ phase'[q] = phase[q]
                                /\ task'[q] = task[q]
                                /\ row'[q] = row[q]
        /\ \A u \in Task \ {task[r]} : row'[r][u] = row[r][u]
    BY <1>0, <2>1, WriteEffect DEF Succeed, Advance
  <2>3. phase[r] # "unknown"
    BY <1>5 DEF Succeeds, LandingEnds, PassNoData, PreflightEnds, BronzeEnds, SilverEnds,
       GateReplay, GatePasses, GoldEnds, ExportEnds, MonitorPasses, At
  <2>4. CASE LandingEnds(r)
    <3>1. LandingPlan(r)' = LandedPlan(r)
      BY <1>0, <2>4, WriteEffect DEF LandingEnds, Succeed, At, LandingPlan
    <3> QED  BY <2>2, <2>3, <2>4, <3>1 DEF EndsLanding
  <2>5. CASE ~LandingEnds(r)
    <3>1. task[r] # Landing
      BY <1>5, <2>5 DEF Succeeds, PassNoData, PreflightEnds, BronzeEnds, SilverEnds,
         GateReplay, GatePasses, GoldEnds, ExportEnds, MonitorPasses, Chained, At, Landing
    <3> QED  BY <1>0, <2>2, <2>3, <3>1 DEF KeepsLanding, At
  <2> QED  BY <2>4, <2>5
<1>6. CASE Fails(r)
  <2>1. PICK p : Fail(r, p)
    BY <1>6, FailsShape
  <2>2. /\ phase'[r] = "failed" /\ task' = task /\ request' = request
        /\ \A q \in Runs \ {r} : phase'[q] = phase[q] /\ row'[q] = row[q]
        /\ \A u \in Task \ {task[r]} : row'[r][u] = row[r][u]
        /\ row'[r][task[r]].status = "FAILED"
    BY <1>0, <2>1, WriteEffect DEF Fail
  <2>3. phase[r] \in {"ready", "busy"} /\ (task[r] = Landing => phase[r] = "busy")
    BY <1>6 DEF Fails, LandingUnavailable, TaskFails, GateRejects, MonitorFails, At, Landing
  <2>4. CASE task[r] = Landing
    BY <2>2, <2>3, <2>4 DEF FailsLanding, At
  <2>5. CASE task[r] # Landing
    BY <1>0, <2>2, <2>3, <2>5 DEF KeepsLanding, At
  <2> QED  BY <2>4, <2>5
<1>7. \/ RefuseSuperseded(r) \/ Crash(r) \/ LandingReusesPrior(r)
      \/ WritesPartition(r) \/ Begins(r) \/ Succeeds(r) \/ Fails(r)
  <2>1. ASSUME NEW m \in Months, ReplaceClean(r, m) \/ ReplaceQuarantine(r, m)
        PROVE  WritesPartition(r)
    BY <2>1 DEF WritesPartition, ReplaceClean, ReplaceQuarantine, At
  <2>2. ASSUME NEW mart \in Marts, NEW m \in Months, WriteMart(r, mart, m)
        PROVE  WritesPartition(r)
    BY <2>2 DEF WritesPartition, WriteMart, At
  <2> QED  BY <2>1, <2>2 DEF Step, Fault, Begins, Succeeds, Fails
<1> QED  BY <1>1, <1>2, <1>3, <1>4, <1>5, <1>6, <1>7

\* So a landing of a run from gs:// URIs that passed is left alone.
LEMMA LandingKept ==
    ASSUME TypeOK, LandedInv, [Next]_vars,
           NEW r \in Runs, FromBucket(request[r]), Passed(StatusOf(r, Landing))
    PROVE  row'[r][Landing] = row[r][Landing]
<1>1. CASE Quiet
  BY <1>1, QuietFrame
<1>2. ASSUME NEW q \in Runs, Step(q) \/ Fault(q)
      PROVE  row'[r][Landing] = row[r][Landing]
  <2>1. CASE q # r
    BY <1>2, <2>1, LandingMoves
  <2>2. CASE q = r
    <3>1. ~BeginsLanding(r)
      BY DEF BeginsLanding, LandingBegins, LandedInv, StatusOf
    <3>2. ~EndsLanding(r) /\ ~FailsLanding(r)
      BY DEF EndsLanding, FailsLanding, LandingEnds, LandedInv, Passed
    <3> QED  BY <1>2, <2>2, <3>1, <3>2, LandingMoves DEF KeepsLanding
  <2> QED  BY <2>1, <2>2
<1> QED  BY <1>1, <1>2 DEF Next, Quiet

LEMMA LandedStep ==
    ASSUME TypeOK, Relanding = FALSE, LandedInv, [Next]_vars
    PROVE  LandedInv'
<1> USE DEF StatusOf
<1>1. ASSUME NEW q \in Runs, Step(q) \/ Fault(q)
      PROVE  LandedInv'
  <2>1. ASSUME NEW r \in Runs \ {q}
        PROVE  /\ phase'[r] = phase[r] /\ task'[r] = task[r]
               /\ row'[r] = row[r] /\ request' = request
    BY <1>1, LandingMoves
  <2>2. /\ phase'[q] \notin {"unknown", "queued"}
        /\ request[q] \in Requests /\ request' = request
    BY <1>1, LandingMoves DEF LandedInv
  <2>3. At(q, Landing, "busy")' => row'[q][Landing].status = "RUNNING"
    BY <1>1, LandingMoves DEF LandedInv, KeepsLanding, BeginsLanding, EndsLanding,
       FailsLanding, At
  <2>4. ASSUME FromBucket(request[q]), Passed(row'[q][Landing].status)
        PROVE  SamePlan(q)'
    <3>1. CASE KeepsLanding(q)
      BY <2>2, <2>4, <3>1 DEF KeepsLanding, LandedInv, SamePlan
    <3>2. CASE EndsLanding(q)
      BY <2>2, <2>4, <3>2, PlanAsked DEF EndsLanding, SamePlan, LandingPlan
    <3>3. ~BeginsLanding(q) /\ ~FailsLanding(q)
      BY <2>4 DEF BeginsLanding, FailsLanding, Passed
    <3> QED  BY <1>1, <3>1, <3>2, <3>3, LandingMoves
  <2> QED  BY <2>1, <2>2, <2>3, <2>4 DEF LandedInv, SamePlan, At
<1>2. CASE Quiet
  <2>1. row' = row
    BY <1>2, QuietFrame
  <2>2. ASSUME NEW r \in Runs, NEW q \in Requests, Submit(r, q) PROVE LandedInv'
    BY <2>1, <2>2 DEF Submit, LandedInv, SamePlan, At, Passed, TypeOK
  <2>3. ASSUME NEW r \in Runs, Start(r) PROVE LandedInv'
    BY <2>1, <2>3 DEF Start, LandedInv, SamePlan, At, TypeOK
  <2>4. ASSUME NEW r \in Runs, NEW t \in Task, Resume(r, t) PROVE LandedInv'
    <3>1. /\ phase[r] = "failed" /\ phase' = [phase EXCEPT ![r] = "ready"]
          /\ task' = [task EXCEPT ![r] = t] /\ request' = request
      BY <2>4 DEF Resume, Corrected, TypeOK
    <3> QED  BY <2>1, <3>1 DEF LandedInv, SamePlan, At, TypeOK
  <2>5. CASE UNCHANGED <<phase, task, request>>
    BY <2>1, <2>5 DEF LandedInv, SamePlan, At
  <2> QED  BY <1>2, <2>2, <2>3, <2>4, <2>5 DEF Quiet, ChangeSource, queueVars, vars
<1> QED  BY <1>1, <1>2 DEF Next, Quiet

\* A landed plan of a run whose source URIs are gs:// URIs, or that has none, is
\* never replaced: retries and repairs of the run find it, and no step of another
\* run touches its row, also if that one lands again and again.
THEOREM LandingIsFinal ==
    ASSUME Relanding = FALSE
    PROVE  Spec => LandedPlanFinal
<1>1. Init => LandedInv
  BY ChainOrder DEF Init, RowInit, AbsentRow, LandedInv, StatusOf, At, Passed
<1>2. TypeOK /\ LandedInv /\ [Next]_vars => LandedInv'
  BY LandedStep
<1>3. TypeOK /\ LandedInv /\ [Next]_vars =>
          [\A r \in Runs :
               FromBucket(request[r]) /\ Passed(row[r][Landing].status) =>
                   row'[r][Landing] = row[r][Landing]]_vars
  BY LandingKept DEF StatusOf
<1> QED  BY <1>1, <1>2, <1>3, TypeCorrect, PTL DEF Spec, LandedPlanFinal
-----------------------------------------------------------------------------
(***************************************************************************)
(* What stays in Gold and what is handed over.                             *)
(***************************************************************************)
\* A Gold task under way has rebuilt every partition it is done with.
GoldBuilding ==
    \A r \in Runs : phase[r] = "busy" /\ task[r] = "aggregate_gold" =>
        \A mart \in Marts, m \in Covered(LandingPlan(r)) :
            <<mart, m>> \in todo \/ gold[mart][m] = LandingPlan(r)[m]

\* What a successful Gold task built stays until a newer plan is landed.
GoldHeld ==
    \A r \in Runs :
        /\ StatusOf(r, "aggregate_gold") = "SUCCESS"
        /\ ~Superseded(r, LandingPlan(r))
        => \A mart \in Marts, m \in Covered(LandingPlan(r)) :
               gold[mart][m] = LandingPlan(r)[m]

\* A successful handoff of a run is its plan, whatever Gold becomes later.
HandedOver ==
    \A r \in Runs : StatusOf(r, "export_bigquery") = "SUCCESS" =>
        \A mart \in Marts, m \in Covered(LandingPlan(r)) :
            export[r][mart][m] = LandingPlan(r)[m]

HandoffInv == GoldBuilding /\ GoldHeld /\ HandedOver

\* A row of a task after landing becomes SUCCESS only where that task ends, in
\* the slot, under the newest plan of its months and after its upstream.
LEMMA SuccessWritten ==
    ASSUME TypeOK, IInv, NEW r \in Runs, Step(r) \/ Fault(r),
           NEW t \in Task \ {Landing, "monitor"},
           row'[r][t] # row[r][t], row'[r][t].status = "SUCCESS"
    PROVE  /\ task[r] = t /\ phase[r] = "busy" /\ Succeeds(r)
           /\ UpstreamRow(r).status = "SUCCESS"
           /\ ~Superseded(r, LandingPlan(r))
           /\ Received(r).plan = LandingPlan(r)
           /\ row'[r][Landing] = row[r][Landing]
<1> USE DEF IInv
<1>0. RowTypeOK /\ task[r] \in Task
  BY DEF TypeOK
<1>1. task[r] = t /\ task[r] # Landing
  BY Frame
<1>2. row'[r][Landing] = row[r][Landing]
  BY <1>1, Frame, ChainOrder
<1>3. Succeeds(r)
  <2>1. ~Stops(r) /\ ~WritesPartition(r) /\ ~LandingReusesPrior(r)
    BY DEF Stops, WritesPartition, ReplaceClean, ReplaceQuarantine, WriteMart,
       LandingReusesPrior, stateVars
  <2>2. ~Begins(r)
    <3>1. ASSUME NEW p, NEW work, Begin(r, p, work) PROVE FALSE
      BY <1>0, <1>1, <3>1, WriteEffect DEF Begin
    <3> QED  BY <3>1, BeginsShape
  <2>3. ~Fails(r)
    <3>1. ASSUME NEW p, Fail(r, p) PROVE FALSE
      BY <1>0, <1>1, <3>1, WriteEffect DEF Fail
    <3> QED  BY <3>1, FailsShape
  <2> QED  BY <2>1, <2>2, <2>3, StepShapes
<1>4. phase[r] = "busy"
  <2>1. ~PassNoData(r)
    BY <1>0, <1>1, WriteEffect DEF PassNoData, Succeed
  <2> QED  BY <1>1, <1>3, <2>1 DEF Succeeds, LandingEnds, PreflightEnds, BronzeEnds,
           SilverEnds, GateReplay, GatePasses, GoldEnds, ExportEnds, MonitorPasses, At
<1>5. UpstreamRow(r).status = "SUCCESS" /\ ~Superseded(r, LandingPlan(r))
  BY <1>1, <1>4 DEF BusyInv
<1>6. Received(r).plan = LandingPlan(r)
  BY <1>1, <1>4, ReceivedPlan DEF Taken
<1> QED  BY <1>1, <1>2, <1>3, <1>4, <1>5, <1>6

LEMMA BuildingRun ==
    ASSUME TypeOK, IInv, GoldBuilding, NEW r \in Runs, Step(r) \/ Fault(r)
    PROVE  GoldBuilding'
<1> USE DEF IInv
<1>0. Taken(r) /\ task[r] \in Task /\ active = r /\ gold \in [Marts -> Plan]
  BY StepShapes DEF InSlot, Taken, TypeOK, SlotInv
<1>1. \A q \in Runs \ {r} : phase'[q] # "busy"
  BY <1>0, Frame DEF SlotInv, InSlot
<1>2. ASSUME phase'[r] = "busy", task'[r] = "aggregate_gold",
             NEW mart \in Marts, NEW m \in Covered(LandingPlan(r))'
      PROVE  <<mart, m>> \in todo' \/ gold'[mart][m] = LandingPlan(r)'[m]
  <2>1. WritesPartition(r) \/ TaskBegins(r)
    <3>1. ~Stops(r)
      BY <1>2 DEF Stops, TypeOK
    <3>2. ~Fails(r)
      BY <1>2, FailsShape DEF Fail, TypeOK
    <3>3. ~Succeeds(r)
      BY <1>2, SucceedsShape DEF Succeed, Advance, TypeOK
    <3>4. ~LandingReusesPrior(r)
      BY <1>2 DEF LandingReusesPrior, Advance, TypeOK
    <3>5. ~LandingBegins(r)
      BY <1>2 DEF LandingBegins, Begin, At, Landing
    <3> QED  BY <3>1, <3>2, <3>3, <3>4, <3>5, StepShapes DEF Begins
  <2>2. CASE WritesPartition(r)
    <3>1. row' = row /\ task' = task /\ phase' = phase
      BY <2>2 DEF WritesPartition, ReplaceClean, ReplaceQuarantine, WriteMart, stateVars
    <3>2. m \in Covered(LandingPlan(r)) /\ LandingPlan(r)' = LandingPlan(r)
      BY <3>1 DEF LandingPlan, Covered
    <3>3. <<mart, m>> \in todo \/ gold[mart][m] = LandingPlan(r)[m]
      BY <1>2, <3>1, <3>2 DEF GoldBuilding
    <3>4. PICK x \in Marts, n \in Months : WriteMart(r, x, n)
      BY <1>2, <2>2, <3>1 DEF WritesPartition, ReplaceClean, ReplaceQuarantine, At
    <3>5. clean[n] = LandingPlan(r)[n]
      BY <3>4, MartSource
    <3>6. m \in Months
      BY <3>2 DEF Covered
    <3>7. CASE x = mart /\ n = m
      BY <1>0, <3>2, <3>4, <3>5, <3>6, <3>7 DEF WriteMart, Plan
    <3>8. CASE ~(x = mart /\ n = m)
      <4>1. gold'[mart][m] = gold[mart][m]
        BY <1>0, <3>4, <3>6, <3>8 DEF WriteMart, Plan
      <4>2. <<mart, m>> \in todo => <<mart, m>> \in todo'
        BY <3>4, <3>8 DEF WriteMart
      <4> QED  BY <3>2, <3>3, <4>1, <4>2
    <3> QED  BY <3>7, <3>8
  <2>3. CASE TaskBegins(r)
    <3>1. task' = task /\ task[r] = "aggregate_gold" /\ todo' = Work(r)
      BY <1>2, <2>3 DEF TaskBegins, Begin
    <3>2. row'[r][Landing] = row[r][Landing] /\ Received(r).plan = LandingPlan(r)
      BY <1>0, <3>1, Frame, ReceivedPlan, ChainOrder DEF Landing
    <3>3. m \in Covered(Received(r).plan)
      BY <3>2 DEF LandingPlan, Covered
    <3> QED  BY <3>1, <3>3 DEF Work, Tables
  <2> QED  BY <2>1, <2>2, <2>3
<1> QED  BY <1>1, <1>2 DEF GoldBuilding

LEMMA HeldRun ==
    ASSUME TypeOK, IInv, GoldBuilding, GoldHeld, NEW r \in Runs, Step(r) \/ Fault(r)
    PROVE  GoldHeld'
<1> USE DEF IInv
<1>0. active = r /\ gold \in [Marts -> Plan]
  BY StepShapes DEF TypeOK, SlotInv
<1>t. "aggregate_gold" \in Task \ {Landing, "monitor"}
  BY DEF Task, Landing
<1>1. ASSUME NEW q \in Runs, ~Superseded(q, LandingPlan(q))',
             row'[q]["aggregate_gold"] = row[q]["aggregate_gold"],
             StatusOf(q, "aggregate_gold") = "SUCCESS",
             NEW mart \in Marts, NEW m \in Covered(LandingPlan(q))'
      PROVE  gold'[mart][m] = LandingPlan(q)'[m]
  <2>1. StatusOf(q, Landing) = "SUCCESS" /\ Passed(StatusOf(q, Landing))
    BY <1>1, <1>t DEF PlanInv, Passed
  <2>2. row'[q][Landing] = row[q][Landing]
    BY <2>1, LandingStable
  <2>3. ~Superseded(q, LandingPlan(q))
    BY <1>1, <2>1, LandingStable, SupersededStays
  <2>4. m \in Covered(LandingPlan(q)) /\ m \in Months /\ LandingPlan(q)' = LandingPlan(q)
    BY <2>2 DEF LandingPlan, Covered
  <2>5. gold[mart][m] = LandingPlan(q)[m]
    BY <1>1, <2>3, <2>4 DEF GoldHeld
  <2>6. ASSUME gold'[mart][m] # gold[mart][m]
        PROVE  FALSE
    <3>1. PICK x \in Marts, n \in Months : WriteMart(r, x, n)
      BY <2>6, LakeFrame
    <3>2. x = mart /\ n = m
      BY <1>0, <2>4, <2>6, <3>1 DEF WriteMart, Plan
    <3>3. task[r] = "aggregate_gold" /\ phase[r] = "busy" /\ <<mart, m>> \in todo
      BY <3>1, <3>2 DEF WriteMart, At
    <3>4. q # r
      BY <1>1, <3>3 DEF BusyInv, StatusOf
    <3> QED  BY <1>0, <1>t, <2>1, <2>3, <2>4, <3>3, <3>4, WriterIsNewest
  <2> QED  BY <2>4, <2>5, <2>6
<1>2. ASSUME row'[r]["aggregate_gold"] # row[r]["aggregate_gold"],
             row'[r]["aggregate_gold"].status = "SUCCESS",
             NEW mart \in Marts, NEW m \in Covered(LandingPlan(r))'
      PROVE  gold'[mart][m] = LandingPlan(r)'[m]
  <2>1. /\ task[r] = "aggregate_gold" /\ phase[r] = "busy" /\ Succeeds(r)
        /\ row'[r][Landing] = row[r][Landing]
    BY <1>2, <1>t, SuccessWritten
  <2>2. todo = {} /\ gold' = gold
    BY <2>1 DEF Succeeds, LandingEnds, PassNoData, PreflightEnds, BronzeEnds, SilverEnds,
       GateReplay, GatePasses, GoldEnds, ExportEnds, MonitorPasses, At, Landing, lakeVars
  <2>3. m \in Covered(LandingPlan(r)) /\ LandingPlan(r)' = LandingPlan(r)
    BY <2>1 DEF LandingPlan, Covered
  <2> QED  BY <2>1, <2>2, <2>3 DEF GoldBuilding
<1>3. \A q \in Runs \ {r} : row'[q] = row[q]
  BY Frame
<1>4. ASSUME NEW q \in Runs, StatusOf(q, "aggregate_gold")' = "SUCCESS",
             ~Superseded(q, LandingPlan(q))',
             NEW mart \in Marts, NEW m \in Covered(LandingPlan(q))'
      PROVE  gold'[mart][m] = LandingPlan(q)'[m]
  <2>1. CASE row'[q]["aggregate_gold"] = row[q]["aggregate_gold"]
    BY <1>1, <1>4, <2>1 DEF StatusOf
  <2>2. CASE row'[q]["aggregate_gold"] # row[q]["aggregate_gold"]
    BY <1>2, <1>3, <1>4, <2>2 DEF StatusOf
  <2> QED  BY <2>1, <2>2
<1> QED  BY <1>4 DEF GoldHeld

\* Only the export task of a run touches its handoff.
LEMMA ExportFrame ==
    ASSUME NEW r \in Runs, Step(r) \/ Fault(r), ~ExportEnds(r)
    PROVE  export' = export
BY DEF Step, Fault, LandingReusesPrior, LandingBegins, LandingEnds, LandingUnavailable,
   PassNoData, RefuseSuperseded, TaskBegins, PreflightEnds, BronzeEnds, ReplaceClean,
   ReplaceQuarantine, SilverEnds, GateReplay, GatePasses, GateRejects, WriteMart,
   GoldEnds, MonitorPasses, MonitorFails, TaskFails, Crash, Begin, Fail, lakeVars

LEMMA HandedRun ==
    ASSUME TypeOK, IInv, GoldHeld, HandedOver, NEW r \in Runs, Step(r) \/ Fault(r)
    PROVE  HandedOver'
<1> USE DEF IInv
<1>t. "export_bigquery" \in Task \ {Landing, "monitor"}
  BY DEF Task, Landing
<1>0. export \in [Runs -> [Marts -> Plan]] /\ RowTypeOK
  BY DEF TypeOK
<1>1. ASSUME ExportEnds(r), NEW mart \in Marts, NEW m \in Covered(LandingPlan(r))'
      PROVE  export'[r][mart][m] = LandingPlan(r)'[m]
  <2>1. task[r] = "export_bigquery" /\ phase[r] = "busy" /\ task[r] # Landing
    BY <1>1 DEF ExportEnds, At, Landing
  <2>2. row'[r][Landing] = row[r][Landing] /\ Received(r).plan = LandingPlan(r)
    BY <2>1, Frame, ChainOrder, ReceivedPlan DEF Taken
  <2>3. StatusOf(r, "aggregate_gold") = "SUCCESS" /\ ~Superseded(r, LandingPlan(r))
    BY <2>1 DEF BusyInv, UpstreamRow, Upstream, StatusOf
  <2>4. m \in Covered(LandingPlan(r)) /\ m \in Months /\ LandingPlan(r)' = LandingPlan(r)
    BY <2>2 DEF LandingPlan, Covered
  <2>5. gold[mart][m] = LandingPlan(r)[m]
    BY <2>3, <2>4 DEF GoldHeld
  <2>6. export'[r][mart][m] = gold[mart][m]
    BY <1>0, <1>1, <2>2, <2>4 DEF ExportEnds
  <2> QED  BY <2>4, <2>5, <2>6
<1>2. ASSUME NEW q \in Runs, ~(q = r /\ ExportEnds(r)),
             StatusOf(q, "export_bigquery")' = "SUCCESS",
             NEW mart \in Marts, NEW m \in Covered(LandingPlan(q))'
      PROVE  export'[q][mart][m] = LandingPlan(q)'[m]
  <2>1. export'[q] = export[q]
    BY <1>0, <1>2, ExportFrame DEF ExportEnds
  <2>2. row'[q]["export_bigquery"] = row[q]["export_bigquery"]
    <3>1. ASSUME q = r, row'[r]["export_bigquery"] # row[r]["export_bigquery"]
          PROVE  FALSE
      <4>1. task[r] = "export_bigquery" /\ phase[r] = "busy" /\ Succeeds(r)
        BY <1>2, <1>t, <3>1, SuccessWritten DEF StatusOf
      <4> QED  BY <1>2, <3>1, <4>1 DEF Succeeds, LandingEnds, PassNoData, PreflightEnds,
               BronzeEnds, SilverEnds, GateReplay, GatePasses, GoldEnds, MonitorPasses,
               At, Landing
    <3> QED  BY <3>1, Frame
  <2>3. StatusOf(q, "export_bigquery") = "SUCCESS" /\ Passed(StatusOf(q, Landing))
    BY <1>2, <1>t, <2>2 DEF PlanInv, Passed, StatusOf
  <2>4. row'[q][Landing] = row[q][Landing]
    BY <2>3, LandingStable
  <2>5. m \in Covered(LandingPlan(q)) /\ LandingPlan(q)' = LandingPlan(q)
    BY <2>4 DEF LandingPlan, Covered
  <2> QED  BY <2>1, <2>3, <2>5 DEF HandedOver
<1> QED  BY <1>1, <1>2 DEF HandedOver

\* Queueing, repairs and the source leave all of it alone.
LEMMA HandoffQuiet ==
    ASSUME TypeOK, HandoffInv, Quiet
    PROVE  HandoffInv'
<1>1. UNCHANGED <<row, todo, gold, export>>
  BY QuietFrame DEF Quiet, Submit, Start, Resume, ChangeSource, lakeVars, vars
<1>2. \A r \in Runs : phase'[r] = "busy" => phase[r] = "busy" /\ task'[r] = task[r]
  BY DEF TypeOK, Quiet, Submit, Start, Resume, ChangeSource, queueVars, vars
<1> QED  BY <1>1, <1>2 DEF HandoffInv, GoldBuilding, GoldHeld, HandedOver, StatusOf,
         LandingPlan, Superseded, Covered

LEMMA HandoffCorrect ==
    ASSUME LandsOnce
    PROVE  Spec => []HandoffInv
<1>1. Init => HandoffInv
  BY DEF Init, RowInit, AbsentRow, HandoffInv, GoldBuilding, GoldHeld, HandedOver,
     StatusOf, Task
<1>2. TypeOK /\ IInv /\ HandoffInv /\ [Next]_vars => HandoffInv'
  <2>1. ASSUME TypeOK, IInv, HandoffInv, NEW r \in Runs, Step(r) \/ Fault(r)
        PROVE  HandoffInv'
    BY <2>1, BuildingRun, HeldRun, HandedRun DEF HandoffInv
  <2>2. [Next]_vars => Quiet \/ \E r \in Runs : Step(r) \/ Fault(r)
    BY DEF Next, Quiet
  <2> QED  BY <2>1, <2>2, HandoffQuiet
<1> QED  BY <1>1, <1>2, TypeCorrect, InvCorrect, PTL DEF Spec

\* What a successful Gold task built is in Gold until a newer plan for one of
\* its months is landed, whatever crashes, retries and repairs of older runs do.
THEOREM GoldStays ==
    ASSUME LandsOnce
    PROVE  Spec => []GoldKeepsNewestPlan
<1>1. TypeOK /\ IInv /\ HandoffInv => GoldKeepsNewestPlan
  BY DEF IInv, HandoffInv, GoldHeld, GoldKeepsNewestPlan, PlanInv, StatusOf, PlanOf, Task,
     Landing
<1> QED  BY <1>1, TypeCorrect, InvCorrect, HandoffCorrect, PTL

\* The handoff of a successful export_bigquery task holds, for every mart and
\* month of its plan, the snapshot of that plan and of no other run.
THEOREM HandoffIsPlan ==
    ASSUME LandsOnce
    PROVE  Spec => []HandoffFaithful
<1>1. TypeOK /\ IInv /\ HandoffInv => HandoffFaithful
  BY DEF IInv, HandoffInv, HandedOver, HandoffFaithful, PlanInv, StatusOf, PlanOf, Task,
     Landing
<1> QED  BY <1>1, TypeCorrect, InvCorrect, HandoffCorrect, PTL
=============================================================================
