----------------------- MODULE TaxiPipelineRefinement -----------------------
(***************************************************************************)
(* TaxiPipeline implements MonthLedger: through the state table and the    *)
(* shared Silver tables, every mart partition is rebuilt from the plan the *)
(* newest landing of its month intends, as if nothing lay in between. A    *)
(* month the state table does not call dirty is served as published, and a *)
(* backfill that is done served what it was asked for.                     *)
(***************************************************************************)
EXTENDS TaxiPipelineSafety

USE SnapshotAssumption, PipelineAssumption

IsNewest(r, m) ==
    /\ r \in Events(Landing, m)
    /\ \A q \in Events(Landing, m) : row[q][Landing].at <= row[r][Landing].at

\* A month with a landed plan has a newest one.
NewestInv ==
    \A m \in Months : Events(Landing, m) # {} => \E r \in Runs : IsNewest(r, m)

\* The newest landing is unique, so it is the one CHOOSE finds.
LEMMA IntendedByNewest ==
    ASSUME TypeOK, StampInv, NEW m \in Months, NEW r \in Runs, IsNewest(r, m)
    PROVE  Intended(m) = row[r][Landing].payload.plan[m]
<1> DEFINE E == Events(Landing, m)
           P(q) == \A x \in E : row[x][Landing].at <= row[q][Landing].at
<1>1. r \in E /\ P(r) /\ E # {}
  BY DEF IsNewest
<1>2. ASSUME NEW q \in E, P(q)
      PROVE  q = r
  <2>1. q \in Runs /\ StatusOf(q, Landing) = "SUCCESS" /\ StatusOf(r, Landing) = "SUCCESS"
    BY <1>1 DEF Events, StatusOf
  <2>2. row[q][Landing].at \in Nat /\ row[r][Landing].at \in Nat
    BY <2>1, ChainOrder DEF TypeOK, RowTypeOK, Row
  <2>3. /\ row[q][Landing].at <= row[r][Landing].at
        /\ row[r][Landing].at <= row[q][Landing].at
    BY <1>1, <1>2
  <2>4. row[q][Landing].at = row[r][Landing].at
    BY <2>2, <2>3
  <2> QED  BY <2>1, <2>4 DEF StampInv, Passed
<1>3. Newest(Landing, E) = r
  <2>1. Newest(Landing, E) = CHOOSE q \in E : P(q)
    BY DEF Newest
  <2> HIDE DEF E, P
  <2>2. (CHOOSE q \in E : P(q)) \in E /\ P(CHOOSE q \in E : P(q))
    BY <1>1, Zenon
  <2> QED  BY <1>2, <2>1, <2>2
<1> QED  BY <1>1, <1>3 DEF Intended

NewestIntends ==
    TypeOK /\ StampInv =>
        \A m \in Months, r \in Runs : IsNewest(r, m) =>
            Intended(m) = row[r][Landing].payload.plan[m]

\* The same of the state a step leads to.
LEMMA IntendedNext == NewestIntends'
<1>1. NewestIntends
  BY IntendedByNewest DEF NewestIntends
<1> QED  BY <1>1, PTL

\* A step either leaves all successful landings as they are or adds the one of
\* run r, later than all others.
LandedBy(r) ==
    /\ StatusOf(r, Landing) # "SUCCESS"
    /\ row'[r][Landing].status = "SUCCESS"
    /\ \A m \in Months : \A q \in Events(Landing, m) :
           row[q][Landing].at <= row'[r][Landing].at
    /\ \A q \in Runs \ {r} : row'[q] = row[q]

LandingsKept ==
    \A q \in Runs : /\ row'[q][Landing].status = "SUCCESS" <=> StatusOf(q, Landing) = "SUCCESS"
                    /\ StatusOf(q, Landing) = "SUCCESS" => row'[q][Landing] = row[q][Landing]

LEMMA LandingSteps ==
    ASSUME TypeOK, IInv, [Next]_vars
    PROVE  LandingsKept \/ \E r \in Runs : LandedBy(r)
<1> USE DEF IInv
<1>1. CASE Quiet
  BY <1>1, QuietFrame DEF LandingsKept, StatusOf
<1>2. ASSUME NEW r \in Runs, Step(r) \/ Fault(r)
      PROVE  LandingsKept \/ LandedBy(r)
  <2>1. \A q \in Runs \ {r} : row'[q] = row[q]
    BY <1>2, Frame
  <2>2. CASE Passed(StatusOf(r, Landing))
    <3>1. row'[r][Landing] = row[r][Landing]
      BY <1>2, <2>2, LandingStable
    <3> QED  BY <2>1, <3>1 DEF LandingsKept, StatusOf
  <2>3. CASE ~Passed(StatusOf(r, Landing)) /\ row'[r][Landing].status # "SUCCESS"
    BY <2>1, <2>3 DEF LandingsKept, StatusOf, Passed
  <2>4. CASE ~Passed(StatusOf(r, Landing)) /\ row'[r][Landing].status = "SUCCESS"
    <3>1. row'[r][Landing].at = clock + 1
      BY <1>2, <2>4, LandedStamp DEF StatusOf, Passed
    <3>2. \A m \in Months : \A q \in Events(Landing, m) : row[q][Landing].at \in 1..clock
      BY DEF Events, StampInv, StatusOf, Passed
    <3>3. clock \in Nat
      BY DEF TypeOK, RowTypeOK
    <3> QED  BY <2>1, <2>4, <3>1, <3>2, <3>3 DEF LandedBy, StatusOf, Passed
  <2> QED  BY <2>2, <2>3, <2>4
<1>3. Quiet \/ \E r \in Runs : Step(r) \/ Fault(r)
  BY DEF Next, Quiet
<1> QED  BY <1>1, <1>2, <1>3

\* Who the newest landing of a month is after such a step.
LEMMA NewestKept ==
    ASSUME LandingsKept, NEW m \in Months
    PROVE  /\ Events(Landing, m)' = Events(Landing, m)
           /\ \A r \in Runs : IsNewest(r, m) => IsNewest(r, m)'
<1>1. \A q \in Runs : q \in Events(Landing, m)' <=> q \in Events(Landing, m)
  BY DEF LandingsKept, Events, StatusOf
<1>2. Events(Landing, m)' = Events(Landing, m)
  BY <1>1 DEF Events
<1>3. \A q \in Events(Landing, m) : row'[q][Landing] = row[q][Landing]
  BY DEF LandingsKept, Events, StatusOf
<1> QED  BY <1>2, <1>3 DEF IsNewest

LEMMA NewestLanded ==
    ASSUME TypeOK', NEW r \in Runs, LandedBy(r), NEW m \in Months
    PROVE  /\ m \in Covered(row'[r][Landing].payload.plan) => IsNewest(r, m)'
           /\ m \notin Covered(row'[r][Landing].payload.plan) =>
                  /\ Events(Landing, m)' = Events(Landing, m)
                  /\ \A q \in Runs : IsNewest(q, m) => IsNewest(q, m)'
<1> USE DEF LandedBy, StatusOf
<1>1. \A q \in Runs \ {r} : q \in Events(Landing, m)' <=> q \in Events(Landing, m)
  BY DEF Events
<1>2. r \notin Events(Landing, m)
  BY DEF Events
<1>3. \A q \in Events(Landing, m) : q \in Runs \ {r} /\ row'[q] = row[q]
  BY <1>2 DEF Events
<1>4. ASSUME m \in Covered(row'[r][Landing].payload.plan)
      PROVE  IsNewest(r, m)'
  <2>1. r \in Events(Landing, m)'
    BY <1>4 DEF Events
  <2>2. ASSUME NEW q \in Events(Landing, m)'
        PROVE  row'[q][Landing].at <= row'[r][Landing].at
    <3>1. CASE q = r
      <4>1. row'[r][Landing].at \in Nat
        BY ChainOrder DEF TypeOK, RowTypeOK, Row
      <4> QED  BY <3>1, <4>1
    <3>2. CASE q # r
      BY <1>1, <1>3, <2>2, <3>2 DEF Events
    <3> QED  BY <3>1, <3>2
  <2> QED  BY <2>1, <2>2 DEF IsNewest
<1>5. ASSUME m \notin Covered(row'[r][Landing].payload.plan)
      PROVE  /\ Events(Landing, m)' = Events(Landing, m)
             /\ \A q \in Runs : IsNewest(q, m) => IsNewest(q, m)'
  <2>1. r \notin Events(Landing, m)'
    BY <1>5 DEF Events
  <2>2. Events(Landing, m)' = Events(Landing, m)
    BY <1>1, <1>2, <2>1 DEF Events
  <2> QED  BY <1>3, <2>2 DEF IsNewest
<1> QED  BY <1>4, <1>5
-----------------------------------------------------------------------------
\* The newest landing exists in every reachable state.
LEMMA NewestStep ==
    ASSUME TypeOK, TypeOK', IInv, NewestInv, [Next]_vars
    PROVE  NewestInv'
<1>1. CASE LandingsKept
  BY <1>1, NewestKept DEF NewestInv
<1>2. ASSUME NEW r \in Runs, LandedBy(r)
      PROVE  NewestInv'
  <2>1. ASSUME NEW m \in Months, Events(Landing, m)' # {}
        PROVE  \E q \in Runs : IsNewest(q, m)'
    <3>1. CASE m \in Covered(row'[r][Landing].payload.plan)
      BY <1>2, <3>1, NewestLanded
    <3>2. CASE m \notin Covered(row'[r][Landing].payload.plan)
      BY <1>2, <2>1, <3>2, NewestLanded DEF NewestInv
    <3> QED  BY <3>1, <3>2
  <2> QED  BY <2>1 DEF NewestInv
<1> QED  BY <1>1, <1>2, LandingSteps

THEOREM NewestCorrect ==
    ASSUME LandsOnce
    PROVE  Spec => []NewestInv
<1>1. Init => NewestInv
  BY DEF Init, RowInit, AbsentRow, NewestInv, Events, Landing, Task
<1>2. TypeOK /\ TypeOK' /\ IInv /\ NewestInv /\ [Next]_vars => NewestInv'
  BY NewestStep
<1> QED  BY <1>1, <1>2, TypeCorrect, InvCorrect, PTL DEF Spec
-----------------------------------------------------------------------------
(***************************************************************************)
(* The refinement.                                                         *)
(***************************************************************************)
\* Intents change only where a plan lands, and then to that plan.
LEMMA IntentKept ==
    ASSUME TypeOK, TypeOK', IInv, IInv', NewestInv, LandingsKept, NEW m \in Months
    PROVE  Intended(m)' = Intended(m)
<1> USE DEF IInv
<1>1. CASE Events(Landing, m) = {}
  BY <1>1, NewestKept DEF Intended
<1>2. CASE Events(Landing, m) # {}
  <2>1. PICK r \in Runs : IsNewest(r, m)
    BY <1>2 DEF NewestInv
  <2>2. Intended(m) = row[r][Landing].payload.plan[m]
    BY <2>1, IntendedByNewest
  <2>3. Intended(m)' = row'[r][Landing].payload.plan[m]
    BY <2>1, NewestKept, IntendedNext DEF NewestIntends
  <2> QED  BY <2>1, <2>2, <2>3 DEF IsNewest, Events, LandingsKept, StatusOf
<1> QED  BY <1>1, <1>2

LEMMA IntentLanded ==
    ASSUME TypeOK, TypeOK', IInv, IInv', NewestInv, NEW r \in Runs, LandedBy(r),
           NEW m \in Months
    PROVE  Intended(m)' = IF row'[r][Landing].payload.plan[m] = NoSnapshot
                          THEN Intended(m) ELSE row'[r][Landing].payload.plan[m]
<1> USE DEF IInv
<1>1. CASE m \in Covered(row'[r][Landing].payload.plan)
  <2>1. IsNewest(r, m)'
    BY <1>1, NewestLanded
  <2> QED  BY <1>1, <2>1, IntendedNext DEF NewestIntends, Covered
<1>2. CASE m \notin Covered(row'[r][Landing].payload.plan)
  <2>1. row'[r][Landing].payload.plan[m] = NoSnapshot
    BY <1>2 DEF Covered
  <2>2. CASE Events(Landing, m) = {}
    BY <1>2, <2>1, <2>2, NewestLanded DEF Intended
  <2>3. CASE Events(Landing, m) # {}
    <3>1. PICK q \in Runs : IsNewest(q, m)
      BY <2>3 DEF NewestInv
    <3>2. Intended(m) = row[q][Landing].payload.plan[m]
      BY <3>1, IntendedByNewest
    <3>3. Intended(m)' = row'[q][Landing].payload.plan[m]
      BY <1>2, <3>1, NewestLanded, IntendedNext DEF NewestIntends
    <3>4. q # r
      BY <3>1 DEF IsNewest, Events, LandedBy, StatusOf
    <3> QED  BY <2>1, <3>2, <3>3, <3>4 DEF LandedBy
  <2> QED  BY <2>2, <2>3
<1> QED  BY <1>1, <1>2

LEMMA Intents ==
    ASSUME TypeOK, TypeOK', IInv, IInv', NewestInv, [Next]_vars
    PROVE  \/ UNCHANGED [m \in Months |-> Intended(m)]
           \/ \E plan \in [Months -> Snapshots \cup {NoSnapshot}] :
                 [m \in Months |-> Intended(m)]' =
                     [m \in Months |-> IF plan[m] = NoSnapshot THEN Intended(m) ELSE plan[m]]
<1>1. CASE LandingsKept
  BY <1>1, IntentKept
<1>2. ASSUME NEW r \in Runs, LandedBy(r)
      PROVE  \E plan \in [Months -> Snapshots \cup {NoSnapshot}] :
                 [m \in Months |-> Intended(m)]' =
                     [m \in Months |-> IF plan[m] = NoSnapshot THEN Intended(m) ELSE plan[m]]
  <2>1. row'[r][Landing].payload.plan \in [Months -> Snapshots \cup {NoSnapshot}]
    BY ChainOrder DEF TypeOK, RowTypeOK, Row, Payload, Plan
  <2>2. \A m \in Months :
            Intended(m)' = IF row'[r][Landing].payload.plan[m] = NoSnapshot
                           THEN Intended(m) ELSE row'[r][Landing].payload.plan[m]
    BY <1>2, IntentLanded
  <2> QED  BY <2>1, <2>2
<1> QED  BY <1>1, <1>2, LandingSteps

\* What a month is intended to be served from is a snapshot, or nothing.
LEMMA IntendedTyped ==
    ASSUME TypeOK, IInv, NewestInv, NEW m \in Months
    PROVE  Intended(m) \in Snapshots \cup {NoSnapshot}
<1>1. CASE Events(Landing, m) = {}
  BY <1>1 DEF Intended
<1>2. CASE Events(Landing, m) # {}
  <2>1. PICK r \in Runs : IsNewest(r, m)
    BY <1>2 DEF NewestInv
  <2>2. Intended(m) = row[r][Landing].payload.plan[m]
    BY <2>1, IntendedByNewest DEF IInv
  <2>3. row[r][Landing].payload.plan \in [Months -> Snapshots \cup {NoSnapshot}]
    BY ChainOrder DEF TypeOK, RowTypeOK, Row, Payload, Plan
  <2> QED  BY <2>2, <2>3
<1> QED  BY <1>1, <1>2

\* A mart partition is rebuilt from what the month's newest landing intends.
LEMMA MartIntends ==
    ASSUME TypeOK, IInv, NEW r \in Runs, NEW mart \in Marts, NEW m \in Months,
           WriteMart(r, mart, m)
    PROVE  clean[m] = Intended(m) /\ Intended(m) \in Good
<1> USE DEF IInv
<1>1. /\ StatusOf(r, Landing) = "SUCCESS" /\ ~Superseded(r, LandingPlan(r))
      /\ m \in Covered(LandingPlan(r)) /\ clean[m] = LandingPlan(r)[m]
      /\ LandingPlan(r)[m] \in Good
  BY MartSource
<1>2. r \in Events(Landing, m)
  BY <1>1 DEF Events, StatusOf, LandingPlan
<1>3. ASSUME NEW q \in Events(Landing, m)
      PROVE  row[q][Landing].at <= row[r][Landing].at
  <2>1. row[q][Landing].at \in Nat /\ row[r][Landing].at \in Nat /\ q \in Runs
    BY ChainOrder DEF Events, TypeOK, RowTypeOK, Row
  <2>2. CASE q = r
    BY <2>1, <2>2
  <2>3. CASE q # r
    BY <1>1, <2>1, <2>3 DEF Superseded, Events, StatusOf, LandingPlan, Landing
  <2> QED  BY <2>2, <2>3
<1> QED  BY <1>1, <1>2, <1>3, IntendedByNewest DEF IsNewest, LandingPlan

\* A step of a run that writes a mart leaves all landings alone.
LEMMA MartLeavesLandings ==
    ASSUME NEW r \in Runs, NEW mart \in Marts, NEW m \in Months, WriteMart(r, mart, m)
    PROVE  UNCHANGED [n \in Months |-> Intended(n)]
BY DEF WriteMart, stateVars, Intended, Events, Newest

\* Behind runs, retries, state rows and shared Silver tables, Gold behaves as
\* MonthLedger says.
THEOREM ImplementsLedger ==
    ASSUME LandsOnce
    PROVE  Spec => LedgerSpec
<1>1. Init => Ledger!Init
  <2> SUFFICES ASSUME Init PROVE Ledger!Init
    OBVIOUS
  <2>1. \A m \in Months : Events(Landing, m) = {}
    BY DEF Init, RowInit, AbsentRow, Events, Landing, Task
  <2> QED  BY <2>1 DEF Init, Ledger!Init, Intended, NoPlan
<1>2. TypeOK /\ TypeOK' /\ IInv /\ IInv' /\ NewestInv /\ [Next]_vars
          => [Ledger!Next]_<<[m \in Months |-> Intended(m)], gold>>
  <2> SUFFICES ASSUME TypeOK, TypeOK', IInv, IInv', NewestInv, [Next]_vars
               PROVE  [Ledger!Next]_<<[m \in Months |-> Intended(m)], gold>>
    OBVIOUS
  <2>1. CASE gold' = gold
    <3> DEFINE old == [m \in Months |-> Intended(m)]
               new == [m \in Months |-> Intended(m)']
    <3>1. CASE UNCHANGED old
      BY <2>1, <3>1
    <3>2. ASSUME NEW plan \in [Months -> Snapshots \cup {NoSnapshot}],
                 new = [m \in Months |-> IF plan[m] = NoSnapshot THEN Intended(m) ELSE plan[m]]
          PROVE  Ledger!Land
      <4>1. \A m \in Months : new[m] = IF plan[m] = NoSnapshot THEN old[m] ELSE plan[m]
        BY <3>2
      <4>2. \A m \in Months : old[m] \in Snapshots \cup {NoSnapshot}
        BY IntendedTyped
      <4>3. \A m \in Months : new[m] \in Snapshots \cup {old[m]}
        BY <4>1
      <4>4. new \in [Months -> Snapshots \cup {NoSnapshot}]
        BY <4>2, <4>3
      <4> QED  BY <2>1, <4>3, <4>4 DEF Ledger!Land
    <3> QED  BY <3>1, <3>2, Intents DEF Ledger!Next
  <2>2. ASSUME NEW r \in Runs, NEW mart \in Marts, NEW m \in Months, WriteMart(r, mart, m),
               gold' # gold
        PROVE  Ledger!Next
    <3>1. /\ gold' = [gold EXCEPT ![mart][m] = Intended(m)]
          /\ Intended(m) \in Good
      BY <2>2, MartIntends DEF WriteMart
    <3> QED  BY <2>2, <3>1, MartLeavesLandings DEF Ledger!Next, Ledger!Build
  <2>3. Quiet \/ \E r \in Runs : Step(r) \/ Fault(r)
    BY DEF Next, Quiet
  <2> QED  BY <2>1, <2>2, <2>3, QuietFrame, LakeFrame
<1> QED  BY <1>1, <1>2, TypeCorrect, InvCorrect, NewestCorrect, PTL
         DEF Spec, LedgerSpec, Ledger!Spec
-----------------------------------------------------------------------------
(***************************************************************************)
(* What the state table says of the tables, when superseded runs are left  *)
(* alone: a month that is not dirty is served as the monitor reported it.  *)
(***************************************************************************)
\* No newer plan is landed for a month of the run in the slot.
SlotFresh ==
    \A r \in Runs : InSlot(r) /\ Passed(StatusOf(r, Landing)) =>
        ~Superseded(r, LandingPlan(r))

\* SilverInv of the second table.
QuarantineInv ==
    \A r \in Runs :
        /\ StatusOf(r, "transform_silver") = "SUCCESS"
        /\ ~Superseded(r, LandingPlan(r))
        => \A m \in Covered(LandingPlan(r)) :
               quarantine[m] = IF m \in EmptyOf(r, "transform_silver") THEN NoSnapshot
                               ELSE LandingPlan(r)[m]

\* What every table holds of month m is snapshot s.
Holds(m, s) == clean[m] = s /\ quarantine[m] = s /\ \A mart \in Marts : gold[mart][m] = s

\* A month no plan was landed for is empty everywhere.
Untouched == \A m \in Months : Events(Landing, m) = {} => Holds(m, NoSnapshot)

\* A run that ended with success reported before any newer plan for one of its
\* months was landed.
Reported ==
    \A r \in Runs : StatusOf(r, "monitor") = "SUCCESS" =>
        /\ phase[r] = "done"
        /\ row[r]["monitor"].at \in 1..clock
        /\ row[r][Landing].at < row[r]["monitor"].at
        /\ \A q \in Runs \ {r} :
               /\ StatusOf(q, Landing) = "SUCCESS"
               /\ row[q][Landing].at > row[r][Landing].at
               /\ Covered(LandingPlan(r)) \cap Covered(LandingPlan(q)) # {}
               => row[q][Landing].at > row[r]["monitor"].at

\* What it reported of a month is there until a newer plan for it is landed.
ReportedHeld ==
    \A r \in Runs, m \in Months : StatusOf(r, "monitor") = "SUCCESS" /\ IsNewest(r, m) =>
        Holds(m, LandingPlan(r)[m])

\* A task that succeeded found its upstream succeeded, not only passed.
UpstreamInv ==
    \A r \in Runs : Taken(r) =>
        \A t \in Task \ {Landing} :
            Place[t] < Place[task[r]] /\ StatusOf(r, t) = "SUCCESS" =>
                StatusOf(r, Upstream[t]) = "SUCCESS"

DirtyInv ==
    /\ SlotFresh /\ QuarantineInv /\ Untouched /\ UpstreamInv
    /\ Reported /\ ReportedHeld

\* Whoever writes a partition has the newest landed plan of its month.
LEMMA WriterNewest ==
    ASSUME TypeOK, IInv, NEW r \in Runs, NEW m \in Months, NEW u,
           <<u, m>> \in todo, active = r, task[r] # Landing
    PROVE  IsNewest(r, m)
<1> USE DEF IInv
<1>1. phase[r] = "busy" /\ m \in Covered(LandingPlan(r))
  BY DEF TodoInv
<1>2. ~Superseded(r, LandingPlan(r)) /\ UpstreamRow(r).status = "SUCCESS"
  BY <1>1 DEF BusyInv
<1>3. StatusOf(r, Landing) = "SUCCESS"
  BY <1>1, <1>2, ReceivedPlan DEF Taken
<1>4. ASSUME NEW q \in Events(Landing, m)
      PROVE  row[q][Landing].at <= row[r][Landing].at
  <2>1. row[q][Landing].at \in Nat /\ row[r][Landing].at \in Nat /\ q \in Runs
    BY ChainOrder DEF Events, TypeOK, RowTypeOK, Row
  <2> QED  BY <1>1, <1>2, <2>1 DEF Superseded, Events, StatusOf, LandingPlan, Landing
<1> QED  BY <1>1, <1>3, <1>4 DEF IsNewest, Events, StatusOf, LandingPlan

LEMMA NewestAlone ==
    ASSUME TypeOK, StampInv, NEW m \in Months, NEW r \in Runs, NEW q \in Runs,
           IsNewest(r, m), q \in Events(Landing, m), q # r
    PROVE  /\ row[q][Landing].at \in Nat /\ row[r][Landing].at \in Nat
           /\ row[q][Landing].at < row[r][Landing].at
<1>1. row[q][Landing].at \in Nat /\ row[r][Landing].at \in Nat
  BY ChainOrder DEF TypeOK, RowTypeOK, Row
<1>2. StatusOf(q, Landing) = "SUCCESS" /\ StatusOf(r, Landing) = "SUCCESS"
  BY DEF IsNewest, Events, StatusOf
<1> QED  BY <1>1, <1>2 DEF IsNewest, StampInv, Passed

\* The tables change only at partitions their writer has yet to write.
LEMMA TableFrame ==
    ASSUME TypeOK, IInv, NEW r \in Runs, Step(r) \/ Fault(r), NEW m \in Months,
           \/ clean'[m] # clean[m] \/ quarantine'[m] # quarantine[m]
           \/ \E mart \in Marts : gold'[mart][m] # gold[mart][m]
    PROVE  /\ active = r /\ task[r] # Landing /\ phase[r] = "busy"
           /\ \E u : <<u, m>> \in todo
           /\ quarantine'[m] # quarantine[m] => /\ task[r] = "transform_silver"
                                                /\ <<"quarantine", m>> \in todo
           /\ row' = row
<1> USE DEF IInv
<1>0. active = r /\ clean \in Plan /\ quarantine \in Plan /\ gold \in [Marts -> Plan]
  BY StepShapes DEF TypeOK, SlotInv
<1>1. CASE \E n \in Months : ReplaceClean(r, n)
  BY <1>0, <1>1 DEF ReplaceClean, At, Landing, Plan, stateVars
<1>2. CASE \E n \in Months : ReplaceQuarantine(r, n)
  BY <1>0, <1>2 DEF ReplaceQuarantine, At, Landing, Plan, stateVars
<1>3. CASE \E mart \in Marts, n \in Months : WriteMart(r, mart, n)
  <2>1. PICK mart \in Marts, n \in Months : WriteMart(r, mart, n)
    BY <1>3
  <2>2. n = m
    BY <1>0, <2>1 DEF WriteMart, silverVars, Plan
  <2> QED  BY <1>0, <2>1, <2>2 DEF WriteMart, At, Landing, silverVars, stateVars
<1>4. CASE ~(\E n \in Months : ReplaceClean(r, n) \/ ReplaceQuarantine(r, n))
           /\ ~(\E mart \in Marts, n \in Months : WriteMart(r, mart, n))
  BY <1>4 DEF Step, Fault, LandingReusesPrior, LandingBegins, LandingEnds,
     LandingUnavailable, PassNoData, RefuseSuperseded, TaskBegins, PreflightEnds,
     BronzeEnds, SilverEnds, GateReplay, GatePasses, GateRejects, GoldEnds,
     ExportEnds, MonitorPasses, MonitorFails, TaskFails, Crash, Begin, Fail,
     lakeVars, silverVars
<1> QED  BY <1>1, <1>2, <1>3, <1>4
-----------------------------------------------------------------------------
LEMMA FreshStep ==
    ASSUME TypeOK, IInv, SlotFresh, RepairSuperseded = FALSE, [Next]_vars
    PROVE  SlotFresh'
<1> USE DEF IInv
<1>1. CASE Quiet
  <2>1. row' = row
    BY <1>1, QuietFrame
  <2>2. ASSUME NEW r \in Runs, InSlot(r)', ~InSlot(r), Passed(StatusOf(r, Landing))
        PROVE  ~Superseded(r, LandingPlan(r))
    <3>1. Start(r) \/ \E t \in Task : Resume(r, t)
      BY <1>1, <2>2 DEF Quiet, Submit, Start, Resume, ChangeSource, InSlot, TypeOK,
         queueVars, vars
    <3>2. ~Start(r)
      BY <2>2 DEF Start, LaunchInv, Passed, Task, Landing
    <3> QED  BY <3>1, <3>2 DEF Resume, LandingPlan, Landing
  <2> QED  BY <2>1, <2>2 DEF SlotFresh, StatusOf, LandingPlan, Superseded
<1>2. ASSUME NEW r \in Runs, Step(r) \/ Fault(r)
      PROVE  SlotFresh'
  <2>1. active = r /\ InSlot(r)
    BY <1>2, StepShapes DEF SlotInv
  <2>2. \A q \in Runs \ {r} : row'[q] = row[q] /\ ~InSlot(q)'
    BY <1>2, <2>1, Frame DEF SlotInv, InSlot
  <2>3. ASSUME Passed(StatusOf(r, Landing))'
        PROVE  ~Superseded(r, LandingPlan(r))'
    <3>1. CASE Passed(StatusOf(r, Landing))
      <4>1. row'[r][Landing] = row[r][Landing]
        BY <1>2, <3>1, LandingStable
      <4>2. ~Superseded(r, LandingPlan(r))
        BY <2>1, <3>1 DEF SlotFresh
      <4> QED  BY <2>2, <4>1, <4>2 DEF Superseded, LandingPlan, Landing
    <3>2. CASE ~Passed(StatusOf(r, Landing))
      <4>1. row'[r][Landing].at = clock + 1 /\ clock \in Nat
        BY <1>2, <2>3, <3>2, LandedStamp DEF TypeOK, RowTypeOK
      <4>2. \A q \in Runs \ {r} : StatusOf(q, Landing) = "SUCCESS" =>
                row[q][Landing].at \in 1..clock
        BY DEF StampInv, Passed
      <4> QED  BY <2>2, <4>1, <4>2 DEF Superseded, StatusOf, Landing
    <3> QED  BY <3>1, <3>2
  <2> QED  BY <2>2, <2>3 DEF SlotFresh
<1>3. Quiet \/ \E r \in Runs : Step(r) \/ Fault(r)
  BY DEF Next, Quiet
<1> QED  BY <1>1, <1>2, <1>3

LEMMA QuarantineRun ==
    ASSUME TypeOK, IInv, QuarantineInv, NEW r \in Runs, Step(r) \/ Fault(r)
    PROVE  QuarantineInv'
<1> USE DEF IInv
<1>0. RowTypeOK /\ active = r
  BY StepShapes DEF TypeOK, SlotInv
<1>t. "transform_silver" \in Task \ {Landing, "monitor"}
  BY DEF Task, Landing
<1>1. ASSUME NEW q \in Runs, ~Superseded(q, LandingPlan(q))',
             row'[q]["transform_silver"] = row[q]["transform_silver"],
             StatusOf(q, "transform_silver") = "SUCCESS"
      PROVE  \A m \in Covered(LandingPlan(q))' :
                 quarantine'[m] = IF m \in EmptyOf(q, "transform_silver")' THEN NoSnapshot
                                  ELSE LandingPlan(q)'[m]
  <2>1. StatusOf(q, Landing) = "SUCCESS" /\ Passed(StatusOf(q, Landing))
    BY <1>1, <1>t DEF PlanInv, Passed
  <2>2. row'[q][Landing] = row[q][Landing]
    BY <2>1, LandingStable
  <2>3. ~Superseded(q, LandingPlan(q))
    BY <1>1, <2>1, LandingStable, SupersededStays
  <2>4. \A m \in Covered(LandingPlan(q)) :
            quarantine[m] = IF m \in EmptyOf(q, "transform_silver") THEN NoSnapshot
                            ELSE LandingPlan(q)[m]
    BY <1>1, <2>3 DEF QuarantineInv
  <2>5. ASSUME NEW m \in Covered(LandingPlan(q)), quarantine'[m] # quarantine[m]
        PROVE  FALSE
    <3>1. /\ task[r] = "transform_silver" /\ phase[r] = "busy" /\ task[r] # Landing
          /\ m \in Months /\ <<"quarantine", m>> \in todo
      BY <2>5, TableFrame DEF Covered
    <3>2. q # r
      BY <1>1, <3>1 DEF BusyInv, StatusOf
    <3> QED  BY <1>0, <2>1, <2>3, <2>5, <3>1, <3>2, WriterIsNewest
  <2> QED  BY <1>1, <2>2, <2>4, <2>5 DEF LandingPlan, EmptyOf, Covered
<1>2. ASSUME row'[r]["transform_silver"] # row[r]["transform_silver"],
             row'[r]["transform_silver"].status = "SUCCESS"
      PROVE  \A m \in Covered(LandingPlan(r))' :
                 quarantine'[m] = IF m \in EmptyOf(r, "transform_silver")' THEN NoSnapshot
                                  ELSE LandingPlan(r)'[m]
  <2>1. /\ task[r] = "transform_silver" /\ phase[r] = "busy" /\ Succeeds(r)
        /\ Received(r).plan = LandingPlan(r) /\ row'[r][Landing] = row[r][Landing]
    BY <1>2, <1>t, SuccessWritten
  <2>2. SilverEnds(r)
    BY <2>1 DEF Succeeds, LandingEnds, PassNoData, PreflightEnds, BronzeEnds, GateReplay,
       GatePasses, GoldEnds, ExportEnds, MonitorPasses, At, Landing
  <2>3. /\ \A m \in Covered(LandingPlan(r)) : quarantine[m] = BronzeBatch(r, m)
        /\ row'[r]["transform_silver"].payload.empty =
               {m \in Covered(LandingPlan(r)) : BronzeBatch(r, m) = NoSnapshot}
        /\ quarantine' = quarantine
    BY <1>0, <1>t, <2>1, <2>2, WriteEffect DEF SilverEnds, Succeed, lakeVars
  <2>4. \A m \in Covered(LandingPlan(r)) :
            BronzeBatch(r, m) \in {LandingPlan(r)[m], NoSnapshot}
    BY <2>1 DEF BronzeBatch
  <2> QED  BY <2>1, <2>3, <2>4 DEF LandingPlan, EmptyOf, Covered
<1>3. \A q \in Runs \ {r} : row'[q] = row[q]
  BY Frame
<1>4. ASSUME NEW q \in Runs, StatusOf(q, "transform_silver")' = "SUCCESS",
             ~Superseded(q, LandingPlan(q))'
      PROVE  \A m \in Covered(LandingPlan(q))' :
                 quarantine'[m] = IF m \in EmptyOf(q, "transform_silver")' THEN NoSnapshot
                                  ELSE LandingPlan(q)'[m]
  <2>1. CASE row'[q]["transform_silver"] = row[q]["transform_silver"]
    BY <1>1, <1>4, <2>1 DEF StatusOf
  <2>2. CASE row'[q]["transform_silver"] # row[q]["transform_silver"]
    BY <1>2, <1>3, <1>4, <2>2 DEF StatusOf
  <2> QED  BY <2>1, <2>2
<1> QED  BY <1>4 DEF QuarantineInv

\* Successful landings stay, so the newest one was there before or has just landed.
LEMMA LandedBefore ==
    ASSUME TypeOK, IInv, [Next]_vars, NEW m \in Months, NEW q \in Runs,
           StatusOf(q, Landing) = "SUCCESS"
    PROVE  /\ row'[q][Landing] = row[q][Landing]
           /\ IsNewest(q, m)' => IsNewest(q, m)
           /\ q \in Events(Landing, m) => q \in Events(Landing, m)'
<1>1. \A x \in Runs : StatusOf(x, Landing) = "SUCCESS" => row'[x][Landing] = row[x][Landing]
  <2>1. CASE LandingsKept
    BY <2>1 DEF LandingsKept
  <2>2. ASSUME NEW r \in Runs, LandedBy(r)
        PROVE  \A x \in Runs : StatusOf(x, Landing) = "SUCCESS" =>
                   row'[x][Landing] = row[x][Landing]
    BY <2>2 DEF LandedBy
  <2> QED  BY <2>1, <2>2, LandingSteps
<1>2. \A x \in Runs : x \in Events(Landing, m) => x \in Events(Landing, m)'
  BY <1>1 DEF Events, StatusOf
<1>3. q \in Events(Landing, m)' => q \in Events(Landing, m)
  BY <1>1 DEF Events, StatusOf
<1>4. \A x \in Events(Landing, m) : x \in Runs /\ row'[x][Landing] = row[x][Landing]
  BY <1>1 DEF Events, StatusOf
<1> QED  BY <1>1, <1>2, <1>3, <1>4 DEF IsNewest

LEMMA UntouchedStep ==
    ASSUME TypeOK, IInv, Untouched, [Next]_vars
    PROVE  Untouched'
<1> USE DEF IInv
<1>1. ASSUME NEW m \in Months, Events(Landing, m)' = {}
      PROVE  Holds(m, NoSnapshot)'
  <2>1. Events(Landing, m) = {}
    <3>1. ASSUME NEW q \in Events(Landing, m) PROVE FALSE
      BY <1>1, <3>1, LandedBefore DEF Events, StatusOf
    <3> QED  BY <3>1
  <2>2. CASE Quiet
    <3>1. UNCHANGED <<clean, quarantine, gold>>
      BY <2>2 DEF Quiet, Submit, Start, Resume, ChangeSource, lakeVars, vars
    <3> QED  BY <2>1, <3>1 DEF Untouched, Holds
  <2>3. ASSUME NEW r \in Runs, Step(r) \/ Fault(r)
        PROVE  Holds(m, NoSnapshot)'
    <3>1. ~(\/ clean'[m] # clean[m] \/ quarantine'[m] # quarantine[m]
            \/ \E mart \in Marts : gold'[mart][m] # gold[mart][m])
      <4>1. ~IsNewest(r, m)
        BY <2>1 DEF IsNewest
      <4> QED  BY <2>3, <4>1, TableFrame, WriterNewest
    <3> QED  BY <2>1, <3>1 DEF Untouched, Holds
  <2> QED  BY <2>2, <2>3 DEF Next, Quiet
<1> QED  BY <1>1 DEF Untouched

LEMMA UpstreamStep ==
    ASSUME TypeOK, IInv, UpstreamInv, [Next]_vars
    PROVE  UpstreamInv'
<1> USE DEF IInv
<1>1. CASE Quiet
  <2>1. row' = row
    BY <1>1, QuietFrame
  <2>2. ASSUME NEW r \in Runs, Taken(r)', NEW t \in Task \ {Landing},
               Place[t] < Place[task'[r]], StatusOf(r, t) = "SUCCESS"
        PROVE  Taken(r) /\ Place[t] < Place[task[r]]
    <3>1. Place[t] \in 1..8 /\ task[r] \in Task /\ Place[task[r]] \in 1..8
      BY ChainOrder DEF TypeOK
    <3>2. phase[r] \notin {"unknown", "queued"}
      BY <2>2 DEF LaunchInv
    <3>3. Taken(r)
      BY <1>1, <2>2, <3>2 DEF Quiet, Submit, Start, Resume, ChangeSource, Taken, TypeOK,
         queueVars, vars
    <3>4. task'[r] = task[r] \/ \E u \in Task : /\ Place[u] <= Place[task[r]]
                                               /\ task'[r] = u
      BY <1>1 DEF Quiet, Submit, Start, Resume, ChangeSource, TypeOK, queueVars, vars
    <3> QED  BY <2>2, <3>1, <3>3, <3>4, ChainOrder
  <2> QED  BY <2>1, <2>2 DEF UpstreamInv, StatusOf
<1>2. ASSUME NEW r \in Runs, Step(r) \/ Fault(r)
      PROVE  UpstreamInv'
  <2>0. Taken(r) /\ task[r] \in Task /\ RowTypeOK
    BY <1>2, StepShapes DEF InSlot, Taken, TypeOK
  <2>1. ASSUME NEW t \in Task \ {Landing}, Place[t] < Place[task'[r]],
               StatusOf(r, t)' = "SUCCESS"
        PROVE  StatusOf(r, Upstream[t])' = "SUCCESS"
    <3>0. /\ Upstream[t] \in Task /\ Place[t] = Place[Upstream[t]] + 1
          /\ Place[t] \in 1..8 /\ Place[Upstream[t]] \in 1..8 /\ Place[task[r]] \in 1..8
      BY <2>0, ChainOrder
    <3>1. CASE Place[t] < Place[task[r]]
      <4>1. t # task[r] /\ Upstream[t] # task[r]
        BY <3>0, <3>1
      <4> QED  BY <1>2, <2>0, <2>1, <3>0, <3>1, <4>1, Frame DEF UpstreamInv, StatusOf
    <3>2. CASE ~(Place[t] < Place[task[r]])
      <4>1. task[r] # "monitor" /\ task'[r] = Successor[task[r]] /\ task'[r] # task[r]
        BY <1>2, <2>1, <3>2, RunMoves
      <4>2. t = task[r]
        BY <2>0, <2>1, <3>0, <3>2, <4>1, ChainOrder
      <4>3. Succeeds(r)
        <5>1. ~Stops(r) /\ ~WritesPartition(r) /\ ~LandingReusesPrior(r)
          BY <2>1, <4>1, <4>2 DEF Stops, WritesPartition, ReplaceClean, ReplaceQuarantine,
             WriteMart, LandingReusesPrior, At
        <5>2. ~Begins(r) /\ ~Fails(r)
          BY <4>1, BeginsShape, FailsShape DEF Begin, Fail
        <5> QED  BY <1>2, <5>1, <5>2, StepShapes
      <4>4. ~PassNoData(r)
        BY <2>0, <2>1, <4>2, WriteEffect DEF PassNoData, Succeed, StatusOf
      <4>5. phase[r] = "busy"
        BY <4>1, <4>3, <4>4 DEF Succeeds, LandingEnds, PreflightEnds, BronzeEnds,
           SilverEnds, GateReplay, GatePasses, GoldEnds, ExportEnds, MonitorPasses, At
      <4>6. UpstreamRow(r).status = "SUCCESS"
        BY <2>1, <4>2, <4>5 DEF BusyInv
      <4>7. row'[r][Upstream[t]] = row[r][Upstream[t]]
        BY <1>2, <3>0, <4>2, Frame
      <4> QED  BY <4>2, <4>6, <4>7 DEF UpstreamRow, StatusOf
    <3> QED  BY <3>1, <3>2
  <2>2. ASSUME NEW q \in Runs \ {r}
        PROVE  phase'[q] = phase[q] /\ task'[q] = task[q] /\ row'[q] = row[q]
    BY <1>2, Frame
  <2>3. ASSUME NEW q \in Runs \ {r}, Taken(q)', NEW t \in Task \ {Landing},
               Place[t] < Place[task'[q]], StatusOf(q, t)' = "SUCCESS"
        PROVE  StatusOf(q, Upstream[t])' = "SUCCESS"
    BY <2>2, <2>3 DEF UpstreamInv, StatusOf, Taken
  <2> QED  BY <2>1, <2>3 DEF UpstreamInv
<1> QED  BY <1>1, <1>2 DEF Next, Quiet

\* A monitor row becomes SUCCESS only where the monitor of a run passes, whose
\* tasks then all succeeded and whose plan is the newest of its months.
LEMMA MonitorWritten ==
    ASSUME TypeOK, IInv, SlotFresh, UpstreamInv, NEW r \in Runs, Step(r) \/ Fault(r),
           row'[r]["monitor"] # row[r]["monitor"], row'[r]["monitor"].status = "SUCCESS"
    PROVE  /\ MonitorPasses(r) /\ phase'[r] = "done"
           /\ row'[r]["monitor"].at = clock + 1 /\ clock' = clock + 1
           /\ row'[r][Landing] = row[r][Landing]
           /\ StatusOf(r, Landing) = "SUCCESS" /\ ~Superseded(r, LandingPlan(r))
           /\ \A t \in {"transform_silver", "dq_gate", "aggregate_gold"} :
                  StatusOf(r, t) = "SUCCESS"
<1> USE DEF IInv
<1>0. RowTypeOK /\ task[r] \in Task /\ "monitor" \in Task /\ Taken(r) /\ InSlot(r)
  BY StepShapes DEF TypeOK, Task, InSlot, Taken
<1>1. task[r] = "monitor"
  BY <1>0, Frame
<1>2. Succeeds(r)
  <2>1. ~Stops(r) /\ ~WritesPartition(r) /\ ~LandingReusesPrior(r)
    BY DEF Stops, WritesPartition, ReplaceClean, ReplaceQuarantine, WriteMart,
       LandingReusesPrior, stateVars
  <2>2. ~Begins(r)
    BY <1>1 DEF Begins, LandingBegins, TaskBegins, Chained, At, Landing
  <2>3. ~Fails(r)
    <3>1. ASSUME NEW p, Fail(r, p) PROVE FALSE
      BY <1>0, <1>1, <3>1, WriteEffect DEF Fail
    <3> QED  BY <3>1, FailsShape
  <2> QED  BY <2>1, <2>2, <2>3, StepShapes
<1>3. MonitorPasses(r)
  BY <1>1, <1>2 DEF Succeeds, LandingEnds, PassNoData, PreflightEnds, BronzeEnds,
     SilverEnds, GateReplay, GatePasses, GoldEnds, ExportEnds, Chained, At, Landing
<1>4. /\ UpstreamRow(r).status = "SUCCESS" /\ phase'[r] = "done"
      /\ row'[r]["monitor"].at = clock + 1 /\ clock' = clock + 1
  BY <1>0, <1>1, <1>3, WriteEffect DEF MonitorPasses, Succeed, Advance, Ordered, TypeOK
<1>5. /\ StatusOf(r, "export_bigquery") = "SUCCESS"
      /\ StatusOf(r, "aggregate_gold") = "SUCCESS"
      /\ StatusOf(r, "dq_gate") = "SUCCESS"
      /\ StatusOf(r, "transform_silver") = "SUCCESS"
  <2>1. StatusOf(r, "export_bigquery") = "SUCCESS"
    BY <1>1, <1>4 DEF UpstreamRow, Upstream, StatusOf
  <2>2. StatusOf(r, "aggregate_gold") = "SUCCESS"
    BY <1>0, <1>1, <2>1 DEF UpstreamInv, Place, Upstream, Task, Landing
  <2>3. StatusOf(r, "dq_gate") = "SUCCESS"
    BY <1>0, <1>1, <2>2 DEF UpstreamInv, Place, Upstream, Task, Landing
  <2>4. StatusOf(r, "transform_silver") = "SUCCESS"
    BY <1>0, <1>1, <2>3 DEF UpstreamInv, Place, Upstream, Task, Landing
  <2> QED  BY <2>1, <2>2, <2>3, <2>4
<1>6. StatusOf(r, Landing) = "SUCCESS" /\ row'[r][Landing] = row[r][Landing]
  BY <1>1, <1>5, Frame, ChainOrder DEF PlanInv, Task, Landing
<1>7. ~Superseded(r, LandingPlan(r))
  BY <1>0, <1>6 DEF SlotFresh, Passed
<1> QED  BY <1>3, <1>4, <1>5, <1>6, <1>7

LEMMA ReportedStep ==
    ASSUME TypeOK, IInv, SlotFresh, UpstreamInv, Reported, [Next]_vars
    PROVE  Reported'
<1> USE DEF IInv
<1>t. "monitor" \in Task \ {Landing} /\ Landing \in Task
  BY DEF Task, Landing
<1>1. CASE Quiet
  <2>1. row' = row /\ clock' = clock
    BY <1>1, QuietFrame
  <2>2. \A r \in Runs : phase[r] = "done" => phase'[r] = "done"
    BY <1>1 DEF Quiet, Submit, Start, Resume, ChangeSource, TypeOK, queueVars, vars
  <2> QED  BY <2>1, <2>2 DEF Reported, StatusOf, LandingPlan
<1>2. ASSUME NEW r \in Runs, Step(r) \/ Fault(r)
      PROVE  Reported'
  <2>1. InSlot(r) /\ clock \in Nat /\ clock' \in {clock, clock + 1}
    BY <1>2, StepShapes, Frame DEF TypeOK, RowTypeOK
  <2>2. \A q \in Runs \ {r} : row'[q] = row[q] /\ phase'[q] = phase[q]
    BY <1>2, Frame
  <2>3. ASSUME NEW q \in Runs \ {r}, StatusOf(q, "monitor") = "SUCCESS"
        PROVE  /\ phase'[q] = "done"
               /\ row'[q]["monitor"].at \in 1..clock'
               /\ row'[q][Landing].at < row'[q]["monitor"].at
               /\ \A x \in Runs \ {q} :
                      /\ row'[x][Landing].status = "SUCCESS"
                      /\ row'[x][Landing].at > row'[q][Landing].at
                      /\ Covered(LandingPlan(q))' \cap Covered(LandingPlan(x))' # {}
                      => row'[x][Landing].at > row'[q]["monitor"].at
    <3>1. /\ phase[q] = "done" /\ row[q]["monitor"].at \in 1..clock
          /\ row[q][Landing].at < row[q]["monitor"].at
      BY <2>3 DEF Reported
    <3>2. ASSUME NEW x \in Runs \ {q}, row'[x][Landing].status = "SUCCESS",
                 row'[x][Landing].at > row'[q][Landing].at,
                 Covered(LandingPlan(q))' \cap Covered(LandingPlan(x))' # {}
          PROVE  row'[x][Landing].at > row'[q]["monitor"].at
      <4>1. CASE row'[x][Landing] = row[x][Landing]
        BY <2>2, <2>3, <3>2, <4>1 DEF Reported, StatusOf, LandingPlan, Covered
      <4>2. CASE row'[x][Landing] # row[x][Landing]
        <5>1. x = r
          BY <2>2, <4>2
        <5>2. ~Passed(StatusOf(r, Landing))
          BY <1>2, <4>2, <5>1, LandingStable
        <5>3. row'[x][Landing].at = clock + 1
          BY <1>2, <3>2, <5>1, <5>2, LandedStamp DEF StatusOf, Passed
        <5> QED  BY <2>1, <2>2, <3>1, <5>3
      <4> QED  BY <4>1, <4>2
    <3> QED  BY <2>1, <2>2, <3>1, <3>2
  <2>4. ASSUME row'[r]["monitor"].status = "SUCCESS"
        PROVE  /\ phase'[r] = "done"
               /\ row'[r]["monitor"].at \in 1..clock'
               /\ row'[r][Landing].at < row'[r]["monitor"].at
               /\ \A x \in Runs \ {r} :
                      /\ row'[x][Landing].status = "SUCCESS"
                      /\ row'[x][Landing].at > row'[r][Landing].at
                      /\ Covered(LandingPlan(r))' \cap Covered(LandingPlan(x))' # {}
                      => row'[x][Landing].at > row'[r]["monitor"].at
    <3>1. row'[r]["monitor"] # row[r]["monitor"]
      BY <2>1, <2>4 DEF Reported, StatusOf, InSlot
    <3>2. /\ phase'[r] = "done" /\ row'[r]["monitor"].at = clock + 1 /\ clock' = clock + 1
          /\ row'[r][Landing] = row[r][Landing]
          /\ StatusOf(r, Landing) = "SUCCESS" /\ ~Superseded(r, LandingPlan(r))
      BY <1>2, <2>4, <3>1, MonitorWritten
    <3>3. row[r][Landing].at \in 1..clock
      BY <3>2 DEF StampInv, Passed
    <3>4. \A x \in Runs \ {r} :
              ~(/\ row'[x][Landing].status = "SUCCESS"
                /\ row'[x][Landing].at > row'[r][Landing].at
                /\ Covered(LandingPlan(r))' \cap Covered(LandingPlan(x))' # {})
      BY <2>2, <3>2 DEF Superseded, LandingPlan, Covered, Landing
    <3> QED  BY <2>1, <3>2, <3>3, <3>4
  <2> QED  BY <2>2, <2>3, <2>4 DEF Reported, StatusOf
<1> QED  BY <1>1, <1>2 DEF Next, Quiet

LEMMA ReportedHeldStep ==
    ASSUME TypeOK, IInv, HandoffInv, DirtyInv, [Next]_vars
    PROVE  ReportedHeld'
<1> USE DEF IInv, DirtyInv
<1>t. "monitor" \in Task \ {Landing} /\ Landing \in Task
  BY DEF Task, Landing
<1>1. CASE Quiet
  <2>1. UNCHANGED <<row, clean, quarantine, gold>>
    BY <1>1, QuietFrame DEF Quiet, Submit, Start, Resume, ChangeSource, lakeVars, vars
  <2> QED  BY <2>1 DEF ReportedHeld, Holds, IsNewest, Events, StatusOf, LandingPlan
<1>2. ASSUME NEW r \in Runs, Step(r) \/ Fault(r)
      PROVE  ReportedHeld'
  <2>1. InSlot(r)
    BY <1>2, StepShapes
  <2>2. \A q \in Runs \ {r} : row'[q] = row[q]
    BY <1>2, Frame
  <2>3. ASSUME NEW q \in Runs \ {r}, NEW m \in Months,
               StatusOf(q, "monitor") = "SUCCESS", IsNewest(q, m)'
        PROVE  Holds(m, LandingPlan(q)[m])'
    <3>1. StatusOf(q, Landing) = "SUCCESS"
      BY <1>t, <2>3 DEF PlanInv
    <3>2. IsNewest(q, m) /\ LandingPlan(q)' = LandingPlan(q)
      BY <2>2, <2>3, <3>1, LandedBefore DEF LandingPlan
    <3>3. Holds(m, LandingPlan(q)[m])
      BY <2>3, <3>2 DEF ReportedHeld
    <3>4. ~IsNewest(r, m)
      <4>1. ASSUME IsNewest(r, m) PROVE FALSE
        <5>1. r \in Events(Landing, m) /\ q \in Events(Landing, m)
          BY <3>2, <4>1 DEF IsNewest
        <5> QED  BY <3>2, <4>1, <5>1, NewestAlone
      <4> QED  BY <4>1
    <3>5. ~(\/ clean'[m] # clean[m] \/ quarantine'[m] # quarantine[m]
            \/ \E mart \in Marts : gold'[mart][m] # gold[mart][m])
      BY <1>2, <3>4, TableFrame, WriterNewest
    <3> QED  BY <3>2, <3>3, <3>5 DEF Holds
  <2>4. ASSUME row'[r]["monitor"].status = "SUCCESS", NEW m \in Months, IsNewest(r, m)'
        PROVE  Holds(m, LandingPlan(r)[m])'
    <3>1. row'[r]["monitor"] # row[r]["monitor"]
      BY <2>1, <2>4 DEF Reported, StatusOf, InSlot
    <3>2. /\ MonitorPasses(r) /\ row'[r][Landing] = row[r][Landing]
          /\ StatusOf(r, Landing) = "SUCCESS" /\ ~Superseded(r, LandingPlan(r))
          /\ \A t \in {"transform_silver", "dq_gate", "aggregate_gold"} :
                 StatusOf(r, t) = "SUCCESS"
      BY <1>2, <2>4, <3>1, MonitorWritten
    <3>3. UNCHANGED <<clean, quarantine, gold>>
      BY <3>2 DEF MonitorPasses, lakeVars
    <3>4. m \in Covered(LandingPlan(r)) /\ LandingPlan(r)' = LandingPlan(r)
      BY <2>4, <3>2 DEF IsNewest, Events, LandingPlan
    <3>5. EmptyOf(r, "transform_silver") = {}
      BY <2>1, <3>2 DEF GateInv, MonitorPasses, At, Place, InSlot, Taken
    <3>6. clean[m] = LandingPlan(r)[m] /\ quarantine[m] = LandingPlan(r)[m]
      BY <3>2, <3>4, <3>5 DEF SilverInv, QuarantineInv
    <3>7. \A mart \in Marts : gold[mart][m] = LandingPlan(r)[m]
      BY <3>2, <3>4 DEF HandoffInv, GoldHeld
    <3> QED  BY <3>3, <3>4, <3>6, <3>7 DEF Holds
  <2> QED  BY <2>2, <2>3, <2>4 DEF ReportedHeld, StatusOf
<1> QED  BY <1>1, <1>2 DEF Next, Quiet

LEMMA DirtyInvCorrect ==
    ASSUME LandsOnce, RepairSuperseded = FALSE
    PROVE  Spec => []DirtyInv
<1>1. Init => DirtyInv
  <2> SUFFICES ASSUME Init PROVE DirtyInv
    OBVIOUS
  <2>1. \A r \in Runs, t \in Task : StatusOf(r, t) = "ABSENT" /\ phase[r] = "unknown"
    BY DEF Init, RowInit, AbsentRow, StatusOf
  <2>2. Untouched
    BY DEF Init, Untouched, Holds, NoPlan
  <2> QED  BY <2>1, <2>2 DEF DirtyInv, SlotFresh, QuarantineInv, UpstreamInv, Reported,
           ReportedHeld, InSlot, Taken, Task
<1>2. TypeOK /\ IInv /\ HandoffInv /\ DirtyInv /\ [Next]_vars => DirtyInv'
  <2> SUFFICES ASSUME TypeOK, IInv, HandoffInv, DirtyInv, [Next]_vars PROVE DirtyInv'
    OBVIOUS
  <2>1. SlotFresh' /\ Untouched' /\ UpstreamInv' /\ Reported' /\ ReportedHeld'
    BY FreshStep, UntouchedStep, UpstreamStep, ReportedStep, ReportedHeldStep DEF DirtyInv
  <2>2. QuarantineInv'
    <3>1. CASE Quiet
      BY <3>1 DEF Quiet, Submit, Start, Resume, ChangeSource, stateVars, lakeVars, vars,
         DirtyInv, QuarantineInv, StatusOf, EmptyOf, LandingPlan, Superseded
    <3> QED  BY <3>1, QuarantineRun DEF Next, Quiet, DirtyInv
  <2> QED  BY <2>1, <2>2 DEF DirtyInv
<1> QED  BY <1>1, <1>2, TypeCorrect, InvCorrect, HandoffCorrect, PTL DEF Spec

\* The run with the newest plan of a month that is not dirty is the one the
\* newest monitor row of that month names.
LEMMA CleanMonth ==
    ASSUME TypeOK, IInv, DirtyInv, NEW m \in Months \ DirtyMonths,
           NEW r \in Runs, IsNewest(r, m)
    PROVE  StatusOf(r, "monitor") = "SUCCESS" /\ Published(m) = LandingPlan(r)[m]
<1> USE DEF IInv, DirtyInv
<1> DEFINE E == Events("monitor", m)
           P(q) == \A x \in E : row[x]["monitor"].at <= row[q]["monitor"].at
<1>t. "monitor" \in Task \ {Landing} /\ Landing \in Task
  BY DEF Task, Landing
<1>1. \A q \in Runs : row[q]["monitor"].at \in Nat /\ row[q][Landing].at \in Nat
  BY <1>t DEF TypeOK, RowTypeOK, Row
<1>2. ASSUME NEW q \in E
      PROVE  /\ q \in Runs /\ StatusOf(q, "monitor") = "SUCCESS" /\ q \in Events(Landing, m)
             /\ PlanOf(q, "monitor") = LandingPlan(q)
  <2>1. q \in Runs /\ StatusOf(q, "monitor") = "SUCCESS"
    BY DEF Events, StatusOf
  <2>2. PlanOf(q, "monitor") = LandingPlan(q) /\ StatusOf(q, Landing) = "SUCCESS"
    BY <1>t, <2>1 DEF PlanInv
  <2> QED  BY <2>1, <2>2 DEF Events, PlanOf, StatusOf, LandingPlan
<1>3. ASSUME NEW q \in E, q # r
      PROVE  row[q]["monitor"].at < row[r][Landing].at
  <2>1. row[q][Landing].at < row[r][Landing].at
    BY <1>2, <1>3, NewestAlone
  <2>2. StatusOf(r, Landing) = "SUCCESS" /\ m \in Covered(LandingPlan(r))
    BY DEF IsNewest, Events, StatusOf, LandingPlan
  <2>3. m \in Covered(LandingPlan(q))
    BY <1>2 DEF Events, LandingPlan
  <2> QED  BY <1>1, <1>2, <1>3, <2>1, <2>2, <2>3 DEF Reported
<1>4. r \in E
  <2>1. PICK q \in E : ~(row[q]["monitor"].at < row[r][Landing].at)
    BY DEF DirtyMonths, IsNewest, Landing
  <2> QED  BY <1>3, <2>1
<1>5. row[r][Landing].at < row[r]["monitor"].at
  BY <1>2, <1>4 DEF Reported
<1>6. P(r)
  BY <1>1, <1>2, <1>3, <1>4, <1>5
<1>7. ASSUME NEW q \in E, P(q)
      PROVE  q = r
  BY <1>1, <1>2, <1>3, <1>4, <1>5, <1>7
<1>8. Newest("monitor", E) = r
  <2>1. Newest("monitor", E) = CHOOSE q \in E : P(q)
    BY DEF Newest
  <2> HIDE DEF E, P
  <2>2. (CHOOSE q \in E : P(q)) \in E /\ P(CHOOSE q \in E : P(q))
    BY <1>4, <1>6, Zenon
  <2> QED  BY <1>7, <2>1, <2>2
<1> QED  BY <1>2, <1>4, <1>8 DEF Published, PlanOf

\* A month the state table does not call dirty is held by both Silver tables and
\* every mart as published, when operators leave superseded runs alone.
THEOREM DirtyCovers ==
    ASSUME LandsOnce, RepairSuperseded = FALSE
    PROVE  Spec => []DirtyCoversMutation
<1>1. TypeOK /\ IInv /\ NewestInv /\ DirtyInv => DirtyCoversMutation
  <2> SUFFICES ASSUME TypeOK, IInv, NewestInv, DirtyInv, NEW m \in Months \ DirtyMonths
               PROVE  Holds(m, Published(m))
    BY DEF DirtyCoversMutation, Holds
  <2>1. CASE Events(Landing, m) = {}
    <3>1. Events("monitor", m) = {}
      BY <2>1 DEF Events, IInv, PlanInv, StatusOf, PlanOf, LandingPlan, Task, Landing
    <3> QED  BY <2>1, <3>1 DEF DirtyInv, Untouched, Published
  <2>2. CASE Events(Landing, m) # {}
    <3>1. PICK r \in Runs : IsNewest(r, m)
      BY <2>2 DEF NewestInv
    <3>2. StatusOf(r, "monitor") = "SUCCESS" /\ Published(m) = LandingPlan(r)[m]
      BY <3>1, CleanMonth
    <3> QED  BY <3>1, <3>2 DEF DirtyInv, ReportedHeld
  <2> QED  BY <2>1, <2>2
<1> QED  BY <1>1, TypeCorrect, InvCorrect, NewestCorrect, DirtyInvCorrect, PTL

\* A landing row turns NO_DATA only where the landing ends with an empty plan.
LEMMA NoDataLanded ==
    ASSUME TypeOK, IInv, [Next]_vars, NEW r \in Runs,
           StatusOf(r, Landing) = "RUNNING", row'[r][Landing].status = "NO_DATA"
    PROVE  LandingEnds(r) /\ LandedPlan(r) = NoPlan /\ phase[r] = "busy"
<1> USE DEF IInv
<1>t. Landing \in Task
  BY DEF Task, Landing
<1>1. row'[r][Landing] # row[r][Landing]
  BY DEF StatusOf
<1>2. Step(r) \/ Fault(r)
  <2>1. ~Quiet
    BY <1>1, QuietFrame
  <2>2. PICK x \in Runs : Step(x) \/ Fault(x)
    BY <2>1 DEF Next, Quiet
  <2> QED  BY <1>1, <2>2, Frame
<1>3. RowTypeOK /\ task[r] = Landing
  BY <1>1, <1>2, <1>t, Frame DEF TypeOK
<1>4. Succeeds(r)
  <2>1. ~Stops(r) /\ ~WritesPartition(r) /\ ~LandingReusesPrior(r)
    BY <1>1 DEF Stops, WritesPartition, ReplaceClean, ReplaceQuarantine, WriteMart,
       LandingReusesPrior, stateVars
  <2>2. ~Begins(r)
    <3>1. ASSUME NEW p, NEW work, Begin(r, p, work) PROVE FALSE
      BY <1>3, <1>t, <3>1, WriteEffect DEF Begin
    <3> QED  BY <3>1, BeginsShape
  <2>3. ~Fails(r)
    <3>1. ASSUME NEW p, Fail(r, p) PROVE FALSE
      BY <1>3, <1>t, <3>1, WriteEffect DEF Fail
    <3> QED  BY <3>1, FailsShape
  <2> QED  BY <1>2, <2>1, <2>2, <2>3, StepShapes
<1>5. LandingEnds(r) /\ phase[r] = "busy"
  BY <1>3, <1>4 DEF Succeeds, LandingEnds, PassNoData, PreflightEnds, BronzeEnds,
     SilverEnds, GateReplay, GatePasses, GoldEnds, ExportEnds, MonitorPasses, Chained,
     At, Landing
<1>6. row'[r][Landing].status = IF LandedPlan(r) # NoPlan THEN "SUCCESS" ELSE "NO_DATA"
  BY <1>3, <1>5, <1>t, WriteEffect DEF LandingEnds, Succeed
<1> QED  BY <1>5, <1>6

\* When a landing reports NO_DATA, Gold serves for every month of the window the
\* file TLC served when it was fetched: no correction is skipped.
THEOREM NoDataIsCurrent ==
    ASSUME LandsOnce, RepairSuperseded = FALSE
    PROVE  Spec => NoDataMeansCurrent
<1>1. TypeOK /\ IInv /\ DirtyCoversMutation /\ [Next]_vars =>
          [\A r \in Runs :
               row[r][Landing].status = "RUNNING" /\ row'[r][Landing].status = "NO_DATA" =>
                   \A m \in Months, mart \in Marts :
                       Fetched(r, m) \in {NoSnapshot, gold[mart][m]}]_vars
  <2> SUFFICES ASSUME TypeOK, IInv, DirtyCoversMutation, [Next]_vars, NEW r \in Runs,
                      row[r][Landing].status = "RUNNING",
                      row'[r][Landing].status = "NO_DATA",
                      NEW m \in Months, NEW mart \in Marts, Fetched(r, m) # NoSnapshot
               PROVE  Fetched(r, m) = gold[mart][m]
    OBVIOUS
  <2>1. LandingEnds(r) /\ LandedPlan(r) = NoPlan /\ phase[r] = "busy"
    BY NoDataLanded DEF StatusOf
  <2>2. request[r] \in Requests /\ request[r] \in Request
    BY <2>1 DEF IInv, LaunchInv, TypeOK
  <2>3. \A n \in Expected(r) :
            /\ request[r].backfill => Fetched(r, n) = NoSnapshot
            /\ \/ n \notin DirtyMonths /\ Published(n) = Fetched(r, n)
               \/ Fetched(r, n) = NoSnapshot
    <3>1. ASSUME NEW n \in Expected(r)
          PROVE  n \in Months /\ LandedPlan(r)[n] = NoSnapshot
      BY <2>1, <2>2, <3>1 DEF Expected, Request, NoPlan
    <3> QED  BY <3>1 DEF LandedPlan
  <2>4. ~request[r].backfill
    <3>1. ASSUME request[r].backfill PROVE FALSE
      <4>1. PICK n \in Expected(r) : TRUE
        BY <2>2, <3>1 DEF Expected
      <4>2. n \in Missing(r) /\ ~MayBeMissing(r, n)
        BY <2>3, <3>1, <4>1 DEF Missing, MayBeMissing
      <4> QED  BY <2>1, <4>2 DEF LandingEnds
    <3> QED  BY <3>1
  <2> QED  BY <2>3, <2>4 DEF Expected, DirtyCoversMutation
<1> QED  BY <1>1, TypeCorrect, InvCorrect, DirtyCovers, PTL DEF NoDataMeansCurrent, Spec
-----------------------------------------------------------------------------
(***************************************************************************)
(* What a run that is done has done, as the workflow that launched it      *)
(* takes it: the months it was asked for, from the gate to the handoff.    *)
(***************************************************************************)
\* After ingest_bronze every object of the plan is in Bronze, unless it is
\* nowhere Auto Loader looks.
IngestedInv ==
    \A r \in Runs : StatusOf(r, "ingest_bronze") = "SUCCESS" =>
        \A m \in Covered(LandingPlan(r)) :
            LandingPlan(r)[m] \in Strays \/ <<m, LandingPlan(r)[m]>> \in bronze

\* Only such months are empty in any row, and NO_DATA means that all are.
EmptyInv ==
    \A r \in Runs, t \in Task : StatusOf(r, t) # "ABSENT" =>
        /\ \A m \in EmptyOf(r, t) : LandingPlan(r)[m] \in Strays
        /\ StatusOf(r, t) = "NO_DATA" => EmptyOf(r, t) = Covered(PlanOf(r, t))

\* The landed plan of a backfill is for the months it was launched with.
AskedInv ==
    \A r \in Runs : Passed(StatusOf(r, Landing)) /\ request[r].backfill =>
        Covered(LandingPlan(r)) = request[r].months

\* A run that is done passed over its plan, or took it through the gate and
\* handed it over.
DoneInv ==
    \A r \in Runs : phase[r] = "done" =>
        /\ Passed(StatusOf(r, Landing))
        /\ \/ StatusOf(r, "monitor") = "NO_DATA"
           \/ /\ StatusOf(r, "export_bigquery") = "SUCCESS"
              /\ \A m \in Covered(LandingPlan(r)) : LandingPlan(r)[m] \in Good

ServedInv == UpstreamInv /\ IngestedInv /\ EmptyInv /\ AskedInv /\ DoneInv

\* What a step writes into the row of its task. A payload without empty months
\* comes from the landing, and from a task that has nothing to pass on.
LEMMA WrittenPayload ==
    ASSUME TypeOK, IInv, NEW r \in Runs, Step(r) \/ Fault(r), row' # row
    PROVE  /\ row'[r][task[r]].status = "NO_DATA" =>
                  row'[r][task[r]].payload.empty = Covered(row'[r][task[r]].payload.plan)
           /\ \/ row'[r][task[r]].payload.empty = {}
              \/ task[r] # Landing /\ row'[r][task[r]].payload = Received(r)
              \/ SilverEnds(r)
<1>0. RowTypeOK /\ task[r] \in Task
  BY DEF TypeOK
<1>1. ~Stops(r) /\ ~WritesPartition(r) /\ ~LandingReusesPrior(r)
  BY DEF Stops, WritesPartition, ReplaceClean, ReplaceQuarantine, WriteMart,
     LandingReusesPrior, stateVars
<1>2. ASSUME NEW status, NEW p, Write(r, task[r], status, p)
      PROVE  row'[r][task[r]].status = status /\ row'[r][task[r]].payload = p
  BY <1>0, <1>2, WriteEffect
<1>3. CASE Begins(r)
  <2>1. \E p : /\ Write(r, task[r], "RUNNING", p)
               /\ p = NoPayload \/ (task[r] # Landing /\ p = Received(r))
    BY <1>3 DEF Begins, LandingBegins, TaskBegins, Chained, Landing, Begin
  <2> QED  BY <1>2, <2>1 DEF NoPayload
<1>4. CASE Fails(r)
  <2>1. \E p : /\ Write(r, task[r], "FAILED", p)
               /\ p = NoPayload \/ (task[r] # Landing /\ p = Received(r))
    BY <1>4 DEF Fails, LandingUnavailable, TaskFails, GateRejects, MonitorFails, At,
       Landing, Fail
  <2> QED  BY <1>2, <2>1 DEF NoPayload
<1>5. CASE LandingEnds(r)
  <2>1. PICK status, p : Write(r, task[r], status, p) /\ p.empty = {} /\ ValidState(status, p)
    BY <1>5 DEF LandingEnds, Succeed
  <2>2. row'[r][task[r]].status = status /\ row'[r][task[r]].payload = p
    BY <1>2, <2>1
  <2> QED  BY <2>1, <2>2 DEF ValidState
<1>6. CASE SilverEnds(r)
  <2>1. PICK p : Write(r, task[r], "SUCCESS", p)
    BY <1>6 DEF SilverEnds, Succeed
  <2> QED  BY <1>2, <1>6, <2>1
<1>7. CASE Succeeds(r) /\ ~LandingEnds(r) /\ ~SilverEnds(r)
  <2>1. PICK s : Succeed(r, s, Received(r)) /\ task[r] # Landing
    BY <1>7 DEF Succeeds, PassNoData, PreflightEnds, BronzeEnds, GateReplay,
       GatePasses, GoldEnds, ExportEnds, MonitorPasses, At, Chained, Landing
  <2>2. Write(r, task[r], s, Received(r)) /\ ValidState(s, Received(r))
    BY <2>1 DEF Succeed
  <2> QED  BY <1>2, <2>1, <2>2 DEF ValidState
<1> QED  BY <1>1, <1>3, <1>4, <1>5, <1>6, <1>7, StepShapes DEF IInv

\* Only ingest_bronze touches Bronze, and it takes nothing away.
LEMMA BronzeFrame ==
    ASSUME NEW r \in Runs, Step(r) \/ Fault(r)
    PROVE  bronze \subseteq bronze'
<1>1. CASE BronzeEnds(r)
  BY <1>1 DEF BronzeEnds
<1> QED  BY <1>1 DEF Step, Fault, LandingReusesPrior, LandingBegins, LandingEnds,
         LandingUnavailable, PassNoData, RefuseSuperseded, TaskBegins, PreflightEnds,
         ReplaceClean, ReplaceQuarantine, SilverEnds, GateReplay, GatePasses, GateRejects,
         WriteMart, GoldEnds, ExportEnds, MonitorPasses, MonitorFails, TaskFails, Crash,
         Begin, Fail, lakeVars, silverVars

LEMMA IngestedRun ==
    ASSUME TypeOK, IInv, IngestedInv, NEW r \in Runs, Step(r) \/ Fault(r)
    PROVE  IngestedInv'
<1> USE DEF IInv
<1>t. "ingest_bronze" \in Task \ {Landing, "monitor"}
  BY DEF Task, Landing
<1>1. ASSUME NEW q \in Runs, row'[q]["ingest_bronze"] = row[q]["ingest_bronze"],
             StatusOf(q, "ingest_bronze") = "SUCCESS", NEW m \in Covered(LandingPlan(q))'
      PROVE  LandingPlan(q)'[m] \in Strays \/ <<m, LandingPlan(q)'[m]>> \in bronze'
  <2>1. Passed(StatusOf(q, Landing))
    BY <1>1, <1>t DEF PlanInv
  <2>2. LandingPlan(q)' = LandingPlan(q) /\ m \in Covered(LandingPlan(q))
    BY <2>1, LandingStable DEF LandingPlan, Covered
  <2> QED  BY <1>1, <2>2, BronzeFrame DEF IngestedInv
<1>2. ASSUME row'[r]["ingest_bronze"] # row[r]["ingest_bronze"],
             row'[r]["ingest_bronze"].status = "SUCCESS", NEW m \in Covered(LandingPlan(r))'
      PROVE  LandingPlan(r)'[m] \in Strays \/ <<m, LandingPlan(r)'[m]>> \in bronze'
  <2>1. /\ task[r] = "ingest_bronze" /\ phase[r] = "busy" /\ Succeeds(r)
        /\ Received(r).plan = LandingPlan(r) /\ row'[r][Landing] = row[r][Landing]
    BY <1>2, <1>t, SuccessWritten
  <2>2. BronzeEnds(r)
    BY <2>1 DEF Succeeds, LandingEnds, PassNoData, PreflightEnds, SilverEnds, GateReplay,
       GatePasses, GoldEnds, ExportEnds, MonitorPasses, At, Landing
  <2>3. LandingPlan(r)' = LandingPlan(r) /\ m \in Months /\ LandingPlan(r)[m] # NoSnapshot
    BY <2>1 DEF LandingPlan, Covered
  <2>4. LandingPlan(r)[m] \in Snapshots
    BY <2>3, ChainOrder DEF LandingPlan, TypeOK, RowTypeOK, Row, Payload, Plan
  <2> QED  BY <2>1, <2>2, <2>3, <2>4 DEF BronzeEnds, Ingested
<1>3. \A q \in Runs \ {r} : row'[q] = row[q]
  BY Frame
<1>4. ASSUME NEW q \in Runs, StatusOf(q, "ingest_bronze")' = "SUCCESS",
             NEW m \in Covered(LandingPlan(q))'
      PROVE  LandingPlan(q)'[m] \in Strays \/ <<m, LandingPlan(q)'[m]>> \in bronze'
  <2>1. CASE row'[q]["ingest_bronze"] = row[q]["ingest_bronze"]
    BY <1>1, <1>4, <2>1 DEF StatusOf
  <2>2. CASE row'[q]["ingest_bronze"] # row[q]["ingest_bronze"]
    BY <1>2, <1>3, <1>4, <2>2 DEF StatusOf
  <2> QED  BY <2>1, <2>2
<1> QED  BY <1>4 DEF IngestedInv

\* The row a task received from is not absent, and says of the same plan what
\* is empty.
LEMMA EmptyReceived ==
    ASSUME TypeOK, IInv, EmptyInv, NEW r \in Runs, Taken(r), task[r] # Landing
    PROVE  \A m \in Received(r).empty : LandingPlan(r)[m] \in Strays
<1>1. task[r] \in Task \ {Landing}
  BY DEF TypeOK
<1>2. Place[Upstream[task[r]]] < Place[task[r]] /\ Upstream[task[r]] \in Task
  BY <1>1, ChainOrder
<1>3. Passed(StatusOf(r, Upstream[task[r]]))
  BY <1>2 DEF IInv, ChainInv
<1>4. StatusOf(r, Upstream[task[r]]) # "ABSENT"
  BY <1>3 DEF Passed
<1> QED  BY <1>2, <1>4 DEF EmptyInv, EmptyOf, Received, UpstreamRow

LEMMA EmptyRun ==
    ASSUME TypeOK, IInv, IngestedInv, EmptyInv, NEW r \in Runs, Step(r) \/ Fault(r)
    PROVE  EmptyInv'
<1> USE DEF IInv
<1>0. RowTypeOK /\ task[r] \in Task /\ Taken(r)
  BY StepShapes DEF TypeOK, InSlot, Taken
<1>1. ASSUME NEW q \in Runs, NEW t \in Task, row'[q][t] = row[q][t], StatusOf(q, t) # "ABSENT"
      PROVE  /\ \A m \in EmptyOf(q, t)' : LandingPlan(q)'[m] \in Strays
             /\ StatusOf(q, t)' = "NO_DATA" => EmptyOf(q, t)' = Covered(PlanOf(q, t))'
  <2>1. LandingPlan(q)' = LandingPlan(q)
    <3>1. CASE t = Landing
      BY <1>1, <3>1 DEF LandingPlan
    <3>2. CASE t # Landing
      BY <1>1, <3>2, LandingStable DEF PlanInv, LandingPlan
    <3> QED  BY <3>1, <3>2
  <2> QED  BY <1>1, <2>1 DEF EmptyInv, EmptyOf, StatusOf, PlanOf, Covered
<1>2. ASSUME row'[r][task[r]] # row[r][task[r]]
      PROVE  /\ \A m \in row'[r][task[r]].payload.empty : LandingPlan(r)'[m] \in Strays
             /\ row'[r][task[r]].status = "NO_DATA" =>
                    row'[r][task[r]].payload.empty = Covered(row'[r][task[r]].payload.plan)
  <2>1. /\ row'[r][task[r]].status = "NO_DATA" =>
               row'[r][task[r]].payload.empty = Covered(row'[r][task[r]].payload.plan)
        /\ \/ row'[r][task[r]].payload.empty = {}
           \/ task[r] # Landing /\ row'[r][task[r]].payload = Received(r)
           \/ SilverEnds(r)
    BY <1>2, WrittenPayload
  <2>2. task[r] # Landing => LandingPlan(r)' = LandingPlan(r)
    BY Frame, ChainOrder DEF LandingPlan
  <2>3. ASSUME SilverEnds(r), NEW m \in row'[r][task[r]].payload.empty
        PROVE  LandingPlan(r)[m] \in Strays /\ task[r] # Landing
    <3>1. task[r] = "transform_silver" /\ phase[r] = "busy" /\ task[r] # Landing
      BY <2>3 DEF SilverEnds, At, Landing
    <3>2. Received(r).plan = LandingPlan(r)
      BY <1>0, <3>1, ReceivedPlan
    <3>3. StatusOf(r, "ingest_bronze") = "SUCCESS"
      BY <3>1 DEF BusyInv, UpstreamRow, Upstream, StatusOf
    <3>4. m \in Covered(LandingPlan(r)) /\ BronzeBatch(r, m) = NoSnapshot
      BY <1>0, <2>3, <3>2, WriteEffect DEF SilverEnds, Succeed
    <3>5. LandingPlan(r)[m] # NoSnapshot
      BY <3>4 DEF Covered
    <3> QED  BY <3>1, <3>2, <3>3, <3>4, <3>5 DEF IngestedInv, BronzeBatch
  <2>4. ASSUME NEW m \in row'[r][task[r]].payload.empty
        PROVE  LandingPlan(r)'[m] \in Strays
    <3>1. CASE SilverEnds(r)
      BY <2>2, <2>3, <2>4, <3>1
    <3>2. CASE task[r] # Landing /\ row'[r][task[r]].payload = Received(r)
      BY <1>0, <2>2, <2>4, <3>2, EmptyReceived
    <3> QED  BY <2>1, <2>4, <3>1, <3>2
  <2> QED  BY <2>1, <2>4
<1>3. ASSUME NEW q \in Runs, NEW t \in Task, ~(q = r /\ t = task[r])
      PROVE  row'[q][t] = row[q][t]
  BY <1>3, Frame
<1>4. ASSUME NEW q \in Runs, NEW t \in Task, StatusOf(q, t)' # "ABSENT"
      PROVE  /\ \A m \in EmptyOf(q, t)' : LandingPlan(q)'[m] \in Strays
             /\ StatusOf(q, t)' = "NO_DATA" => EmptyOf(q, t)' = Covered(PlanOf(q, t))'
  <2>1. CASE row'[q][t] = row[q][t]
    BY <1>1, <1>4, <2>1 DEF StatusOf
  <2>2. CASE row'[q][t] # row[q][t]
    <3>1. q = r /\ t = task[r]
      BY <1>3, <2>2
    <3>2. row'[r][task[r]] # row[r][task[r]]
      BY <2>2, <3>1
    <3>3. EmptyOf(q, t)' = row'[r][task[r]].payload.empty /\ LandingPlan(q)' = LandingPlan(r)'
      BY <3>1 DEF EmptyOf
    <3>4. \A m \in EmptyOf(q, t)' : LandingPlan(q)'[m] \in Strays
      BY <1>2, <3>1, <3>2, <3>3
    <3>5. StatusOf(q, t)' = "NO_DATA" => EmptyOf(q, t)' = Covered(PlanOf(q, t))'
      BY <1>2, <3>1, <3>2, <3>3 DEF StatusOf, PlanOf, Covered
    <3> QED  BY <3>4, <3>5
  <2> QED  BY <2>1, <2>2
<1> QED  BY <1>4 DEF EmptyInv

LEMMA AskedRun ==
    ASSUME TypeOK, IInv, LandsOnce, AskedInv, NEW r \in Runs, Step(r) \/ Fault(r)
    PROVE  AskedInv'
<1>0. request' = request /\ \A q \in Runs \ {r} : row'[q] = row[q]
  BY Frame DEF IInv
<1>1. ASSUME NEW q \in Runs, Passed(StatusOf(q, Landing)), request[q].backfill
      PROVE  Covered(LandingPlan(q))' = request[q].months
  <2>1. LandingPlan(q)' = LandingPlan(q)
    BY <1>1, LandingStable DEF LandingPlan
  <2> QED  BY <1>1, <2>1 DEF AskedInv, Covered
<1>2. ASSUME NEW q \in Runs, Passed(StatusOf(q, Landing))', request[q].backfill
      PROVE  Covered(LandingPlan(q))' = request[q].months
  <2>1. CASE q = r /\ ~Passed(StatusOf(r, Landing))
    BY <1>2, <2>1, LandedAsAsked
  <2>2. CASE ~(q = r /\ ~Passed(StatusOf(r, Landing)))
    BY <1>0, <1>1, <1>2, <2>2 DEF StatusOf
  <2> QED  BY <2>1, <2>2
<1> QED  BY <1>0, <1>2 DEF AskedInv

LEMMA DoneRun ==
    ASSUME TypeOK, IInv, UpstreamInv, DoneInv, NEW r \in Runs, Step(r) \/ Fault(r)
    PROVE  DoneInv'
<1> USE DEF IInv
<1>0. RowTypeOK /\ task[r] \in Task /\ Taken(r) /\ InSlot(r)
  BY StepShapes DEF TypeOK, InSlot, Taken
<1>1. ASSUME NEW q \in Runs \ {r}
      PROVE  row'[q] = row[q] /\ phase'[q] = phase[q]
  BY Frame
<1>2. ASSUME phase'[r] = "done"
      PROVE  /\ Passed(StatusOf(r, Landing))'
             /\ \/ StatusOf(r, "monitor")' = "NO_DATA"
                \/ /\ StatusOf(r, "export_bigquery")' = "SUCCESS"
                   /\ \A m \in Covered(LandingPlan(r))' : LandingPlan(r)'[m] \in Good
  <2>1. Succeeds(r) /\ task[r] = "monitor"
    <3>1. ~Stops(r) /\ ~WritesPartition(r)
      BY <1>0, <1>2 DEF Stops, WritesPartition, ReplaceClean, ReplaceQuarantine, WriteMart,
         TypeOK, InSlot
    <3>2. ~Begins(r) /\ ~Fails(r)
      BY <1>2, BeginsShape, FailsShape DEF Begin, Fail, TypeOK
    <3>3. ~LandingReusesPrior(r)
      BY <1>2 DEF LandingReusesPrior, Advance, At, Landing, TypeOK
    <3>4. Succeeds(r)
      BY <3>1, <3>2, <3>3, StepShapes
    <3>5. Advance(r)
      BY <3>4, SucceedsShape DEF Succeed
    <3> QED  BY <1>2, <3>4, <3>5 DEF Advance, TypeOK
  <2>2. MonitorPasses(r)
    BY <2>1 DEF Succeeds, LandingEnds, PassNoData, PreflightEnds, BronzeEnds, SilverEnds,
       GateReplay, GatePasses, GoldEnds, ExportEnds, Chained, At, Landing
  <2>3. /\ row'[r]["monitor"].status = UpstreamRow(r).status
        /\ Passed(UpstreamRow(r).status)
    BY <1>0, <2>1, <2>2, WriteEffect DEF MonitorPasses, Succeed
  <2>4. \A t \in Task \ {"monitor"} : row'[r][t] = row[r][t]
    BY <2>1, Frame
  <2>5. Passed(StatusOf(r, Landing))'
    BY <1>0, <2>1, <2>4 DEF ChainInv, Place, Task, Landing, StatusOf
  <2>6. ASSUME UpstreamRow(r).status = "SUCCESS"
        PROVE  /\ StatusOf(r, "export_bigquery")' = "SUCCESS"
               /\ \A m \in Covered(LandingPlan(r))' : LandingPlan(r)'[m] \in Good
    <3>1. StatusOf(r, "export_bigquery") = "SUCCESS"
      BY <2>1, <2>6 DEF UpstreamRow, Upstream, StatusOf
    <3>2. StatusOf(r, "aggregate_gold") = "SUCCESS"
      BY <1>0, <2>1, <3>1 DEF UpstreamInv, Place, Upstream, Task, Landing
    <3>3. StatusOf(r, "dq_gate") = "SUCCESS"
      BY <1>0, <2>1, <3>2 DEF UpstreamInv, Place, Upstream, Task, Landing
    <3>4. \A m \in Covered(LandingPlan(r)) : LandingPlan(r)[m] \in Good
      BY <1>0, <2>1, <3>3 DEF GateInv, Place
    <3> QED  BY <2>4, <3>1, <3>4 DEF Task, Landing, LandingPlan, StatusOf, Covered
  <2> QED  BY <2>3, <2>5, <2>6 DEF StatusOf, Passed
<1> QED  BY <1>1, <1>2 DEF DoneInv, StatusOf, LandingPlan, Covered

LEMMA ServedQuiet ==
    ASSUME TypeOK, IInv, LandsOnce, IngestedInv, EmptyInv, AskedInv, DoneInv, Quiet
    PROVE  IngestedInv' /\ EmptyInv' /\ AskedInv' /\ DoneInv'
<1>1. row' = row /\ bronze' = bronze
  BY QuietFrame DEF Quiet, Submit, Start, Resume, ChangeSource, lakeVars, vars
<1>2. \A r \in Runs : phase'[r] = "done" => phase[r] = "done"
  BY DEF TypeOK, Quiet, Submit, Start, Resume, ChangeSource, queueVars, vars
<1>3. \A r \in Runs : Passed(StatusOf(r, Landing)) => request'[r] = request[r]
  <2>1. ASSUME NEW r \in Runs, NEW q \in Requests, Submit(r, q), NEW x \in Runs,
               Passed(StatusOf(x, Landing))
        PROVE  request'[x] = request[x]
    <3>1. x # r
      BY <2>1, ChainOrder DEF Submit, IInv, LaunchInv, Passed
    <3> QED  BY <2>1, <3>1 DEF Submit, TypeOK
  <2>2. ASSUME NEW r \in Runs, NEW t \in Task, Resume(r, t)
        PROVE  request' = request
    BY <2>2 DEF Resume, Corrected, LandsOnce, TypeOK
  <2> QED  BY <2>1, <2>2 DEF Quiet, Start, ChangeSource, queueVars, vars
<1>4. IngestedInv' /\ EmptyInv'
  BY <1>1 DEF IngestedInv, EmptyInv, StatusOf, PlanOf, EmptyOf, LandingPlan
<1>5. AskedInv' /\ DoneInv'
  BY <1>1, <1>2, <1>3 DEF AskedInv, DoneInv, StatusOf, LandingPlan
<1> QED  BY <1>4, <1>5

LEMMA ServedInvCorrect ==
    ASSUME LandsOnce
    PROVE  Spec => []ServedInv
<1>1. Init => ServedInv
  <2> SUFFICES ASSUME Init PROVE ServedInv
    OBVIOUS
  <2>1. \A r \in Runs, t \in Task : StatusOf(r, t) = "ABSENT" /\ phase[r] = "unknown"
    BY DEF Init, RowInit, AbsentRow, StatusOf
  <2> QED  BY <2>1, ChainOrder DEF ServedInv, UpstreamInv, IngestedInv, EmptyInv, AskedInv,
           DoneInv, Taken, Passed, Task
<1>2. TypeOK /\ IInv /\ ServedInv /\ [Next]_vars => ServedInv'
  <2> SUFFICES ASSUME TypeOK, IInv, ServedInv, [Next]_vars PROVE ServedInv'
    OBVIOUS
  <2>1. UpstreamInv'
    BY UpstreamStep DEF ServedInv
  <2>2. CASE Quiet
    BY <2>1, <2>2, ServedQuiet DEF ServedInv
  <2>3. ASSUME NEW r \in Runs, Step(r) \/ Fault(r)
        PROVE  ServedInv'
    BY <2>1, <2>3, IngestedRun, EmptyRun, AskedRun, DoneRun DEF ServedInv
  <2> QED  BY <2>2, <2>3 DEF Next, Quiet
<1> QED  BY <1>1, <1>2, TypeCorrect, InvCorrect, PTL DEF Spec

\* NO_DATA of the gate hides nothing but objects without rows or not under the
\* Auto Loader path, whichever runs ingested the others.
THEOREM NoDataHidesOnlyStrays ==
    ASSUME LandsOnce
    PROVE  Spec => []NoDataOnlyStrays
<1>1. TypeOK /\ IInv /\ ServedInv => NoDataOnlyStrays
  <2> SUFFICES ASSUME TypeOK, IInv, ServedInv, NEW r \in Runs,
                      StatusOf(r, "dq_gate") = "NO_DATA",
                      NEW m \in Covered(PlanOf(r, "dq_gate"))
               PROVE  PlanOf(r, "dq_gate")[m] \in Strays
    BY DEF NoDataOnlyStrays, StatusOf, PlanOf
  <2>1. "dq_gate" \in Task \ {Landing}
    BY DEF Task, Landing
  <2>2. PlanOf(r, "dq_gate") = LandingPlan(r)
    BY <2>1 DEF IInv, PlanInv
  <2> QED  BY <2>1, <2>2 DEF ServedInv, EmptyInv
<1> QED  BY <1>1, TypeCorrect, InvCorrect, ServedInvCorrect, PTL

\* A backfill that is done served just what it was asked for, or nothing of it
\* could be read: whatever was killed, repaired or superseded on the way.
THEOREM BackfillServes ==
    ASSUME LandsOnce
    PROVE  Spec => []BackfillServed
<1>1. TypeOK /\ IInv /\ HandoffInv /\ ServedInv => BackfillServed
  <2> SUFFICES ASSUME TypeOK, IInv, HandoffInv, ServedInv, NEW r \in Runs,
                      phase[r] = "done", request[r].backfill
               PROVE  /\ Covered(LandingPlan(r)) = request[r].months
                      /\ \A m \in Months : request[r].uris[m] \in Snapshots =>
                             LandingPlan(r)[m] = request[r].uris[m]
                      /\ \/ \A m \in Covered(LandingPlan(r)) : LandingPlan(r)[m] \in Strays
                         \/ \A m \in Covered(LandingPlan(r)) :
                                /\ LandingPlan(r)[m] \in Good
                                /\ \A mart \in Marts :
                                       export[r][mart][m] = LandingPlan(r)[m]
    BY DEF BackfillServed
  <2>1. Passed(StatusOf(r, Landing))
    BY DEF ServedInv, DoneInv
  <2>2. Covered(LandingPlan(r)) = request[r].months
    BY <2>1 DEF ServedInv, AskedInv
  <2>3. \A m \in Months : request[r].uris[m] \in Snapshots =>
                             LandingPlan(r)[m] = request[r].uris[m]
    BY <2>1 DEF IInv, PlanInv, SamePlan, LandingPlan, Covered
  <2>4. CASE StatusOf(r, "monitor") = "NO_DATA"
    <3>1. "monitor" \in Task \ {Landing}
      BY DEF Task, Landing
    <3>2. PlanOf(r, "monitor") = LandingPlan(r)
      BY <2>4, <3>1 DEF IInv, PlanInv
    <3> QED  BY <2>2, <2>3, <2>4, <3>1, <3>2 DEF ServedInv, EmptyInv
  <2>5. CASE StatusOf(r, "monitor") # "NO_DATA"
    BY <2>2, <2>3, <2>5 DEF ServedInv, DoneInv, HandoffInv, HandedOver
  <2> QED  BY <2>4, <2>5
<1> QED  BY <1>1, TypeCorrect, InvCorrect, HandoffCorrect, ServedInvCorrect, PTL
=============================================================================
