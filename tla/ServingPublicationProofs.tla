---------------------- MODULE ServingPublicationProofs ----------------------
(***************************************************************************)
(* Proofs about ServingPublication, for any runs, publishers, handoffs and *)
(* number of exports: types, the inductive invariant, the two safety       *)
(* properties and the refinement of AtomicPublication.                     *)
(***************************************************************************)
EXTENDS ServingPublicationInvariant, FiniteSetTheorems, TLAPS

\* The snapshot a handoff names for a covered month has a set of keys.
LEMMA HandoffTyped ==
    \A r \in Runs : /\ Handoff[r] \in Plan
                    /\ Covered(Handoff[r]) \subseteq Months
                    /\ \A m \in Covered(Handoff[r]) : /\ Handoff[r][m] \in Snapshots
                                                      /\ KeysOf[Handoff[r][m]] \subseteq Keys
                    /\ Covered(Handoff[r]) # {}
                    /\ PartsOf(r) \subseteq Part
                    /\ PartsOf(r) # {}
<1> SUFFICES ASSUME NEW r \in Runs
             PROVE  /\ Handoff[r] \in Plan
                    /\ Covered(Handoff[r]) \subseteq Months
                    /\ \A m \in Covered(Handoff[r]) : /\ Handoff[r][m] \in Snapshots
                                                      /\ KeysOf[Handoff[r][m]] \subseteq Keys
                    /\ Covered(Handoff[r]) # {}
                    /\ PartsOf(r) \subseteq Part
                    /\ PartsOf(r) # {}
  OBVIOUS
<1>1. Handoff[r] \in Plan
  BY ServingAssumption DEF Plan
<1>2. Covered(Handoff[r]) \subseteq Months
  BY DEF Covered
<1>3. \A m \in Covered(Handoff[r]) : Handoff[r][m] \in Snapshots
  BY <1>1 DEF Covered, Plan
<1>4. \A m \in Covered(Handoff[r]) : KeysOf[Handoff[r][m]] \subseteq Keys
  BY <1>3, ServingAssumption
<1>5. PICK m \in Months : Handoff[r][m] # NoSnapshot
  BY ServingAssumption
<1>6. PICK mart : mart \in Marts
  BY ServingAssumption
<1>7. m \in Covered(Handoff[r]) /\ <<mart, m>> \in PartsOf(r)
  BY <1>5, <1>6 DEF Covered, PartsOf
<1> QED  BY <1>1, <1>2, <1>3, <1>4, <1>7 DEF PartsOf, Part

\* What a load leaves in its stage table is a plan again.
LEMMA StagedTyped ==
    ASSUME TypeOK, NEW a \in Attempts, run[a] \in Runs, NEW mart \in Marts, NEW m \in Months
    PROVE  Staged(a, mart, m) \in Plan
<1>1. stage[StageName(a, run[a])][mart] \in Plan
  BY DEF TypeOK, StageName
<1>2. NoPlan \in Plan
  BY DEF NoPlan, Plan
<1> QED  BY <1>1, <1>2, HandoffTyped DEF Staged, Plan

\* What the transaction leaves in a mart month is a row per key again.
LEMMA PublishedTyped ==
    ASSUME TypeOK, NEW a \in Attempts, run[a] \in Runs
    PROVE  Published(a) \in [Marts -> [Months -> Rows]]
<1>1. \A old \in Rows, s \in Snapshots \cup {NoSnapshot} : Merged(old, s) \in Rows
  BY DEF Merged, Rows
<1>2. \A mart \in Marts, m \in Months :
         /\ target[mart][m] \in Rows
         /\ stage[StageName(a, run[a])][mart][m] \in Snapshots \cup {NoSnapshot}
  BY DEF TypeOK, StageName, Plan
<1>3. \A mart \in Marts, m \in Months :
         Merged(target[mart][m], stage[StageName(a, run[a])][mart][m]) \in Rows
  BY <1>1, <1>2
<1> QED  BY <1>3 DEF Published

\* The initial values are typed.
LEMMA TypeInit == Init => TypeOK
<1>1. NoFiles \in Versions /\ NoPlan \in Plan /\ Empty \in Rows
  BY DEF NoFiles, Versions, NoPlan, Plan, Empty, Rows
<1>2. [mart \in Marts |-> NoPlan] \in [Marts -> Plan]
  BY <1>1
<1>3. [mart \in Marts |-> [m \in Months |-> Empty]] \in [Marts -> [Months -> Rows]]
  BY <1>1
<1> HIDE DEF NoFiles, Versions, NoPlan, Plan, Empty, Rows
<1> QED  BY <1>1, <1>2, <1>3 DEF Init, TypeOK, Client

\* The export task keeps the types.
LEMMA TypeExport ==
    ASSUME TypeOK, NEW r \in Runs, Export(r)
    PROVE  TypeOK'
<1> USE DEF TypeOK, Versions, exportVars, attemptVars, checkVars, servedVars
<1>1. CASE ExportBegins(r)
  BY <1>1, HandoffTyped DEF ExportBegins, NoFiles
<1>2. ASSUME NEW p \in Part, WriteFiles(r, p) PROVE TypeOK'
  BY <1>2 DEF WriteFiles
<1>3. CASE ExportEnds(r)
  BY <1>3 DEF ExportEnds
<1>4. CASE ExportFails(r)
  BY <1>4 DEF ExportFails
<1> QED  BY <1>1, <1>2, <1>3, <1>4 DEF Export

\* So does a publisher.
LEMMA TypePublisher ==
    ASSUME TypeOK, NEW a \in Attempts, Publisher(a)
    PROVE  TypeOK'
<1> USE DEF TypeOK, Client, exportVars, attemptVars, checkVars, servedVars
<1>1. ASSUME NEW r \in Runs, Fetch(a, r) PROVE TypeOK'
  BY <1>1 DEF Fetch
<1>2. ASSUME NEW mart \in Marts, NEW m \in Months, Load(a, mart, m) PROVE TypeOK'
  <2>1. run[a] \in Runs /\ Staged(a, mart, m) \in Plan
    BY <1>2, StagedTyped DEF Load
  <2>2. stage' \in [Attempts \X Runs -> [Marts -> Plan]]
    BY <1>2, <2>1 DEF Load, StageName
  <2>3. loaded' \in [Attempts -> SUBSET Part]
    BY <1>2 DEF Load, Part
  <2> QED  BY <1>2, <2>2, <2>3 DEF Load
<1>3. ASSUME NEW mart \in Marts, NEW m \in Months, LoadFails(a, mart, m) PROVE TypeOK'
  BY <1>3 DEF LoadFails
<1>4. ASSUME NEW mart \in Marts, NEW m \in Months, CountRows(a, mart, m) PROVE TypeOK'
  BY <1>4 DEF CountRows, CountMatches, Part
<1>5. CASE Submit(a)
  BY <1>5 DEF Submit
<1>6. CASE PublishReturns(a)
  BY <1>6 DEF PublishReturns
<1>7. CASE PublisherDies(a)
  BY <1>7 DEF PublisherDies
<1>8. CASE ReconcileEnds(a)
  BY <1>8 DEF ReconcileEnds
<1> QED  BY <1>1, <1>2, <1>3, <1>4, <1>5, <1>6, <1>7, <1>8 DEF Publisher

\* And every step.
LEMMA TypeStep == TypeOK /\ [Next]_vars => TypeOK'
<1> SUFFICES ASSUME TypeOK, [Next]_vars PROVE TypeOK'
  OBVIOUS
<1>1. ASSUME NEW r \in Runs, Export(r) PROVE TypeOK'
  BY <1>1, TypeExport
<1>2. ASSUME NEW a \in Attempts, Publisher(a) PROVE TypeOK'
  BY <1>2, TypePublisher
<1>3. ASSUME NEW a \in Attempts, JobCommits(a) PROVE TypeOK'
  <2>1. run[a] \in Runs
    BY <1>3 DEF JobCommits, TypeOK
  <2> QED  BY <1>3, <2>1, PublishedTyped DEF JobCommits, TypeOK, exportVars, attemptVars, checkVars
<1>4. ASSUME NEW a \in Attempts, JobAborts(a) PROVE TypeOK'
  BY <1>4 DEF JobAborts, TypeOK, exportVars, attemptVars, checkVars, servedVars
<1>5. CASE UNCHANGED vars
  BY <1>5 DEF vars, TypeOK
<1> QED  BY <1>1, <1>2, <1>3, <1>4, <1>5 DEF Next

\* Every reachable state of files, publishers, jobs and tables is well typed.
THEOREM PublicationTyped == Spec => []TypeOK
BY TypeInit, TypeStep, PTL DEF Spec
-----------------------------------------------------------------------------
\* What the inductive invariant reads.
invVars == <<pc, run, loaded, stage, job, commits, checked, match, target, receipt, now>>

\* The effect of a transaction: every covered month is merged in every mart
\* from the run's own plan, and no other month is touched.
LEMMA TransactionEffect ==
    ASSUME TypeOK, StageInv, JobInv, NEW a \in Attempts, job[a] = "running"
    PROVE  /\ run[a] \in Runs
           /\ \A mart \in Marts, m \in Months :
                 Published(a)[mart][m] =
                     IF m \in Covered(Handoff[run[a]])
                     THEN [k \in Keys |-> IF k \in KeysOf[Handoff[run[a]][m]]
                                          THEN Handoff[run[a]][m] ELSE target[mart][m][k]]
                     ELSE target[mart][m]
<1>1. run[a] \in Runs /\ pc[a] # "idle" /\ loaded[a] = PartsOf(run[a])
  BY DEF TypeOK, JobInv
<1>2. SUFFICES ASSUME NEW mart \in Marts, NEW m \in Months
               PROVE  Merged(target[mart][m], StageOf(a, mart, m)) =
                     IF m \in Covered(Handoff[run[a]])
                     THEN [k \in Keys |-> IF k \in KeysOf[Handoff[run[a]][m]]
                                          THEN Handoff[run[a]][m] ELSE target[mart][m][k]]
                     ELSE target[mart][m]
  BY <1>1 DEF Published, StageOf
<1>3. CASE m \in Covered(Handoff[run[a]])
  <2>1. <<mart, m>> \in loaded[a]
    BY <1>1, <1>3 DEF PartsOf
  <2>2. StageOf(a, mart, m) = Handoff[run[a]][m]
    BY <1>1, <2>1 DEF StageInv
  <2>3. Handoff[run[a]][m] # NoSnapshot
    BY <1>3 DEF Covered
  <2> QED  BY <1>3, <2>2, <2>3 DEF Merged
<1>4. CASE m \notin Covered(Handoff[run[a]])
  <2>1. PICK n \in Months : n \in Covered(Handoff[run[a]])
    BY <1>1, HandoffTyped
  <2>2. <<mart, n>> \in loaded[a] /\ <<mart, m>> \notin loaded[a]
    BY <1>1, <1>4, <2>1 DEF PartsOf
  <2>3. StageOf(a, mart, m) = NoSnapshot
    BY <1>1, <2>2 DEF StageInv
  <2> QED  BY <1>4, <2>3 DEF Merged
<1> QED  BY <1>3, <1>4

\* Rows that include all of a snapshot's and are no more are exactly these.
LEMMA CountExact ==
    ASSUME NEW rows \in Rows, NEW s \in Snapshots,
           \A k \in KeysOf[s] : rows[k] = s,
           RowCount(rows) = Cardinality(KeysOf[s])
    PROVE  rows = RowsOf(s)
<1> DEFINE present == {k \in Keys : rows[k] # NoSnapshot}
<1>1. IsFiniteSet(present) /\ KeysOf[s] \subseteq Keys /\ s # NoSnapshot
  BY ServingAssumption, FS_Subset
<1>2. KeysOf[s] \subseteq present
  BY <1>1
<1>3. KeysOf[s] = present
  BY <1>1, <1>2, FS_Subset DEF RowCount
<1> QED  BY <1>1, <1>3 DEF RowsOf, Rows

\* Nothing is staged, published or counted at first.
LEMMA InvInit == Init => IInv
<1> SUFFICES ASSUME Init PROVE IInv
  OBVIOUS
<1>1. StageInv /\ JobInv /\ NumberInv /\ NewestServed /\ CountInv
  BY DEF Init, StageInv, JobInv, NumberInv, NewestServed, CountInv
<1>2. PublishedComplete
  BY DEF Init, PublishedComplete
<1> QED  BY <1>1, <1>2 DEF IInv

\* Steps of the export task do not concern the invariant.
LEMMA InvFrame ==
    ASSUME IInv, UNCHANGED invVars
    PROVE  IInv'
<1>1. StageInv' /\ JobInv'
  BY DEF IInv, invVars, StageInv, StageOf, JobInv
<1>2. NumberInv' /\ NewestServed'
  BY DEF IInv, invVars, NumberInv, NewestServed
<1>3. CountInv' /\ PublishedComplete'
  BY DEF IInv, invVars, CountInv, PublishedComplete
<1> QED  BY <1>1, <1>2, <1>3 DEF IInv

\* The part of StageInv about one publisher.
StageInvOf(a) ==
    \A mart \in Marts, m \in Months :
        /\ <<mart, m>> \in loaded[a] =>
               /\ m \in Covered(Handoff[run[a]])
               /\ StageOf(a, mart, m) = Handoff[run[a]][m]
        /\ (\E n \in Months : <<mart, n>> \in loaded[a]) =>
               <<mart, m>> \in loaded[a] \/ StageOf(a, mart, m) = NoSnapshot

\* It, spelled out for the state after a step of a publisher that keeps its run.
LEMMA StageIntro ==
    ASSUME NEW b \in Attempts, run'[b] = run[b],
           \A mart \in Marts, m \in Months :
              /\ <<mart, m>> \in loaded'[b] =>
                     /\ m \in Covered(Handoff[run[b]])
                     /\ stage'[<<b, run[b]>>][mart][m] = Handoff[run[b]][m]
              /\ (\E n \in Months : <<mart, n>> \in loaded'[b]) =>
                     \/ <<mart, m>> \in loaded'[b]
                     \/ stage'[<<b, run[b]>>][mart][m] = NoSnapshot
    PROVE  StageInvOf(b)'
BY DEF StageInvOf, StageOf, StageName, Covered

\* It stays true while the publisher's own state and stage are left alone.
LEMMA StageFrame ==
    ASSUME NEW b \in Attempts, StageInvOf(b), run'[b] = run[b], loaded'[b] = loaded[b],
           stage'[<<b, run[b]>>] = stage[<<b, run[b]>>]
    PROVE  StageInvOf(b)'
<1>1. \A mart \in Marts, m \in Months :
         /\ <<mart, m>> \in loaded'[b] =>
                /\ m \in Covered(Handoff[run[b]])
                /\ stage'[<<b, run[b]>>][mart][m] = Handoff[run[b]][m]
         /\ (\E n \in Months : <<mart, n>> \in loaded'[b]) =>
                \/ <<mart, m>> \in loaded'[b]
                \/ stage'[<<b, run[b]>>][mart][m] = NoSnapshot
  BY DEF StageInvOf, StageOf, StageName
<1> QED  BY <1>1, StageIntro

\* A run's handoff is fetched by an idle publisher, which has loaded nothing.
LEMMA InvFetch ==
    ASSUME TypeOK, IInv, NEW a \in Attempts, NEW r \in Runs, Fetch(a, r)
    PROVE  IInv'
<1> USE DEF Fetch, checkVars, servedVars, IInv
<1>1. /\ pc' = [pc EXCEPT ![a] = "loading"] /\ run' = [run EXCEPT ![a] = r]
      /\ pc \in [Attempts -> Client] /\ run \in [Attempts -> Runs \cup {NoRun}]
  BY DEF TypeOK
<1>2. /\ pc[a] = "idle" /\ job[a] = "none" /\ loaded[a] = {} /\ checked[a] = {}
      /\ commits[a] = 0
  BY DEF JobInv, CountInv, NumberInv, TypeOK
<1>3. \A b \in Attempts : b # a => pc'[b] = pc[b] /\ run'[b] = run[b]
  BY <1>1
<1>4. pc'[a] = "loading" /\ run'[a] = r
  BY <1>1
<1>5. StageInv'
  <2> SUFFICES ASSUME NEW b \in Attempts, pc'[b] # "idle"
               PROVE  StageInvOf(b)'
    BY DEF StageInv, StageInvOf
  <2>1. CASE b = a
    BY <2>1, <1>2 DEF StageInvOf
  <2>2. CASE b # a
    <3>1. pc[b] # "idle" /\ StageInvOf(b)
      BY <2>2, <1>3 DEF StageInv, StageInvOf
    <3> QED  BY <2>2, <3>1, <1>3, StageFrame
  <2> QED  BY <2>1, <2>2
<1>6. JobInv'
  BY <1>2, <1>3, <1>4 DEF JobInv
<1>7. NumberInv' /\ PublishedComplete'
  BY <1>2, <1>3, <1>4 DEF NumberInv, PublishedComplete
<1>8. NewestServed'
  BY <1>2, <1>3, <1>4 DEF NewestServed
<1>9. CountInv'
  BY <1>2, <1>3, <1>4 DEF CountInv
<1> QED  BY <1>5, <1>6, <1>7, <1>8, <1>9

\* A load changes the publisher's own stage only.
LEMMA InvLoad ==
    ASSUME TypeOK, IInv, NEW a \in Attempts, NEW mart \in Marts, NEW m \in Months,
           Load(a, mart, m)
    PROVE  IInv'
<1> USE DEF Load, checkVars, servedVars, IInv
<1> DEFINE n == <<a, run[a]>>
<1>1. /\ pc[a] = "loading" /\ run[a] \in Runs /\ n \in Attempts \X Runs
      /\ job[a] = "none"
  BY DEF TypeOK, JobInv
<1>2. /\ m \in Covered(Handoff[run[a]])
      /\ \A x \in Months : <<mart, x>> \in loaded[a]
             => x \in Covered(Handoff[run[a]]) /\ stage[n][mart][x] = Handoff[run[a]][x]
  BY <1>1 DEF StageInv, StageOf, StageName, PartsOf
<1>3. /\ stage' = [stage EXCEPT ![n][mart] = Staged(a, mart, m)]
      /\ loaded' = [loaded EXCEPT ![a] = @ \cup {<<mart, m>>}]
      /\ pc' = pc /\ run' = run /\ job' = job
  BY DEF StageName
<1>4. ASSUME NEW b \in Attempts, b # a, pc[b] # "idle"
      PROVE  stage'[<<b, run[b]>>] = stage[<<b, run[b]>>]
  <2>1. <<b, run[b]>> \in Attempts \X Runs /\ <<b, run[b]>> # n
    BY <1>4 DEF TypeOK
  <2> HIDE DEF n
  <2> QED  BY <2>1, <1>3 DEF TypeOK
<1>5. \A x \in Marts, y \in Months : x # mart => stage'[n][x][y] = stage[n][x][y]
  <2> HIDE DEF n
  <2>1. stage[n] \in [Marts -> Plan]
    BY <1>1 DEF TypeOK
  <2>2. stage'[n] = [stage[n] EXCEPT ![mart] = Staged(a, mart, m)]
    BY <1>1, <1>3 DEF TypeOK
  <2> QED  BY <2>1, <2>2
<1>6. stage'[n][mart] = Staged(a, mart, m)
  BY <1>1, <1>3 DEF TypeOK
<1>7. /\ loaded'[a] = loaded[a] \cup {<<mart, m>>}
      /\ \A b \in Attempts : b # a => loaded'[b] = loaded[b]
  BY <1>3 DEF TypeOK
<1>8. /\ Staged(a, mart, m)[m] = Handoff[run[a]][m]
      /\ \A y \in Months : y # m =>
             Staged(a, mart, m)[y] =
                 IF \E q \in loaded[a] : q[1] = mart
                 THEN stage[n][mart][y] ELSE NoSnapshot
  <2>1. stage[n][mart] \in Plan /\ NoPlan \in Plan
    BY <1>1 DEF TypeOK, NoPlan, Plan
  <2> QED  BY <2>1 DEF Staged, StageName, NoPlan, Plan
<1>9. (\E q \in loaded[a] : q[1] = mart) <=> \E x \in Months : <<mart, x>> \in loaded[a]
  <2>1. loaded[a] \subseteq Marts \X Months
    BY DEF TypeOK, Part
  <2>2. \A q \in loaded[a] : q = <<q[1], q[2]>> /\ q[2] \in Months
    BY <2>1
  <2> QED  BY <2>2
<1>10. StageInv'
  <2> SUFFICES ASSUME NEW b \in Attempts, pc[b] # "idle"
               PROVE  StageInvOf(b)'
    BY <1>3 DEF StageInv, StageInvOf
  <2>0. StageInvOf(b) /\ StageInvOf(a)
    BY <1>1 DEF StageInv, StageInvOf
  <2>1. CASE b # a
    <3>1. stage'[<<b, run[b]>>] = stage[<<b, run[b]>>] /\ loaded'[b] = loaded[b]
      BY <2>1, <1>4, <1>7
    <3> QED  BY <2>0, <3>1, <1>3, StageFrame
  <2>2. CASE b = a
    <3>1. \A x \in Marts, y \in Months :
             /\ <<x, y>> \in loaded[a] => /\ y \in Covered(Handoff[run[a]])
                                          /\ stage[n][x][y] = Handoff[run[a]][y]
             /\ (\E z \in Months : <<x, z>> \in loaded[a]) =>
                    <<x, y>> \in loaded[a] \/ stage[n][x][y] = NoSnapshot
      BY <2>0 DEF StageInvOf, StageOf, StageName
    <3>2. ASSUME NEW x \in Marts, NEW y \in Months
          PROVE  /\ <<x, y>> \in loaded'[a] =>
                        /\ y \in Covered(Handoff[run[a]])
                        /\ stage'[n][x][y] = Handoff[run[a]][y]
                 /\ (\E z \in Months : <<x, z>> \in loaded'[a]) =>
                        <<x, y>> \in loaded'[a] \/ stage'[n][x][y] = NoSnapshot
      <4> HIDE DEF n
      <4>1. CASE x # mart
        <5>1. \A z \in Months : <<x, z>> \in loaded'[a] <=> <<x, z>> \in loaded[a]
          BY <4>1, <1>7
        <5>2. /\ <<x, y>> \in loaded[a] => /\ y \in Covered(Handoff[run[a]])
                                           /\ stage[n][x][y] = Handoff[run[a]][y]
              /\ (\E z \in Months : <<x, z>> \in loaded[a]) =>
                     <<x, y>> \in loaded[a] \/ stage[n][x][y] = NoSnapshot
          BY <3>1
        <5>3. stage'[n][x][y] = stage[n][x][y]
          BY <4>1, <1>5
        <5> QED  BY <5>1, <5>2, <5>3
      <4>2. CASE x = mart /\ y = m
        BY <4>2, <1>2, <1>6, <1>7, <1>8
      <4>3. CASE x = mart /\ y # m
        <5>1. <<mart, y>> \in loaded'[a] <=> <<mart, y>> \in loaded[a]
          BY <4>3, <1>7
        <5> QED  BY <3>1, <4>3, <5>1, <1>6, <1>8, <1>9
      <4> QED  BY <4>1, <4>2, <4>3
    <3> QED  BY <2>2, <3>2, <1>3, StageIntro
  <2> QED  BY <2>1, <2>2
<1>11. JobInv'
  BY <1>1, <1>3, <1>7 DEF JobInv, PartsOf
<1>12. NumberInv' /\ NewestServed' /\ CountInv' /\ PublishedComplete'
  BY <1>3 DEF NumberInv, NewestServed, CountInv, PublishedComplete, PartsOf
<1> QED  BY <1>10, <1>11, <1>12
\* Submitting, failing, dying and returning move the publisher, not the data.
LEMMA InvMoves ==
    ASSUME TypeOK, IInv, NEW a \in Attempts,
           \/ \E mart \in Marts, m \in Months : LoadFails(a, mart, m)
           \/ Submit(a) \/ PublishReturns(a) \/ PublisherDies(a) \/ ReconcileEnds(a)
    PROVE  IInv'
<1> USE DEF LoadFails, Submit, PublishReturns, PublisherDies, ReconcileEnds, checkVars,
            servedVars, IInv
<1>1. /\ UNCHANGED <<run, loaded, stage, commits, checked, match, target, receipt, now>>
      /\ \A b \in Attempts : b # a => pc'[b] = pc[b] /\ job'[b] = job[b]
      /\ pc[a] # "idle" /\ pc'[a] \notin {"idle", "loading"}
  BY DEF TypeOK
<1>2. \/ job'[a] = job[a]
      \/ job[a] = "none" /\ job'[a] = "running" /\ loaded[a] = PartsOf(run[a])
             /\ pc'[a] = "submitted"
  BY DEF TypeOK, JobInv
<1>3. pc'[a] \in {"submitted", "published", "reconciled", "mismatch", "failed"}
  BY DEF TypeOK
<1>4. StageInv'
  <2> SUFFICES ASSUME NEW b \in Attempts, pc'[b] # "idle"
               PROVE  StageInvOf(b)'
    BY DEF StageInv, StageInvOf
  <2>1. StageInvOf(b)
    BY <1>1 DEF StageInv, StageInvOf
  <2> QED  BY <2>1, <1>1, StageFrame
<1>5. JobInv'
  <2>1. pc'[a] \in {"published", "reconciled", "mismatch"} => job'[a] = "committed"
    BY DEF TypeOK, JobInv
  <2> QED  BY <2>1, <1>1, <1>2, <1>3 DEF JobInv, PartsOf, Covered
<1>6. NumberInv'
  BY <1>1, <1>2 DEF NumberInv
<1>7. NewestServed' /\ PublishedComplete'
  BY <1>1 DEF NewestServed, PublishedComplete, Covered
<1>8. CountInv'
  <2>1. pc'[a] = "submitted" => checked[a] = {}
    BY DEF TypeOK, CountInv
  <2>2. pc'[a] = "reconciled" => checked[a] = PartsOf(run[a]) /\ match[a]
    BY DEF TypeOK, CountInv
  <2>3. checked[a] # {} => job'[a] = "committed"
    BY <1>2 DEF CountInv
  <2> QED  BY <2>1, <2>2, <2>3, <1>1, <1>3 DEF CountInv, PartsOf, Covered
<1> QED  BY <1>4, <1>5, <1>6, <1>7, <1>8

\* A count is right for the newest publication: all of its rows are served, so
\* a matching number leaves no others (CountExact).
LEMMA InvCountRows ==
    ASSUME TypeOK, IInv, NEW a \in Attempts, NEW mart \in Marts, NEW m \in Months,
           CountRows(a, mart, m)
    PROVE  IInv'
<1> USE DEF CountRows, attemptVars, servedVars, IInv
<1>1. /\ UNCHANGED <<pc, run, loaded, stage, job, commits, target, receipt, now>>
      /\ \A b \in Attempts : b # a => checked'[b] = checked[b] /\ match'[b] = match[b]
      /\ checked'[a] = checked[a] \cup {<<mart, m>>}
      /\ match'[a] <=> match[a] /\ CountMatches(run[a], mart, m)
  BY DEF TypeOK
<1>2. /\ pc[a] = "published" /\ job[a] = "committed" /\ commits[a] > 0
      /\ run[a] \in Runs /\ m \in Covered(Handoff[run[a]])
  BY DEF TypeOK, JobInv, NumberInv, PartsOf
<1>3. commits[a] = now /\ CountMatches(run[a], mart, m)
          => target[mart][m] = RowsOf(Handoff[run[a]][m])
  <2> SUFFICES ASSUME commits[a] = now, CountMatches(run[a], mart, m)
               PROVE  target[mart][m] = RowsOf(Handoff[run[a]][m])
    OBVIOUS
  <2>1. \A k \in KeysOf[Handoff[run[a]][m]] : target[mart][m][k] = Handoff[run[a]][m]
    BY <1>2 DEF NewestServed
  <2>2. target[mart][m] \in Rows /\ Handoff[run[a]][m] \in Snapshots
    BY <1>2, HandoffTyped DEF TypeOK
  <2>3. RowCount(target[mart][m]) = Cardinality(KeysOf[Handoff[run[a]][m]])
    BY DEF CountMatches
  <2> QED  BY <2>1, <2>2, <2>3, CountExact
<1>4. CountInv'
  <2> SUFFICES ASSUME NEW b \in Attempts
               PROVE  /\ pc[b] \in {"idle", "loading", "submitted"} => checked'[b] = {}
                      /\ pc[b] = "reconciled" =>
                             checked'[b] = PartsOf(run[b]) /\ match'[b]
                      /\ checked'[b] # {} => job[b] = "committed"
                      /\ checked'[b] # {} /\ commits[b] = now /\ match'[b] =>
                             \A x \in Marts, y \in Months : <<x, y>> \in checked'[b] =>
                                 target[x][y] = RowsOf(Handoff[run[b]][y])
    BY <1>1 DEF CountInv, PartsOf, Covered, RowsOf
  <2>1. CASE b # a
    BY <2>1, <1>1 DEF CountInv
  <2>2. CASE b = a
    <3>1. commits[a] = now /\ match'[a] =>
              \A x \in Marts, y \in Months : <<x, y>> \in checked'[a] =>
                  target[x][y] = RowsOf(Handoff[run[a]][y])
      BY <1>1, <1>3 DEF CountInv
    <3> QED  BY <2>2, <3>1, <1>2
  <2> QED  BY <2>1, <2>2
<1>5. StageInv'
  BY <1>1, StageFrame DEF StageInv, StageInvOf
<1>6. JobInv' /\ NumberInv'
  BY <1>1 DEF JobInv, NumberInv, PartsOf, Covered
<1>7. NewestServed' /\ PublishedComplete'
  BY <1>1 DEF NewestServed, PublishedComplete, Covered
<1> QED  BY <1>4, <1>5, <1>6, <1>7

\* A transaction makes its publisher the one and only newest.
LEMMA InvCommits ==
    ASSUME TypeOK, IInv, NEW a \in Attempts, JobCommits(a)
    PROVE  IInv'
<1> USE DEF JobCommits, attemptVars, checkVars, IInv
<1>1. /\ UNCHANGED <<pc, run, loaded, stage, checked, match>>
      /\ target' = Published(a) /\ now' = now + 1 /\ now \in Nat
      /\ \A b \in Attempts : b # a => job'[b] = job[b] /\ commits'[b] = commits[b]
      /\ job[a] = "running" /\ job'[a] = "committed" /\ commits'[a] = now + 1
  BY DEF TypeOK
<1>2. run[a] \in Runs /\ pc[a] \notin {"idle", "loading"} /\ checked[a] = {}
  BY DEF TypeOK, JobInv, CountInv
<1>3. \A r \in Runs : receipt'[r] = IF r = run[a] THEN now + 1 ELSE receipt[r]
  BY <1>2 DEF TypeOK
<1>4. \A mart \in Marts, m \in Months :
         target'[mart][m] =
             IF m \in Covered(Handoff[run[a]])
             THEN [k \in Keys |-> IF k \in KeysOf[Handoff[run[a]][m]]
                                  THEN Handoff[run[a]][m] ELSE target[mart][m][k]]
             ELSE target[mart][m]
  BY <1>1, TransactionEffect
<1>5. \A mart \in Marts, m \in Covered(Handoff[run[a]]) :
         \A k \in KeysOf[Handoff[run[a]][m]] : target'[mart][m][k] = Handoff[run[a]][m]
  BY <1>2, <1>4, HandoffTyped
<1>6. \A b \in Attempts : commits[b] <= now /\ commits[b] \in Nat
  BY DEF NumberInv, TypeOK
<1>7. \A r \in Runs : receipt[r] <= now /\ receipt[r] \in Nat
  BY DEF NumberInv, TypeOK
<1>8. StageInv'
  BY <1>1, StageFrame DEF StageInv, StageInvOf
<1>9. JobInv'
  BY <1>1, <1>2 DEF JobInv, PartsOf, Covered
<1>10. NumberInv'
  <2>1. \A r \in Runs : receipt'[r] <= now'
    BY <1>1, <1>3, <1>7
  <2>2. \A b \in Attempts : commits'[b] <= now' /\ (job'[b] = "committed" <=> commits'[b] > 0)
    BY <1>1, <1>6 DEF NumberInv
  <2>3. \A b \in Attempts : job'[b] = "committed" => receipt'[run[b]] >= commits'[b]
    <3> SUFFICES ASSUME NEW b \in Attempts, job'[b] = "committed"
                 PROVE  receipt'[run[b]] >= commits'[b]
      OBVIOUS
    <3>1. CASE b = a
      BY <3>1, <1>1, <1>2, <1>3
    <3>2. CASE b # a
      <4>1. run[b] \in Runs /\ receipt[run[b]] >= commits[b] /\ commits'[b] = commits[b]
        BY <3>2, <1>1 DEF TypeOK, NumberInv
      <4> QED  BY <4>1, <1>1, <1>3, <1>6, <1>7
    <3> QED  BY <3>1, <3>2
  <2> QED  BY <2>1, <2>2, <2>3, <1>1 DEF NumberInv
<1>11. \A b \in Attempts : commits'[b] = now' => b = a
  BY <1>1, <1>6
<1>12. NewestServed'
  BY <1>1, <1>5, <1>11 DEF NewestServed, Covered
<1>13. CountInv'
  BY <1>1, <1>2, <1>11 DEF CountInv, PartsOf, Covered
<1>14. PublishedComplete'
  <2> SUFFICES ASSUME NEW r \in Runs, NEW m \in Months, receipt'[r] # 0,
                      m \in Covered(Handoff[r]),
                      \A q \in Runs : m \in Covered(Handoff[q]) => receipt'[q] <= receipt'[r],
                      NEW mart \in Marts, NEW k \in KeysOf[Handoff[r][m]]
               PROVE  target'[mart][m][k] = Handoff[r][m]
    BY DEF PublishedComplete, Covered
  <2>1. CASE r = run[a]
    BY <2>1, <1>5
  <2>2. CASE r # run[a]
    <3>1. m \notin Covered(Handoff[run[a]])
      BY <2>2, <1>1, <1>2, <1>3, <1>7
    <3>2. target'[mart][m] = target[mart][m]
      BY <3>1, <1>4
    <3>3. \A q \in Runs : m \in Covered(Handoff[q]) => receipt[q] <= receipt[r]
      BY <2>2, <3>1, <1>3
    <3>4. target[mart][m][k] = Handoff[r][m]
      BY <2>2, <3>3, <1>3 DEF PublishedComplete
    <3> QED  BY <3>2, <3>4
  <2> QED  BY <2>1, <2>2
<1> QED  BY <1>8, <1>9, <1>10, <1>12, <1>13, <1>14

\* An aborted transaction leaves everything but its job.
LEMMA InvAborts ==
    ASSUME TypeOK, IInv, NEW a \in Attempts, JobAborts(a)
    PROVE  IInv'
<1> USE DEF JobAborts, attemptVars, checkVars, servedVars, IInv
<1>1. /\ UNCHANGED <<pc, run, loaded, stage, commits, checked, match, target, receipt, now>>
      /\ \A b \in Attempts : b # a => job'[b] = job[b]
      /\ job[a] = "running" /\ job'[a] = "aborted"
  BY DEF TypeOK
<1>2. StageInv'
  BY <1>1, StageFrame DEF StageInv, StageInvOf
<1>3. JobInv' /\ NumberInv'
  BY <1>1 DEF JobInv, NumberInv, PartsOf, Covered
<1>4. NewestServed' /\ PublishedComplete'
  BY <1>1 DEF NewestServed, PublishedComplete, Covered
<1>5. CountInv'
  BY <1>1 DEF CountInv, PartsOf, Covered, RowsOf
<1> QED  BY <1>2, <1>3, <1>4, <1>5

\* Every step keeps the invariant.
LEMMA InvStep == TypeOK /\ IInv /\ [Next]_vars => IInv'
<1> SUFFICES ASSUME TypeOK, IInv, [Next]_vars PROVE IInv'
  OBVIOUS
<1>1. ASSUME NEW r \in Runs, Export(r) PROVE IInv'
  <2>1. UNCHANGED invVars
    BY <1>1 DEF Export, ExportBegins, WriteFiles, ExportEnds, ExportFails, attemptVars,
                checkVars, servedVars, invVars
  <2> QED  BY <2>1, InvFrame
<1>2. ASSUME NEW a \in Attempts, Publisher(a) PROVE IInv'
  <2>1. ASSUME NEW r \in Runs, Fetch(a, r) PROVE IInv'
    BY <2>1, InvFetch
  <2>2. ASSUME NEW mart \in Marts, NEW m \in Months, Load(a, mart, m) PROVE IInv'
    BY <2>2, InvLoad
  <2>3. ASSUME NEW mart \in Marts, NEW m \in Months, CountRows(a, mart, m) PROVE IInv'
    BY <2>3, InvCountRows
  <2>4. ASSUME \/ \E mart \in Marts, m \in Months : LoadFails(a, mart, m)
               \/ Submit(a) \/ PublishReturns(a) \/ PublisherDies(a) \/ ReconcileEnds(a)
        PROVE  IInv'
    BY <2>4, InvMoves
  <2> QED  BY <1>2, <2>1, <2>2, <2>3, <2>4 DEF Publisher
<1>3. ASSUME NEW a \in Attempts, JobCommits(a) PROVE IInv'
  BY <1>3, InvCommits
<1>4. ASSUME NEW a \in Attempts, JobAborts(a) PROVE IInv'
  BY <1>4, InvAborts
<1>5. CASE UNCHANGED vars
  BY <1>5, InvFrame DEF vars, invVars
<1> QED  BY <1>1, <1>2, <1>3, <1>4, <1>5 DEF Next

\* What a publisher relies on between its fetch and its commit holds whatever
\* the others do.
THEOREM PublisherInvariant == Spec => []IInv
<1>1. Init => TypeOK /\ IInv
  BY TypeInit, InvInit
<1>2. TypeOK /\ IInv /\ [Next]_vars => TypeOK' /\ IInv'
  BY TypeStep, InvStep
<1> QED  BY <1>1, <1>2, PTL DEF Spec

\* The rows of the newest publication of a month are all served, in every mart.
THEOREM PublicationIsComplete == Spec => []PublishedComplete
<1>1. IInv => PublishedComplete
  BY DEF IInv
<1> QED  BY <1>1, PublisherInvariant, PTL

\* A run found RECONCILED and not published over is served exactly.
THEOREM ReconciliationIsExact == Spec => []ReconciledExact
<1>1. TypeOK /\ IInv => ReconciledExact
  <2> SUFFICES ASSUME TypeOK, IInv, NEW a \in Attempts, pc[a] = "reconciled",
                      commits[a] = now, NEW p \in PartsOf(run[a])
               PROVE  target[p[1]][p[2]] = RowsOf(Handoff[run[a]][p[2]])
    BY DEF ReconciledExact
  <2>1. checked[a] = PartsOf(run[a]) /\ match[a]
    BY DEF IInv, CountInv
  <2>2. PICK mart \in Marts, m \in Months : p = <<mart, m>>
    BY DEF PartsOf, Covered
  <2> QED  BY <2>1, <2>2 DEF IInv, CountInv
<1> QED  BY <1>1, PublicationTyped, PublisherInvariant, PTL
-----------------------------------------------------------------------------
\* Rows that include all of a snapshot's but are not as many have another key.
LEMMA CountDiffers ==
    ASSUME NEW rows \in Rows, NEW s \in Snapshots,
           \A k \in KeysOf[s] : rows[k] = s,
           RowCount(rows) # Cardinality(KeysOf[s])
    PROVE  \E k \in Keys \ KeysOf[s] : rows[k] # NoSnapshot
<1> DEFINE present == {k \in Keys : rows[k] # NoSnapshot}
<1>1. KeysOf[s] \subseteq Keys /\ s # NoSnapshot
  BY ServingAssumption
<1>2. KeysOf[s] \subseteq present
  BY <1>1
<1>3. present # KeysOf[s]
  BY DEF RowCount
<1> QED  BY <1>2, <1>3

\* A transaction adds the rows of a run it gives a receipt.
LEMMA ServedCommits ==
    ASSUME TypeOK, IInv, ServedInv, NEW a \in Attempts, JobCommits(a)
    PROVE  ServedInv'
<1>1. /\ run[a] \in Runs /\ target' = Published(a) /\ now \in Nat
      /\ receipt' = [receipt EXCEPT ![run[a]] = now + 1]
  BY DEF JobCommits, TypeOK
<1>2. /\ receipt'[run[a]] # 0
      /\ \A r \in Runs : receipt[r] # 0 => receipt'[r] # 0
  BY <1>1 DEF TypeOK
<1>3. \A mart \in Marts, m \in Months :
         target'[mart][m] =
             IF m \in Covered(Handoff[run[a]])
             THEN [k \in Keys |-> IF k \in KeysOf[Handoff[run[a]][m]]
                                  THEN Handoff[run[a]][m] ELSE target[mart][m][k]]
             ELSE target[mart][m]
  BY <1>1, TransactionEffect DEF IInv, JobCommits
<1> SUFFICES ASSUME NEW mart \in Marts, NEW m \in Months, NEW k \in Keys,
                    target'[mart][m][k] # NoSnapshot
             PROVE  \E q \in Runs : /\ receipt'[q] # 0
                                    /\ m \in Covered(Handoff[q])
                                    /\ k \in KeysOf[Handoff[q][m]]
  BY DEF ServedInv, Covered
<1>4. CASE m \in Covered(Handoff[run[a]]) /\ k \in KeysOf[Handoff[run[a]][m]]
  BY <1>1, <1>2, <1>4
<1>5. CASE ~(m \in Covered(Handoff[run[a]]) /\ k \in KeysOf[Handoff[run[a]][m]])
  <2>1. target[mart][m][k] # NoSnapshot
    BY <1>3, <1>5
  <2>2. PICK q \in Runs : /\ receipt[q] # 0
                          /\ m \in Covered(Handoff[q])
                          /\ k \in KeysOf[Handoff[q][m]]
    BY <2>1 DEF ServedInv
  <2> QED  BY <2>2, <1>2
<1> QED  BY <1>4, <1>5

\* Steps that publish nothing and keep what was counted leave the refusals: a
\* publisher that is refused now had a failed count.
LEMMA RefusedFrame ==
    ASSUME RefusedInv, UNCHANGED <<run, checked, match, commits, receipt, now>>,
           \A b \in Attempts : pc'[b] = "mismatch" => pc[b] = "mismatch" \/ ~match[b]
    PROVE  RefusedInv'
BY DEF RefusedInv, LeftOver, Covered

\* A fetch changes the run of a publisher that has counted nothing.
LEMMA RefusedFetch ==
    ASSUME TypeOK, IInv, RefusedInv, NEW a \in Attempts, NEW r \in Runs, Fetch(a, r)
    PROVE  RefusedInv'
<1>1. /\ UNCHANGED <<checked, match, commits, receipt, now>>
      /\ pc'[a] = "loading" /\ pc[a] = "idle"
      /\ \A b \in Attempts : b # a => pc'[b] = pc[b] /\ run'[b] = run[b]
  BY DEF Fetch, TypeOK, checkVars, servedVars
<1>2. checked[a] = {}
  BY <1>1 DEF IInv, CountInv
<1>3. match[a]
  BY <1>2 DEF RefusedInv
<1> SUFFICES ASSUME NEW b \in Attempts
             PROVE  /\ pc'[b] = "mismatch" => ~match[b]
                    /\ ~match[b] => checked[b] # {}
                    /\ ~match[b] /\ commits[b] = now => LeftOver(b)'
  BY <1>1 DEF RefusedInv
<1>4. CASE b = a
  BY <1>1, <1>3, <1>4
<1>5. CASE b # a
  <2>1. LeftOver(b) => LeftOver(b)'
    BY <1>1, <1>5 DEF LeftOver, Covered
  <2> QED  BY <1>1, <1>5, <2>1 DEF RefusedInv
<1> QED  BY <1>4, <1>5

\* A count of the newest publication fails for a row of an earlier one.
LEMMA RefusedCount ==
    ASSUME TypeOK, IInv, ServedInv, RefusedInv, NEW a \in Attempts, NEW mart \in Marts,
           NEW m \in Months, CountRows(a, mart, m)
    PROVE  RefusedInv'
<1>1. /\ UNCHANGED <<pc, run, commits, target, receipt, now>>
      /\ \A b \in Attempts : b # a => checked'[b] = checked[b] /\ match'[b] = match[b]
      /\ checked'[a] = checked[a] \cup {<<mart, m>>}
      /\ match'[a] <=> match[a] /\ CountMatches(run[a], mart, m)
  BY DEF CountRows, attemptVars, servedVars, TypeOK
<1>2. /\ pc[a] = "published" /\ commits[a] > 0 /\ run[a] \in Runs
      /\ m \in Covered(Handoff[run[a]])
  BY DEF CountRows, TypeOK, IInv, JobInv, NumberInv, PartsOf
<1>3. ~CountMatches(run[a], mart, m) /\ commits[a] = now => LeftOver(a)
  <2> SUFFICES ASSUME ~CountMatches(run[a], mart, m), commits[a] = now PROVE LeftOver(a)
    OBVIOUS
  <2>1. \A k \in KeysOf[Handoff[run[a]][m]] : target[mart][m][k] = Handoff[run[a]][m]
    BY <1>2 DEF IInv, NewestServed
  <2>2. target[mart][m] \in Rows /\ Handoff[run[a]][m] \in Snapshots
    BY <1>2, HandoffTyped DEF TypeOK
  <2>3. RowCount(target[mart][m]) # Cardinality(KeysOf[Handoff[run[a]][m]])
    BY DEF CountMatches
  <2>4. PICK k \in Keys \ KeysOf[Handoff[run[a]][m]] : target[mart][m][k] # NoSnapshot
    BY <2>1, <2>2, <2>3, CountDiffers
  <2>5. PICK q \in Runs : /\ receipt[q] # 0
                          /\ m \in Covered(Handoff[q])
                          /\ k \in KeysOf[Handoff[q][m]]
    BY <2>4 DEF ServedInv
  <2> QED  BY <1>2, <2>4, <2>5 DEF LeftOver
<1>4. \A b \in Attempts : LeftOver(b) => LeftOver(b)'
  BY <1>1 DEF LeftOver, Covered
<1> SUFFICES ASSUME NEW b \in Attempts
             PROVE  /\ pc[b] = "mismatch" => ~match'[b]
                    /\ ~match'[b] => checked'[b] # {}
                    /\ ~match'[b] /\ commits[b] = now => LeftOver(b)'
  BY <1>1 DEF RefusedInv
<1>5. CASE b = a
  BY <1>1, <1>2, <1>3, <1>4, <1>5 DEF RefusedInv
<1>6. CASE b # a
  BY <1>1, <1>4, <1>6 DEF RefusedInv
<1> QED  BY <1>5, <1>6

\* A transaction makes every other publication an older one, and its own
\* publisher has counted nothing.
LEMMA RefusedCommits ==
    ASSUME TypeOK, IInv, RefusedInv, NEW a \in Attempts, JobCommits(a)
    PROVE  RefusedInv'
<1>1. /\ UNCHANGED <<pc, run, checked, match>> /\ now' = now + 1 /\ now \in Nat
      /\ \A b \in Attempts : b # a => commits'[b] = commits[b]
      /\ job[a] = "running"
  BY DEF JobCommits, attemptVars, checkVars, TypeOK
<1>2. checked[a] = {}
  BY <1>1 DEF IInv, CountInv
<1>3. match[a]
  BY <1>2 DEF RefusedInv
<1>4. \A b \in Attempts : b # a => commits'[b] # now'
  BY <1>1 DEF IInv, NumberInv, TypeOK
<1> QED  BY <1>1, <1>3, <1>4 DEF RefusedInv

\* Nothing is served or refused without a reason, whatever step is taken.
LEMMA RefusedStep ==
    TypeOK /\ IInv /\ ServedInv /\ RefusedInv /\ [Next]_vars => ServedInv' /\ RefusedInv'
<1> SUFFICES ASSUME TypeOK, IInv, ServedInv, RefusedInv, [Next]_vars
             PROVE  ServedInv' /\ RefusedInv'
  OBVIOUS
<1>1. ASSUME UNCHANGED <<target, receipt>> PROVE ServedInv'
  BY <1>1 DEF ServedInv, Covered
<1>2. ASSUME UNCHANGED <<pc, run, checked, match, commits, receipt, now>> PROVE RefusedInv'
  BY <1>2, RefusedFrame
<1>3. ASSUME NEW r \in Runs, Export(r) PROVE ServedInv' /\ RefusedInv'
  <2>1. UNCHANGED <<target, receipt>>
        /\ UNCHANGED <<pc, run, checked, match, commits, receipt, now>>
    BY <1>3 DEF Export, ExportBegins, WriteFiles, ExportEnds, ExportFails, attemptVars,
                checkVars, servedVars
  <2> QED  BY <2>1, <1>1, <1>2
<1>4. ASSUME NEW a \in Attempts, Publisher(a) PROVE ServedInv' /\ RefusedInv'
  <2>1. UNCHANGED <<target, receipt>>
    BY <1>4 DEF Publisher, Fetch, Load, LoadFails, Submit, PublishReturns, PublisherDies,
                CountRows, ReconcileEnds, servedVars
  <2>2. ASSUME NEW r \in Runs, Fetch(a, r) PROVE RefusedInv'
    BY <2>2, RefusedFetch
  <2>3. ASSUME NEW mart \in Marts, NEW m \in Months, CountRows(a, mart, m)
        PROVE  RefusedInv'
    BY <2>3, RefusedCount
  <2>4. ASSUME NEW mart \in Marts, NEW m \in Months, Load(a, mart, m) PROVE RefusedInv'
    BY <2>4, <1>2 DEF Load, checkVars, servedVars
  <2>5. ASSUME NEW mart \in Marts, NEW m \in Months, LoadFails(a, mart, m)
        PROVE  RefusedInv'
    BY <2>5, RefusedFrame DEF LoadFails, checkVars, servedVars, TypeOK
  <2>6. ASSUME Submit(a) \/ PublishReturns(a) \/ PublisherDies(a) PROVE RefusedInv'
    <3>1. pc'[a] # "mismatch" /\ \A b \in Attempts : b # a => pc'[b] = pc[b]
      BY <2>6 DEF Submit, PublishReturns, PublisherDies, TypeOK
    <3>2. UNCHANGED <<run, checked, match, commits, receipt, now>>
      BY <2>6 DEF Submit, PublishReturns, PublisherDies, checkVars, servedVars
    <3>3. \A b \in Attempts : pc'[b] = "mismatch" => pc[b] = "mismatch" \/ ~match[b]
      BY <3>1
    <3> QED  BY <3>2, <3>3, RefusedFrame
  <2>7. ASSUME ReconcileEnds(a) PROVE RefusedInv'
    <3>1. run[a] \in Runs /\ receipt[run[a]] # 0
      BY <2>7 DEF ReconcileEnds, IInv, JobInv, NumberInv, TypeOK
    <3>2. pc'[a] = "mismatch" => ~match[a]
      BY <2>7, <3>1 DEF ReconcileEnds, TypeOK
    <3>3. \A b \in Attempts : b # a => pc'[b] = pc[b]
      BY <2>7 DEF ReconcileEnds, TypeOK
    <3>4. UNCHANGED <<run, checked, match, commits, receipt, now>>
      BY <2>7 DEF ReconcileEnds, checkVars, servedVars
    <3>5. \A b \in Attempts : pc'[b] = "mismatch" => pc[b] = "mismatch" \/ ~match[b]
      BY <3>2, <3>3
    <3> QED  BY <3>4, <3>5, RefusedFrame
  <2>8. ASSUME NEW mart \in Marts, NEW m \in Months,
               Load(a, mart, m) \/ LoadFails(a, mart, m) \/ CountRows(a, mart, m)
        PROVE  RefusedInv'
    BY <2>8, <2>3, <2>4, <2>5
  <2>9. RefusedInv'
    BY <1>4, <2>2, <2>6, <2>7, <2>8 DEF Publisher
  <2> QED  BY <2>1, <2>9, <1>1
<1>5. ASSUME NEW a \in Attempts, JobCommits(a) PROVE ServedInv' /\ RefusedInv'
  BY <1>5, ServedCommits, RefusedCommits
<1>6. ASSUME NEW a \in Attempts, JobAborts(a) PROVE ServedInv' /\ RefusedInv'
  BY <1>6, <1>1, <1>2 DEF JobAborts, attemptVars, checkVars, servedVars
<1>7. CASE UNCHANGED vars
  BY <1>7, <1>1, <1>2 DEF vars
<1> QED  BY <1>3, <1>4, <1>5, <1>6, <1>7 DEF Next

\* The whole invariant: types, stages, jobs, counts, rows served and refusals.
THEOREM PublicationInvariant == Spec => []Inv
<1>1. Init => Inv
  BY TypeInit, InvInit DEF Init, Inv, ServedInv, RefusedInv, Empty
<1>2. Inv /\ [Next]_vars => Inv'
  BY TypeStep, InvStep, RefusedStep DEF Inv
<1> QED  BY <1>1, <1>2, PTL DEF Spec

\* A publication that nobody published over is refused only for rows an earlier
\* one left behind.
THEOREM MismatchIsExplained == Spec => []MismatchExplained
<1>1. Inv => MismatchExplained
  BY DEF Inv, RefusedInv, MismatchExplained
<1> QED  BY <1>1, PublicationInvariant, PTL
-----------------------------------------------------------------------------
\* One transaction is one atomic publication of a run.
LEMMA CommitPublishes ==
    ASSUME TypeOK, IInv, NEW a \in Attempts, JobCommits(a)
    PROVE  Atomic!Publish(run[a])
<1>1. /\ run[a] \in Runs
      /\ \A mart \in Marts, m \in Months :
            Published(a)[mart][m] =
                IF m \in Covered(Handoff[run[a]])
                THEN [k \in Keys |-> IF k \in KeysOf[Handoff[run[a]][m]]
                                     THEN Handoff[run[a]][m] ELSE target[mart][m][k]]
                ELSE target[mart][m]
  BY TransactionEffect DEF JobCommits, IInv
<1>2. \A m \in Months : m \in Covered(Handoff[run[a]]) <=> Handoff[run[a]][m] # NoSnapshot
  BY DEF Covered
<1>3. \A mart \in Marts, m \in Months :
         Published(a)[mart][m] =
             IF Handoff[run[a]][m] = NoSnapshot THEN target[mart][m]
             ELSE Atomic!Served(target[mart][m], Handoff[run[a]][m])
  BY <1>1, <1>2 DEF Atomic!Served
<1>4. Published(a) = [mart \in Marts |-> [m \in Months |->
                         IF Handoff[run[a]][m] = NoSnapshot THEN target[mart][m]
                         ELSE Atomic!Served(target[mart][m], Handoff[run[a]][m])]]
  BY <1>3 DEF Published
<1> QED  BY <1>4 DEF JobCommits, Atomic!Publish

\* Loads, jobs, deaths and retries implement the atomic publication.
THEOREM PublicationIsAtomic == Spec => AtomicSpec
<1>1. Init => Atomic!Init
  BY DEF Init, Atomic!Init, Empty
<1>2. TypeOK /\ IInv /\ [Next]_vars => [Atomic!Next]_<<target, receipt, now>>
  <2> SUFFICES ASSUME TypeOK, IInv, [Next]_vars
               PROVE  Atomic!Next \/ UNCHANGED <<target, receipt, now>>
    OBVIOUS
  <2>1. ASSUME NEW a \in Attempts, JobCommits(a) PROVE Atomic!Next
    <3>1. run[a] \in Runs
      BY <2>1 DEF JobCommits, TypeOK
    <3> QED  BY <2>1, <3>1, CommitPublishes DEF Atomic!Next
  <2>2. ASSUME NEW r \in Runs, Export(r) PROVE UNCHANGED <<target, receipt, now>>
    BY <2>2 DEF Export, ExportBegins, WriteFiles, ExportEnds, ExportFails, servedVars
  <2>3. ASSUME NEW a \in Attempts, Publisher(a) \/ JobAborts(a)
        PROVE  UNCHANGED <<target, receipt, now>>
    BY <2>3 DEF Publisher, Fetch, Load, LoadFails, Submit, PublishReturns, PublisherDies,
                CountRows, ReconcileEnds, JobAborts, servedVars
  <2>4. CASE UNCHANGED vars
    BY <2>4 DEF vars
  <2> QED  BY <2>1, <2>2, <2>3, <2>4 DEF Next
<1> QED  BY <1>1, <1>2, PublicationTyped, PublisherInvariant, PTL DEF Spec, AtomicSpec, Atomic!Spec
=============================================================================
