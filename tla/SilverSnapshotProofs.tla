------------------------ MODULE SilverSnapshotProofs ------------------------
(***************************************************************************)
(* Proof that the Silver partitions of an accepted snapshot add up, and    *)
(* are exact when the references stood still, for any rows, plans and      *)
(* references.                                                             *)
(***************************************************************************)
EXTENDS SilverSnapshot, FiniteSetTheorems, TLAPS

\* What a run classifies depends on the plan and the references only.
LEMMA SameClassification ==
    ASSUME UNCHANGED <<zone, rate, payment, plan>>
    PROVE  \A m : ValidRows(m)' = ValidRows(m) /\ InvalidRows(m)' = InvalidRows(m)
BY DEF ValidRows, InvalidRows, Reason, ReferenceReason, FailedRules, ZonesOf, Batch

\* Replacing the references ends the promise and leaves the tables alone.
LEMMA SeedKeepsExact ==
    ASSUME ExactSoFar, Seeded, zone' \in ZoneVersions
    PROVE  ExactSoFar'
BY DEF ExactSoFar, Seeded, tables, Working

\* The beginning and the end of a month, and of the transform.
LEMMA MonthKeepsExact ==
    ASSUME ExactSoFar,
           \/ \E p \in Plans : Begin(p)
           \/ \E m \in Months : TakeMonth(m)
           \/ Check
           \/ TransformEnds
    PROVE  ExactSoFar'
<1> USE DEF references, tables, Working
<1>1. CASE \E p \in Plans : Begin(p)
  BY <1>1 DEF ExactSoFar, Begin, MonthsOf, Usable
<1>2. ASSUME NEW m \in Months, TakeMonth(m)
      PROVE  ExactSoFar'
  <2>1. \A n : ValidRows(n)' = ValidRows(n) /\ InvalidRows(n)' = InvalidRows(n)
    BY <1>2, SameClassification DEF TakeMonth
  <2>2. DOMAIN plan \ todo' = (DOMAIN plan \ todo) \cup (DOMAIN plan \cap {m})
    BY <1>2 DEF TakeMonth
  <2> QED  BY <1>2, <2>1, <2>2 DEF ExactSoFar, TakeMonth
<1>3. CASE Check
  <2>1. \A n : ValidRows(n)' = ValidRows(n) /\ InvalidRows(n)' = InvalidRows(n)
    BY <1>3, SameClassification DEF Check
  <2> QED  BY <1>3, <2>1 DEF ExactSoFar, Check
<1>4. CASE TransformEnds
  <2>1. \A n : ValidRows(n)' = ValidRows(n) /\ InvalidRows(n)' = InvalidRows(n)
    BY <1>4, SameClassification DEF TransformEnds
  <2> QED  BY <1>4, <2>1 DEF ExactSoFar, TransformEnds
<1> QED  BY <1>1, <1>2, <1>3, <1>4

\* Counting changes nothing, and a write stores what is classified now.
LEMMA WorkKeepsExact ==
    ASSUME ExactSoFar,
           CountValid \/ CountQuarantine \/ CountBad \/ WriteClean \/ WriteQuarantine
    PROVE  ExactSoFar'
<1> USE DEF references, tables, Working
<1>1. \A n : ValidRows(n)' = ValidRows(n) /\ InvalidRows(n)' = InvalidRows(n)
  BY SameClassification
     DEF CountValid, CountQuarantine, CountBad, Count, WriteClean, WriteQuarantine
<1>2. CASE CountValid \/ CountQuarantine \/ CountBad
  BY <1>1, <1>2 DEF ExactSoFar, CountValid, CountQuarantine, CountBad, Count
<1>3. CASE WriteClean
  <2>1. /\ DOMAIN clean' = Months
        /\ clean'[month] = ValidRows(month)
        /\ \A n \in DOMAIN plan : n # month => clean'[n] = clean[n]
    BY <1>3, RowAssumption DEF WriteClean, ExactSoFar
  <2> QED  BY <1>1, <1>3, <2>1 DEF ExactSoFar, WriteClean
<1>4. CASE WriteQuarantine
  <2>1. /\ DOMAIN quarantine' = Months
        /\ quarantine'[month] = InvalidRows(month)
        /\ \A n \in DOMAIN plan : n # month => quarantine'[n] = quarantine[n]
    BY <1>4, RowAssumption DEF WriteQuarantine, ExactSoFar
  <2> QED  BY <1>1, <1>4, <2>1 DEF ExactSoFar, WriteQuarantine
<1> QED  BY <1>2, <1>3, <1>4

\* A failed task promises nothing, and the gate changes no table.
LEMMA EndKeepsExact ==
    ASSUME ExactSoFar, TaskFails \/ Gate
    PROVE  ExactSoFar'
<1> USE DEF references, tables, Working
<1>1. \A n : ValidRows(n)' = ValidRows(n) /\ InvalidRows(n)' = InvalidRows(n)
  BY SameClassification DEF TaskFails, Gate
<1>2. CASE TaskFails
  BY <1>1, <1>2 DEF ExactSoFar, TaskFails
<1>3. CASE Gate
  BY <1>1, <1>3 DEF ExactSoFar, Gate
<1> QED  BY <1>2, <1>3

\* What the transform has written is exact while the references stand still
\* (silver_clean.run, with any interleaving of seed_references).
THEOREM WrittenExactly == Spec => []ExactSoFar
<1>1. Init => ExactSoFar
  BY DEF Init, ExactSoFar, Working
<1>2. ExactSoFar /\ [Next]_vars => ExactSoFar'
  <2> SUFFICES ASSUME ExactSoFar, [Next]_vars
               PROVE  ExactSoFar'
    OBVIOUS
  <2>1. ASSUME NEW v \in ZoneVersions, SeedZone(v)
        PROVE  ExactSoFar'
    BY <2>1, SeedKeepsExact DEF SeedZone
  <2>2. CASE SeedRate \/ SeedPayment
    BY <2>2, SeedKeepsExact DEF SeedRate, SeedPayment, ExactSoFar
  <2>3. CASE UNCHANGED vars
    <3>1. \A n : ValidRows(n)' = ValidRows(n) /\ InvalidRows(n)' = InvalidRows(n)
      BY <2>3, SameClassification DEF vars
    <3> QED  BY <2>3, <3>1 DEF ExactSoFar, vars, Working
  <2> QED
    BY <2>1, <2>2, <2>3, MonthKeepsExact, WorkKeepsExact, EndKeepsExact DEF Next
<1> QED  BY <1>1, <1>2, PTL DEF Spec

\* No reason has the name of the verdict Valid.
LEMMA RulesAreNotValid ==
    \A i \in DOMAIN Rules : Rules[i] # Valid
BY DEF Rules, Valid

\* Of the rules that fail one is the first.
LEMMA FirstRule ==
    ASSUME NEW S \in SUBSET DOMAIN Rules, S # {}
    PROVE  \E i \in S : \A k \in S : i <= k
<1>1. DOMAIN Rules = {1, 2, 3, 4, 5, 6, 7, 8, 9, 10}
  BY DEF Rules
<1> QED  BY <1>1

\* With the references loaded, the classification is the rules: a row is valid
\* if no rule fails and all of its references resolve.
LEMMA ValidMeansAcceptable ==
    ASSUME rate = "loaded", payment = "loaded", zone \in ZoneVersions,
           NEW s \in Snapshots, NEW r \in RowsOf[s]
    PROVE  Reason(r) = Valid <=> Acceptable(r)
<1>1. r \in AllRows
  BY DEF AllRows
<1>2. FailedRules(r) = {} <=> r.fails = {}
  <2>1. r.fails \subseteq {Rules[i] : i \in DOMAIN Rules}
    BY <1>1, RowAssumption
  <2> QED  BY <2>1 DEF FailedRules
<1>3. ReferenceReason(r) = Valid <=>
          /\ zone[r.pickup] = "known" /\ zone[r.dropoff] = "known"
          /\ r.rate \in RateCodes /\ r.payment \in PaymentTypes
  <2>1. ZonesOf(r) \subseteq {"known", "sentinel", "absent"}
    BY <1>1, RowAssumption DEF ZonesOf
  <2> QED  BY <2>1 DEF ReferenceReason, Valid, ZonesOf
<1>4. CASE FailedRules(r) = {}
  BY <1>2, <1>3, <1>4 DEF Reason, Acceptable
<1>5. CASE FailedRules(r) # {}
  <2>1. PICK i \in FailedRules(r) : \A k \in FailedRules(r) : i <= k
    BY <1>5, FirstRule DEF FailedRules
  <2>2. \E k \in FailedRules(r) : Reason(r) = Rules[k]
    BY <1>5, <2>1 DEF Reason
  <2>3. Reason(r) # Valid
    BY <2>2, RulesAreNotValid DEF FailedRules
  <2> QED  BY <1>2, <1>5, <2>3 DEF Acceptable
<1> QED  BY <1>4, <1>5

\* An accepted snapshot is in the two tables exactly, trip by trip, if the
\* references stood still (silver_clean.py, validity_rules.py).
THEOREM AcceptedExactly == Spec => []ExactWhenSteady
<1>1. ExactSoFar => ExactWhenSteady
  <2> SUFFICES ASSUME ExactSoFar, steady, outcome = "SUCCESS", NEW m \in DOMAIN plan
               PROVE  /\ {t.trip : t \in clean[m]}
                             = {r.trip : r \in {q \in Batch(m) : Acceptable(q)}}
                      /\ {t.trip : t \in quarantine[m]}
                             = {r.trip : r \in {q \in Batch(m) : ~Acceptable(q)}}
    BY DEF ExactWhenSteady
  <2>1. clean[m] = ValidRows(m) /\ quarantine[m] = InvalidRows(m)
    BY DEF ExactSoFar, Working
  <2>2. \A q \in Batch(m) : Reason(q) = Valid <=> Acceptable(q)
    <3>1. plan[m] \in Snapshots
      BY RowAssumption DEF ExactSoFar
    <3> QED  BY <3>1, ValidMeansAcceptable DEF ExactSoFar, Batch
  <2>3. {t.trip : t \in ValidRows(m)} = {r.trip : r \in {q \in Batch(m) : Acceptable(q)}}
    <3>1. ASSUME NEW r \in Batch(m), Reason(r) = Valid
          PROVE  r.trip \in {t.trip : t \in ValidRows(m)}
      <4>1. [trip |-> r.trip, snapshot |-> plan[m]] \in ValidRows(m)
        BY <3>1 DEF ValidRows
      <4> QED  BY <4>1
    <3>2. ASSUME NEW t \in ValidRows(m)
          PROVE  \E r \in Batch(m) : Reason(r) = Valid /\ t.trip = r.trip
      BY DEF ValidRows
    <3> QED  BY <2>2, <3>1, <3>2
  <2>4. {t.trip : t \in InvalidRows(m)} = {r.trip : r \in {q \in Batch(m) : ~Acceptable(q)}}
    <3>1. ASSUME NEW r \in Batch(m), Reason(r) # Valid
          PROVE  r.trip \in {t.trip : t \in InvalidRows(m)}
      <4>1. [trip |-> r.trip, reason |-> Reason(r), snapshot |-> plan[m]] \in InvalidRows(m)
        BY <3>1 DEF InvalidRows
      <4> QED  BY <4>1
    <3>2. ASSUME NEW t \in InvalidRows(m)
          PROVE  \E r \in Batch(m) : Reason(r) # Valid /\ t.trip = r.trip
      BY DEF InvalidRows
    <3> QED  BY <2>2, <3>1, <3>2
  <2> QED  BY <2>1, <2>3, <2>4
<1> QED  BY <1>1, WrittenExactly, PTL

-----------------------------------------------------------------------------
(***************************************************************************)
(* Types. Snapshots are finite, so everything counted is a number.         *)
(***************************************************************************)
LEMMA FiniteCounts ==
    ASSUME ExactSoFar, NEW m \in DOMAIN plan
    PROVE  /\ plan[m] \in Snapshots
           /\ Cardinality(Batch(m)) \in Nat
           /\ Cardinality(ValidRows(m)) \in Nat
           /\ Cardinality(InvalidRows(m)) \in Nat
           /\ Cardinality(BadRows(m)) \in Nat
<1> DEFINE valid == {q \in Batch(m) : Reason(q) = Valid}
           bad == {q \in Batch(m) : Reason(q) # Valid}
<1>1. plan[m] \in Snapshots
  BY RowAssumption DEF ExactSoFar
<1>2. IsFiniteSet(Batch(m))
  BY <1>1, RowAssumption DEF Batch
<1>3. IsFiniteSet(valid) /\ IsFiniteSet(bad)
  BY <1>2, FS_Subset
<1>4. IsFiniteSet(ValidRows(m))
  <2>1. ValidRows(m) = {[trip |-> r.trip, snapshot |-> plan[m]] : r \in valid}
    BY DEF ValidRows
  <2> HIDE DEF valid
  <2> DEFINE f == [r \in valid |-> [trip |-> r.trip, snapshot |-> plan[m]]]
  <2>2. f \in Surjection(valid, ValidRows(m))
    BY <2>1 DEF Surjection
  <2> QED  BY <1>3, <2>2, FS_Surjection
<1>5. IsFiniteSet(InvalidRows(m))
  <2>1. InvalidRows(m) =
            {[trip |-> r.trip, reason |-> Reason(r), snapshot |-> plan[m]] : r \in bad}
    BY DEF InvalidRows
  <2> HIDE DEF bad
  <2> DEFINE f == [r \in bad |->
                      [trip |-> r.trip, reason |-> Reason(r), snapshot |-> plan[m]]]
  <2>2. f \in Surjection(bad, InvalidRows(m))
    BY <2>1 DEF Surjection
  <2> QED  BY <1>3, <2>2, FS_Surjection
<1>6. BadRows(m) = bad
  BY DEF BadRows
<1> QED  BY <1>1, <1>2, <1>3, <1>4, <1>5, <1>6, FS_CardinalityType

LEMMA RowsOfSnapshot ==
    ASSUME NEW m
    PROVE  \A t \in ValidRows(m) \cup InvalidRows(m) : t.snapshot = plan[m]
BY DEF ValidRows, InvalidRows

LEMMA TypeNext ==
    ASSUME TypeOK, ExactSoFar, [Next]_vars
    PROVE  TypeOK'
<1> USE DEF TypeOK, Counts, NoCounts, references, tables
<1>0. pc \in Working => month \in DOMAIN plan
  BY DEF ExactSoFar
<1>1. ASSUME NEW p \in Plans, Begin(p)
      PROVE  TypeOK'
  BY <1>1 DEF Begin, MonthsOf
<1>2. ASSUME NEW m \in Months, TakeMonth(m)
      PROVE  TypeOK'
  BY <1>2 DEF TakeMonth, Working
<1>3. CASE CountValid \/ CountQuarantine \/ CountBad
  <2>1. pc \in Working /\ pc' \in Working
    BY <1>3 DEF CountValid, CountQuarantine, CountBad, Count, Working
  <2>2. \E field \in {"valid", "quarantined", "bad"}, n \in Nat :
            counted' = [counted EXCEPT ![field] = n]
    BY <1>0, <1>3, <2>1, FiniteCounts DEF CountValid, CountQuarantine, CountBad, Count
  <2>3. counted' \in Counts
    BY <2>2
  <2> QED  BY <1>3, <2>1, <2>3 DEF CountValid, CountQuarantine, CountBad, Count
<1>4. CASE WriteClean \/ WriteQuarantine
  <2>1. pc \in Working
    BY <1>4 DEF WriteClean, WriteQuarantine, Working
  <2>2. plan[month] \in Snapshots
    BY <1>0, <2>1, FiniteCounts
  <2>3. \A m \in Months : /\ \A t \in clean'[m] : t.snapshot \in Snapshots
                          /\ \A t \in quarantine'[m] : t.snapshot \in Snapshots
    BY <1>4, <2>2, RowsOfSnapshot DEF WriteClean, WriteQuarantine, ExactSoFar
  <2> QED  BY <1>4, <2>3 DEF WriteClean, WriteQuarantine, Working
<1>5. CASE Check \/ TransformEnds \/ TaskFails \/ Gate
  BY <1>5 DEF Check, TransformEnds, TaskFails, Gate
<1>6. ASSUME NEW v \in ZoneVersions, SeedZone(v)
      PROVE  TypeOK'
  <2>1. seeds' \in Nat
    BY <1>6 DEF SeedZone, BeginSeed
  <2> QED  BY <1>6, <2>1 DEF SeedZone, Seeded
<1>7. CASE SeedRate \/ SeedPayment
  <2>1. seeds' \in Nat
    BY <1>7 DEF SeedRate, SeedPayment, SeedStep, BeginSeed
  <2>2. rate' \in SeedSteps /\ payment' \in SeedSteps
    BY <1>7 DEF SeedRate, SeedPayment, SeedStep, SeedSteps
  <2>3. UNCHANGED zone /\ Seeded
    BY <1>7 DEF SeedRate, SeedPayment
  <2> QED  BY <2>1, <2>2, <2>3 DEF Seeded
<1>8. CASE UNCHANGED vars
  BY <1>8 DEF vars
<1> QED  BY <1>1, <1>2, <1>3, <1>4, <1>5, <1>6, <1>7, <1>8 DEF Next

\* The transform and the gate are well typed, for any finite snapshots.
THEOREM SilverTyped == Spec => []TypeOK
<1>1. Init => TypeOK
  <2> SUFFICES ASSUME Init PROVE TypeOK
    OBVIOUS
  <2>1. month \in Months
    BY RowAssumption DEF Init
  <2>2. NoCounts \in Counts
    BY DEF Counts, NoCounts
  <2>3. \A m \in Months : clean[m] = {} /\ quarantine[m] = {}
    BY DEF Init
  <2> QED  BY <2>1, <2>2, <2>3 DEF Init, TypeOK, SeedSteps
<1> QED  BY <1>1, TypeNext, WrittenExactly, PTL DEF Spec

-----------------------------------------------------------------------------
(***************************************************************************)
(* What was counted is what is stored, month by month.                     *)
(***************************************************************************)
StoredAs(m, counts) ==
    /\ Cardinality(clean[m]) = counts.valid
    /\ Cardinality(quarantine[m]) = counts.quarantined
    /\ \A t \in clean[m] \cup quarantine[m] : t.snapshot = plan[m]

CountInv ==
    /\ pc # "idle" \/ outcome = "SUCCESS" =>
          \A m \in DOMAIN plan \ todo : pc \notin Working \/ m # month =>
              /\ StoredAs(m, metrics[m])
              /\ steady => metrics[m].bad = Cardinality(BadRows(m))
    /\ steady /\ pc \in {"write_clean", "write_quarantine", "check"} =>
          counted.bad = Cardinality(BadRows(month))
    /\ outcome = "SUCCESS" =>
          \A m \in DOMAIN plan : /\ Deduplicated(m) >= 0
                                 /\ metrics[m].bad * OutOf <= MaxBad * RowsIn(m)

LEMMA SameBatch ==
    ASSUME UNCHANGED <<zone, rate, payment, plan>>
    PROVE  \A m : BadRows(m)' = BadRows(m) /\ Batch(m)' = Batch(m)
BY DEF BadRows, Reason, ReferenceReason, FailedRules, ZonesOf, Batch

LEMMA CountNext ==
    ASSUME TypeOK, ExactSoFar, CountInv, [Next]_vars
    PROVE  CountInv'
<1> USE DEF CountInv, StoredAs, Working, references, tables
<1>0. \A m \in Months : m \in DOMAIN clean /\ m \in DOMAIN quarantine /\ m \in DOMAIN metrics
  BY DEF TypeOK, ExactSoFar
<1>1. DOMAIN plan \subseteq Months
  BY RowAssumption DEF TypeOK
<1>2. ASSUME NEW p \in Plans, Begin(p)
      PROVE  CountInv'
  BY <1>2 DEF Begin, MonthsOf
<1>3. ASSUME NEW m \in Months, TakeMonth(m)
      PROVE  CountInv'
  <2>1. \A n : BadRows(n)' = BadRows(n) /\ Batch(n)' = Batch(n)
    BY <1>3, SameBatch DEF TakeMonth
  <2>2. outcome # "SUCCESS"
    BY <1>3 DEF TakeMonth, ExactSoFar
  <2> QED  BY <1>3, <2>1, <2>2 DEF TakeMonth
<1>4. CASE CountValid \/ CountQuarantine \/ CountBad
  <2>1. \A n : BadRows(n)' = BadRows(n)
    BY <1>4, SameBatch DEF CountValid, CountQuarantine, CountBad, Count
  <2>2. outcome # "SUCCESS"
    BY <1>4 DEF CountValid, CountQuarantine, CountBad, Count, ExactSoFar
  <2>3. CountBad => counted'.bad = Cardinality(BadRows(month))
    BY DEF CountBad, Count, TypeOK, Counts
  <2> QED  BY <1>4, <2>1, <2>2, <2>3 DEF CountValid, CountQuarantine, CountBad, Count
<1>5. CASE WriteClean \/ WriteQuarantine
  <2>1. \A n : BadRows(n)' = BadRows(n)
    BY <1>5, SameBatch DEF WriteClean, WriteQuarantine
  <2>2. outcome # "SUCCESS"
    BY <1>5 DEF WriteClean, WriteQuarantine, ExactSoFar
  <2>3. \A n \in Months : n # month =>
            clean'[n] = clean[n] /\ quarantine'[n] = quarantine[n]
    BY <1>0, <1>5 DEF WriteClean, WriteQuarantine
  <2> QED  BY <1>1, <1>5, <2>1, <2>2, <2>3 DEF WriteClean, WriteQuarantine
<1>6. CASE Check
  <2>1. \A n : BadRows(n)' = BadRows(n)
    BY <1>6, SameBatch DEF Check
  <2>2. outcome # "SUCCESS"
    BY <1>6 DEF Check, ExactSoFar
  <2>3. /\ metrics'[month] = counted
        /\ \A n \in Months : n # month => metrics'[n] = metrics[n]
    BY <1>0, <1>6 DEF Check, TypeOK
  <2> QED  BY <1>1, <1>6, <2>1, <2>2, <2>3 DEF Check, StoredMatches
<1>7. CASE TransformEnds
  <2>1. \A n : BadRows(n)' = BadRows(n)
    BY <1>7, SameBatch DEF TransformEnds
  <2>2. outcome # "SUCCESS"
    BY <1>7 DEF TransformEnds, ExactSoFar
  <2> QED  BY <1>7, <2>1, <2>2 DEF TransformEnds
<1>8. CASE TaskFails
  BY <1>8 DEF TaskFails
<1>9. CASE Gate
  <2>1. \A n : BadRows(n)' = BadRows(n) /\ Batch(n)' = Batch(n)
    BY <1>9, SameBatch DEF Gate
  <2>2. \A n : Deduplicated(n)' = Deduplicated(n) /\ RowsIn(n)' = RowsIn(n)
    BY <1>9, <2>1 DEF Gate, Deduplicated, RowsIn
  <2>3. outcome' = "SUCCESS" => GatePasses
    BY <1>9 DEF Gate
  <2> QED  BY <1>9, <2>1, <2>2, <2>3 DEF Gate, GatePasses
<1>10. ASSUME Seeded
       PROVE  CountInv'
  <2>1. \A n : Deduplicated(n)' = Deduplicated(n) /\ RowsIn(n)' = RowsIn(n)
    BY <1>10 DEF Seeded, Deduplicated, RowsIn, Batch
  <2> QED  BY <1>10, <2>1 DEF Seeded
<1>11. CASE UNCHANGED vars
  <2>1. \A n : BadRows(n)' = BadRows(n) /\ Batch(n)' = Batch(n)
    BY <1>11, SameBatch DEF vars
  <2>2. \A n : Deduplicated(n)' = Deduplicated(n) /\ RowsIn(n)' = RowsIn(n)
    BY <1>11, <2>1 DEF vars, Deduplicated, RowsIn
  <2> QED  BY <1>11, <2>1, <2>2 DEF vars
<1> QED  BY <1>2, <1>3, <1>4, <1>5, <1>6, <1>7, <1>8, <1>9, <1>10, <1>11
         DEF Next, SeedZone, SeedRate, SeedPayment

LEMMA CountCorrect == Spec => []CountInv
<1>1. Init => CountInv
  BY DEF Init, CountInv
<1> QED  BY <1>1, CountNext, SilverTyped, WrittenExactly, PTL DEF Spec

\* An accepted snapshot adds up in the tables, whatever was reseeded meanwhile
\* (silver_clean.run, run_dq_gate.run).
THEOREM AcceptedSums == Spec => []AcceptedAddsUp
<1>1. ASSUME TypeOK, ExactSoFar, CountInv, outcome = "SUCCESS", NEW m \in DOMAIN plan
      PROVE  /\ \A t \in clean[m] \cup quarantine[m] : t.snapshot = plan[m]
             /\ Cardinality(clean[m]) + Cardinality(quarantine[m]) + Deduplicated(m) = RowsIn(m)
             /\ Cardinality(clean[m]) + Cardinality(quarantine[m]) <= RowsIn(m)
  <2>1. StoredAs(m, metrics[m]) /\ Deduplicated(m) >= 0
    BY <1>1 DEF CountInv, ExactSoFar, Working
  <2>2. RowsIn(m) \in Nat
    BY <1>1, FiniteCounts DEF RowsIn
  <2>3. metrics[m].valid \in Nat /\ metrics[m].quarantined \in Nat
    BY <1>1, RowAssumption DEF TypeOK, Counts
  <2> QED  BY <2>1, <2>2, <2>3 DEF StoredAs, Deduplicated
<1>2. TypeOK /\ ExactSoFar /\ CountInv => AcceptedAddsUp
  BY <1>1 DEF AcceptedAddsUp
<1> QED  BY <1>2, SilverTyped, WrittenExactly, CountCorrect, PTL

\* Every delivery of a bad trip counts against the threshold of an accepted
\* snapshot, if the references stood still.
THEOREM GateCountsEveryDelivery == Spec => []GateCountsDeliveries
<1>1. ASSUME ExactSoFar, CountInv, steady, outcome = "SUCCESS", NEW m \in DOMAIN plan
      PROVE  Cardinality({r \in Batch(m) : ~Acceptable(r)}) * OutOf <= MaxBad * RowsIn(m)
  <2>1. metrics[m].bad = Cardinality(BadRows(m))
    BY <1>1 DEF CountInv, ExactSoFar, Working
  <2>2. metrics[m].bad * OutOf <= MaxBad * RowsIn(m)
    BY <1>1 DEF CountInv
  <2>3. \A r \in Batch(m) : Reason(r) = Valid <=> Acceptable(r)
    <3>1. plan[m] \in Snapshots
      BY <1>1, FiniteCounts
    <3> QED  BY <1>1, <3>1, ValidMeansAcceptable DEF ExactSoFar, Batch
  <2>4. BadRows(m) = {r \in Batch(m) : ~Acceptable(r)}
    BY <2>3 DEF BadRows
  <2> QED  BY <2>1, <2>2, <2>4
<1>2. ExactSoFar /\ CountInv => GateCountsDeliveries
  BY <1>1 DEF GateCountsDeliveries
<1> QED  BY <1>2, WrittenExactly, CountCorrect, PTL
=============================================================================
