-------------------------- MODULE SourceIntakeProofs --------------------------
(***************************************************************************)
(* The calendar arithmetic of landing, for every date, lag and lookback;   *)
(* and with it, what ended landings have in the bucket.                    *)
(***************************************************************************)
EXTENDS SourceIntake, RawLandingProofs, WellFoundedInduction, TLAPS

-----------------------------------------------------------------------------
(***************************************************************************)
(* Months and their indices.                                               *)
(***************************************************************************)
LEMMA IndexAt ==
    ASSUME NEW i \in Nat
    PROVE  MonthAt(i) \in Month /\ Index(MonthAt(i)) = i
<1>1. /\ i \div 12 \in Nat
      /\ i % 12 \in 0..11
      /\ i = 12 * (i \div 12) + (i % 12)
  OBVIOUS
<1> QED  BY <1>1 DEF MonthAt, Month, Index

LEMMA AtIndex ==
    ASSUME NEW d \in Month
    PROVE  Index(d) \in Nat /\ MonthAt(Index(d)) = d
<1>1. d.year \in Nat /\ d.month \in 1..12
  BY DEF Month
<1>2. Index(d) \in Nat /\ Index(d) = 12 * d.year + (d.month - 1)
  BY <1>1 DEF Index
<1>3. Index(d) \div 12 = d.year /\ Index(d) % 12 = d.month - 1
  BY <1>1, <1>2
<1>4. MonthAt(Index(d)) = [year |-> d.year, month |-> d.month]
  BY <1>1, <1>3 DEF MonthAt
<1> QED  BY <1>2, <1>4 DEF Month

LEMMA IndexInjective ==
    ASSUME NEW d \in Month, NEW e \in Month, Index(d) = Index(e)
    PROVE  d = e
BY AtIndex

\* The loop of months_between visits one month after the other, over the turn
\* of a year too.
THEOREM FollowingIsNext ==
    ASSUME NEW d \in Month
    PROVE  Following(d) \in Month /\ Index(Following(d)) = Index(d) + 1
<1>1. d.year \in Nat /\ d.month \in 1..12
  BY DEF Month
<1>2. CASE d.month = 12
  BY <1>1, <1>2 DEF Following, Month, Index
<1>3. CASE d.month \in 1..11
  <2>1. d.month % 12 = d.month
    BY <1>3
  <2> QED  BY <1>1, <1>3, <2>1 DEF Following, Month, Index
<1> QED  BY <1>1, <1>2, <1>3

\* The loop of candidate_months goes back month by month.
THEOREM PrecedingIsPrior ==
    ASSUME NEW d \in Month, Index(d) > 0
    PROVE  Preceding(d) \in Month /\ Index(Preceding(d)) = Index(d) - 1
BY DEF Preceding, Month, Index

\* Comparing dates compares indices, so runtime_config's order and the loops'
\* order are the same.
THEOREM NotAfterIsOrder ==
    ASSUME NEW d \in Month, NEW e \in Month
    PROVE  NotAfter(d, e) <=> Index(d) <= Index(e)
BY DEF NotAfter, Month, Index

-----------------------------------------------------------------------------
(***************************************************************************)
(* Windows and ranges.                                                     *)
(***************************************************************************)
LEMMA InRange ==
    ASSUME NEW s \in Month, NEW e \in Month
    PROVE  MonthsBetween(s, e) = {m \in Month : Index(s) <= Index(m) /\ Index(m) <= Index(e)}
<1>1. Index(s) \in Nat /\ Index(e) \in Nat
  BY AtIndex
<1>2. ASSUME NEW i \in Index(s)..Index(e)
      PROVE  MonthAt(i) \in Month /\ Index(s) <= Index(MonthAt(i)) /\ Index(MonthAt(i)) <= Index(e)
  BY <1>1, IndexAt
<1>3. ASSUME NEW m \in Month, Index(s) <= Index(m), Index(m) <= Index(e)
      PROVE  \E i \in Index(s)..Index(e) : m = MonthAt(i)
  BY <1>1, <1>3, AtIndex
<1> QED  BY <1>2, <1>3 DEF MonthsBetween

\* months_between visits the months of a range and no other: from a month of
\* the range it goes on to another one, or stops at the last.
THEOREM LoopStaysInRange ==
    ASSUME NEW s \in Month, NEW e \in Month, NEW m \in MonthsBetween(s, e)
    PROVE  IF NotAfter(Following(m), e) THEN Following(m) \in MonthsBetween(s, e)
           ELSE m = e
<1>1. m \in Month /\ Index(s) <= Index(m) /\ Index(m) <= Index(e)
  BY InRange
<1>2. /\ Index(s) \in Nat /\ Index(e) \in Nat /\ Index(m) \in Nat
      /\ Following(m) \in Month /\ Index(Following(m)) = Index(m) + 1
  BY <1>1, AtIndex, FollowingIsNext
<1>3. CASE NotAfter(Following(m), e)
  BY <1>1, <1>2, <1>3, InRange, NotAfterIsOrder
<1>4. CASE ~NotAfter(Following(m), e)
  <2>1. ~(Index(m) + 1 <= Index(e))
    BY <1>2, <1>4, NotAfterIsOrder
  <2>2. Index(m) = Index(e)
    BY <1>1, <1>2, <2>1
  <2> QED  BY <1>1, <1>4, <2>2, IndexInjective
<1> QED  BY <1>3, <1>4

\* And it visits all of them: what has the first month, and with every month the
\* one the loop goes on to, has the whole range. A first month left out would
\* follow one that is not.
THEOREM LoopVisitsAll ==
    ASSUME NEW s \in Month, NEW e \in Month, NEW V, s \in V,
           \A m \in V \cap Month : NotAfter(Following(m), e) => Following(m) \in V
    PROVE  MonthsBetween(s, e) \subseteq V
<1> DEFINE Left == {i \in Nat : i \in Index(s)..Index(e) /\ MonthAt(i) \notin V}
           Before == {q \in Nat \X Nat : q[1] < q[2]}
<1>1. Index(s) \in Nat /\ Index(e) \in Nat /\ MonthAt(Index(s)) = s
  BY AtIndex
<1>2. SUFFICES ASSUME Left # {} PROVE FALSE
  BY <1>1 DEF MonthsBetween
<1>3. PICK i \in Left : \A j \in Left : ~(<<j, i>> \in Before)
  <2>1. IsWellFoundedOn(Before, Nat)
    BY NatLessThanWellFounded DEF OpToRel
  <2>2. Left \subseteq Nat
    OBVIOUS
  <2> HIDE DEF Before, Left
  <2> QED  BY <1>2, <2>1, <2>2, WFMin
<1>4. i \in Nat /\ Index(s) < i /\ i <= Index(e)
  <2>1. i # Index(s)
    BY <1>1
  <2> QED  BY <1>1, <2>1
<1>5. i - 1 \in Nat /\ Index(s) <= i - 1 /\ i - 1 < i /\ i - 1 <= Index(e)
  BY <1>1, <1>4
<1>6. i - 1 \notin Left
  BY <1>3, <1>4, <1>5
<1>7. MonthAt(i - 1) \in V
  BY <1>1, <1>5, <1>6
<1>8. MonthAt(i - 1) \in Month /\ Index(MonthAt(i - 1)) = i - 1
  BY <1>5, IndexAt
<1>9. Following(MonthAt(i - 1)) \in Month /\ Index(Following(MonthAt(i - 1))) = i
  BY <1>4, <1>8, FollowingIsNext
<1>10. Following(MonthAt(i - 1)) \in V
  BY <1>4, <1>7, <1>8, <1>9, NotAfterIsOrder
<1>11. Following(MonthAt(i - 1)) = MonthAt(i)
  BY <1>9, AtIndex
<1> QED  BY <1>10, <1>11

\* expected_months lists the months that are late by Lag months or more, and by
\* less than Lag + Lookback.
THEOREM WindowIsLateMonths ==
    ASSUME NEW now \in Month, Index(now) >= Lag + Lookback - 1
    PROVE  MonthsBetween(FirstExpected(now), LastExpected(now)) =
               {m \in Month : Index(now) - Index(m) \in Lag..(Lag + Lookback - 1)}
<1>1. /\ Index(now) \in Nat
      /\ Index(now) - Lag - Lookback + 1 \in Nat
      /\ Index(now) - Lag \in Nat
      /\ Lag + Lookback - 1 \in Nat
  BY AtIndex, LaunchAssumption
<1>2. /\ FirstExpected(now) \in Month
      /\ Index(FirstExpected(now)) = Index(now) - Lag - Lookback + 1
      /\ LastExpected(now) \in Month
      /\ Index(LastExpected(now)) = Index(now) - Lag
  BY <1>1, IndexAt DEF FirstExpected, LastExpected
<1>3. ASSUME NEW m \in Month
      PROVE  (/\ Index(FirstExpected(now)) <= Index(m)
              /\ Index(m) <= Index(LastExpected(now)))
             <=> Index(now) - Index(m) \in Lag..(Lag + Lookback - 1)
  BY <1>1, <1>2, AtIndex, LaunchAssumption
<1> QED  BY <1>2, <1>3, InRange

\* No month falls between two windows: the newest month of the next window
\* follows the newest month of this one, so a month is the newest one once and
\* stays for Lookback months.
THEOREM WindowsLeaveNoGap ==
    ASSUME NEW now \in Month, Index(now) >= Lag
    PROVE  LastExpected(Following(now)) = Following(LastExpected(now))
<1>1. /\ Index(now) \in Nat /\ Index(now) - Lag \in Nat
      /\ Index(Following(now)) = Index(now) + 1
  BY AtIndex, FollowingIsNext, LaunchAssumption
<1>2. /\ LastExpected(now) \in Month
      /\ Index(LastExpected(now)) = Index(now) - Lag
  BY <1>1, IndexAt DEF LastExpected
<1>3. /\ LastExpected(Following(now)) \in Month
      /\ Index(LastExpected(Following(now))) = Index(now) + 1 - Lag
  <2> DEFINE n == Index(Following(now)) - Lag
  <2>1. n \in Nat /\ n = Index(now) + 1 - Lag
    BY <1>1, LaunchAssumption
  <2>2. MonthAt(n) \in Month /\ Index(MonthAt(n)) = n
    BY <2>1, IndexAt
  <2> QED  BY <2>1, <2>2 DEF LastExpected
<1>4. /\ Following(LastExpected(now)) \in Month
      /\ Index(Following(LastExpected(now))) = Index(now) - Lag + 1
  BY <1>2, FollowingIsNext
<1> QED  BY <1>1, <1>3, <1>4, IndexInjective, LaunchAssumption

-----------------------------------------------------------------------------
(***************************************************************************)
(* What a run is launched with.                                            *)
(***************************************************************************)

\* An accepted backfill has between one month and twelve, and its URIs, if it
\* has any, are for just these.
THEOREM AcceptedBackfill ==
    ASSUME NEW p \in Parameters, Accepted(p), p.start # NoDate
    PROVE  /\ p.start \in Month /\ p.end \in Month
           /\ Index(p.end) - Index(p.start) \in 0..11
           /\ p.items # {} => p.items = {m \in Month : /\ Index(p.start) <= Index(m)
                                                     /\ Index(m) <= Index(p.end)}
<1>1. p.start \in Month /\ p.end \in Month
  BY DEF Parameters, Accepted
<1>2. Index(p.start) <= Index(p.end) /\ Index(p.end) - Index(p.start) < 12
  BY <1>1, NotAfterIsOrder DEF Accepted
<1> QED  BY <1>1, <1>2, InRange, AtIndex DEF Accepted

\* backfill.py refuses a range if, and only if, runtime_config would.
THEOREM SameRangeCheck ==
    ASSUME NEW s \in Month, NEW e \in Month
    PROVE  BackfillAllowed(s, e) <=> Accepted([start |-> s, end |-> e, items |-> {}])
BY LaunchAssumption DEF BackfillAllowed, Accepted

\* With the job's default source_uri, however, no backfill of backfill.py gets
\* past runtime_config, and no scheduled run does.
THEOREM DefaultUriRefused ==
    ASSUME NEW s \in Month \cup {NoDate}, NEW e \in Month \cup {NoDate}
    PROVE  ~Accepted(BackfillScript(s, e))
BY DEF Accepted, BackfillScript
-----------------------------------------------------------------------------
(***************************************************************************)
(* The invariant of the intake of files.                                   *)
(***************************************************************************)
USE SumAssumption, LaunchAssumption

\* Who was told its upload landed finds its content in the bucket.
StoredInv ==
    \A p \in Uploaders : upload[p] = "landed" => object[item[p][1]] = item[p][2]

\* Nothing begins before the behaviour or after today, and a file that changed
\* while an actor was at work changed no earlier than it began.
Timely(a) ==
    a # Idle => /\ Index(a.began) \in Index(FirstDay)..Index(today)
                /\ \A m \in a.touched : Index(since[m]) >= Index(a.began)

DayInv ==
    /\ Index(today) >= Index(FirstDay)
    /\ \A n \in ran : Index(n) <= Index(today)
    /\ Timely(daily) /\ Timely(job)

\* What a landing owes for a month it is done with.
Settled(m) ==
    \/ file[m] # NoFile /\ Landed(m)
    \/ /\ file[m] = NoFile
       /\ job.ask.start = NoDate
       /\ Index(job.began) - Index(m) = Lag

Owed == Wanted(job.ask, job.began) \ (job.ask.items \cup job.touched)

\* The loop of the landing task: it stays in its range, and is done with every
\* month before the current one; what it uploads is the current month's file.
JobInv ==
    job # Idle =>
        /\ Accepted(job.ask)
        /\ job.step # "ended" =>
               /\ Index(FirstMonth(job.ask, job.began)) <= Index(job.month)
               /\ Index(job.month) <= Index(LastAsked)
        /\ \A m \in Owed : job.step = "ended" \/ Index(m) < Index(job.month) => Settled(m)
        /\ job.step = "landing" =>
               /\ job.month \in Calendar
               /\ \E c \in Contents :
                      /\ item["job"] = <<FileUri(job.month, c), c>>
                      /\ job.month \notin job.touched => file[job.month] = c

\* The loop of discover_latest: candidates later than the current one have no file.
DailyInv ==
    daily # Idle =>
        /\ Index(daily.month) = Index(daily.began) - DailyLookback + daily.left
        /\ \A m \in Calendar \ daily.touched :
               /\ Index(m) <= Index(daily.began)
               /\ \/ daily.step \in {"probing", "getting", "landing"}
                     /\ Index(m) > Index(daily.month)
                  \/ daily.step = "no_data" /\ Index(m) >= Index(daily.began) - DailyLookback
               => file[m] = NoFile

IntakeInv == StoredInv /\ DayInv /\ JobInv /\ DailyInv /\ LateArrivalsLanded

-----------------------------------------------------------------------------
\* The range of a landing is well defined, and is the set of months it is about.
LEMMA AskedRange ==
    ASSUME IntakeAssumption, NEW p \in Launches, Accepted(p), NEW d \in Month,
           Index(d) >= Index(FirstDay)
    PROVE  /\ FirstMonth(p, d) \in Month /\ LastMonth(p, d) \in Month
           /\ Index(FirstMonth(p, d)) <= Index(LastMonth(p, d))
           /\ p.start = NoDate => Index(LastMonth(p, d)) = Index(d) - Lag
           /\ \A m \in Calendar : m \in Wanted(p, d) <=>
                  /\ Index(FirstMonth(p, d)) <= Index(m)
                  /\ Index(m) <= Index(LastMonth(p, d))
<1>1. /\ Index(d) \in Nat /\ Index(FirstDay) \in Nat
      /\ Index(FirstDay) >= Lag + Lookback /\ p \in Parameters
      /\ \A m \in Calendar : Index(m) \in Nat
  BY AtIndex DEF IntakeAssumption
<1>2. CASE p.start = NoDate
  <2>1. Index(d) - Lag - Lookback + 1 \in Nat /\ Index(d) - Lag \in Nat
    BY <1>1
  <2>2. /\ FirstExpected(d) \in Month /\ LastExpected(d) \in Month
        /\ Index(FirstExpected(d)) = Index(d) - Lag - Lookback + 1
        /\ Index(LastExpected(d)) = Index(d) - Lag
    BY <2>1, IndexAt DEF FirstExpected, LastExpected
  <2>3. FirstMonth(p, d) = FirstExpected(d) /\ LastMonth(p, d) = LastExpected(d)
    BY <1>2 DEF FirstMonth, LastMonth
  <2>4. \A m \in Calendar : m \in Wanted(p, d) <=>
            Index(d) - Index(m) \in Lag..(Lag + Lookback - 1)
    BY <1>2 DEF Wanted
  <2> QED  BY <1>1, <1>2, <2>2, <2>3, <2>4
<1>3. CASE p.start # NoDate
  <2>1. p.start \in Month /\ p.end \in Month /\ Index(p.start) <= Index(p.end)
    BY <1>1, <1>3, NotAfterIsOrder DEF Accepted, Parameters
  <2>2. FirstMonth(p, d) = p.start /\ LastMonth(p, d) = p.end
    BY <1>3 DEF FirstMonth, LastMonth
  <2>3. Index(p.start) \in Nat /\ Index(p.end) \in Nat
    BY <2>1, AtIndex
  <2>4. \A m \in Calendar : m \in Wanted(p, d) <=> Index(m) \in Index(p.start)..Index(p.end)
    BY <1>3 DEF Wanted
  <2> QED  BY <1>1, <1>3, <2>1, <2>2, <2>3, <2>4
<1> QED  BY <1>2, <1>3

\* The steps by who takes them, and what they leave alone.
ClockStep == MonthPasses \/ \E m \in Calendar, c \in Contents \cup {NoFile} : ChangeFile(m, c)
DailyStep == DailyBegins \/ DailyProbes \/ DailyGets \/ DailyEnds
JobStep == \/ \E p \in Launches : JobBegins(p)
           \/ JobRegisters \/ JobSkips \/ JobFetches \/ JobLanded \/ JobFails
StorageStep == \E p \in Actors : UploadStep(p) /\ UNCHANGED sourceVars

LEMMA DailyFrame ==
    ASSUME FilesTypeOK, DailyStep
    PROVE  /\ UNCHANGED <<clockVars, job, ran, object>>
           /\ \A p \in Uploaders \ {"daily"} : upload'[p] = upload[p] /\ item'[p] = item[p]
           /\ \/ upload'["daily"] = upload["daily"] /\ item'["daily"] = item["daily"]
              \/ upload'["daily"] # "landed"
BY DEF DailyStep, DailyBegins, DailyProbes, DailyGets, DailyEnds, BeginUpload, Release,
   rawVars, FilesTypeOK, RawTypeOK

LEMMA JobFrame ==
    ASSUME FilesTypeOK, JobStep
    PROVE  /\ UNCHANGED <<clockVars, daily, object>>
           /\ \A p \in Uploaders \ {"job"} : upload'[p] = upload[p] /\ item'[p] = item[p]
           /\ \/ upload'["job"] = upload["job"] /\ item'["job"] = item["job"]
              \/ upload'["job"] # "landed"
BY DEF JobStep, JobBegins, JobRegisters, JobSkips, JobFetches, JobLanded, JobFails,
   BeginUpload, Release, rawVars, FilesTypeOK, RawTypeOK

LEMMA StorageFrame ==
    ASSUME FilesTypeOK, StorageStep
    PROVE  /\ UNCHANGED <<sourceVars, item>>
           /\ \A u \in Uris : object[u] # NoObject => object'[u] = object[u]
           /\ \A p \in Uploaders : upload'[p] = "landed" =>
                  \/ upload[p] = "landed"
                  \/ object'[item[p][1]] = item[p][2]
<1>1. PICK p \in Actors : UploadStep(p) /\ UNCHANGED sourceVars
  BY DEF StorageStep
<1>2. /\ object \in [Uris -> Sums \cup {NoSum, NoObject}]
      /\ upload \in [Uploaders -> UploadState]
      /\ \A q \in Uploaders : upload[q] # "idle" => item[q] \in Uris \X Sums
  BY DEF FilesTypeOK, RawTypeOK
<1>3. CASE Create(p)
  <2>1. object' = [object EXCEPT ![item[p][1]] = item[p][2]] /\ upload[p] = "sending"
    BY <1>3 DEF Create
  <2>2. \A u \in Uris : object[u] # NoObject => object'[u] = object[u]
    BY <1>2, <1>3, <2>1 DEF Create, Absent
  <2>3. \A q \in Uploaders : upload'[q] = "landed" =>
            upload[q] = "landed" \/ (q = p /\ item[q] \in Uris \X Sums)
    BY <1>2, <1>3, <2>1 DEF Create
  <2> QED  BY <1>1, <1>2, <1>3, <2>1, <2>2, <2>3 DEF Create
<1>4. CASE Compare(p)
  <2>1. \A q \in Uploaders : upload'[q] = "landed" =>
            upload[q] = "landed" \/ (q = p /\ SameContent(p))
    BY <1>2, <1>4 DEF Compare
  <2> QED  BY <1>1, <1>4, <2>1 DEF Compare, SameContent
<1>5. CASE Refuse(p) \/ UploadFails(p)
  BY <1>1, <1>2, <1>5 DEF Refuse, UploadFails
<1> QED  BY <1>1, <1>3, <1>4, <1>5 DEF UploadStep

LEMMA StepKinds ==
    ASSUME [FilesNext]_filesVars
    PROVE  ClockStep \/ DailyStep \/ JobStep \/ StorageStep \/ UNCHANGED filesVars
BY DEF FilesNext, ClockStep, DailyStep, JobStep, StorageStep
-----------------------------------------------------------------------------
(***************************************************************************)
(* Types.                                                                  *)
(***************************************************************************)
DailyRecord == [step : {"probing", "getting", "landing", "no_data"},
                began : Month, month : Month, left : 0..DailyLookback,
                touched : SUBSET Calendar]

JobRecord == [step : {"fetching", "landing", "ended"},
              began : Month, month : Month, ask : Launches,
              touched : SUBSET Calendar]

\* What an upload of a file begins with.
LEMMA UploadBegins ==
    ASSUME IntakeAssumption, RawTypeOK, NEW p \in Actors, NEW m \in Calendar,
           NEW c \in Contents, BeginUpload(p, FileUri(m, c), c)
    PROVE  /\ RawTypeOK' /\ object' = object /\ item'[p] = <<FileUri(m, c), c>>
           /\ upload'[p] = "sending"
<1>1. p \in Uploaders /\ <<FileUri(m, c), c>> \in Uris \X Sums
  BY DEF IntakeAssumption
<1> HIDE DEF IntakeAssumption
<1>2. <<FileUri(m, c), c>> # NoItem
  BY <1>1
<1> QED  BY <1>1, <1>2 DEF BeginUpload, RawTypeOK, UploadState

LEMMA Released ==
    ASSUME RawTypeOK, NEW p \in Uploaders, Release(p)
    PROVE  RawTypeOK' /\ object' = object
BY DEF Release, RawTypeOK, UploadState

LEMMA FileServed ==
    ASSUME IntakeAssumption, FilesTypeOK, NEW m, FileOf(m) # NoFile
    PROVE  m \in Calendar /\ FileOf(m) = file[m] /\ FileOf(m) \in Contents
BY DEF FileOf, FilesTypeOK, IntakeAssumption

LEMMA TypeDaily ==
    ASSUME IntakeAssumption, FilesTypeOK, DayInv, DailyInv, DailyStep
    PROVE  FilesTypeOK'
<1>1. UNCHANGED <<clockVars, job, ran>>
  BY DailyFrame
<1>2. daily \in {Idle} \cup DailyRecord /\ RawTypeOK /\ "daily" \in Uploaders /\ today \in Month
      /\ DailyLookback \in Nat
  BY DEF FilesTypeOK, DailyRecord, IntakeAssumption, Actors
<1>3. (daily' \in {Idle} \cup DailyRecord) /\ RawTypeOK'
  <2>1. CASE DailyBegins
    BY <1>2, <2>1 DEF DailyBegins, DailyRecord, rawVars, RawTypeOK
  <2>2. CASE DailyProbes
    <3>1. daily \in DailyRecord /\ daily.step = "probing" /\ RawTypeOK'
      BY <1>2, <2>2 DEF DailyProbes, Idle, rawVars, RawTypeOK
    <3>2. daily.month \in Month /\ daily.left \in 0..DailyLookback /\ daily.began \in Month
      BY <3>1 DEF DailyRecord
    <3>3. ~Exhausted => Preceding(daily.month) \in Month /\ daily.left - 1 \in 0..DailyLookback
      <4>1. /\ Index(daily.month) = Index(daily.began) - DailyLookback + daily.left
            /\ Index(daily.began) >= Index(FirstDay) /\ Index(FirstDay) > DailyLookback
            /\ Index(daily.began) \in Nat /\ Index(FirstDay) \in Nat
        BY <3>1, <3>2, AtIndex DEF DailyInv, DayInv, Timely, IntakeAssumption, Idle
      <4>2. Index(daily.month) > 0
        BY <1>2, <3>2, <4>1
      <4> QED  BY <1>2, <3>2, <4>2, PrecedingIsPrior DEF Exhausted
    <3> QED  BY <2>2, <3>1, <3>3 DEF DailyProbes, Daily, DailyRecord
  <2>3. CASE DailyGets
    <3>1. daily \in DailyRecord
      BY <1>2, <2>3 DEF DailyGets, Idle
    <3>2. CASE FileOf(daily.month) = NoFile
      BY <1>2, <2>3, <3>2 DEF DailyGets, rawVars, RawTypeOK
    <3>3. CASE FileOf(daily.month) # NoFile
      BY <1>2, <2>3, <3>1, <3>3, FileServed, UploadBegins DEF DailyGets, Daily,
         DailyRecord, Actors
    <3> QED  BY <3>2, <3>3
  <2>4. CASE DailyEnds
    BY <1>2, <2>4, Released DEF DailyEnds
  <2> QED  BY <2>1, <2>2, <2>3, <2>4 DEF DailyStep
<1> QED  BY <1>1, <1>3 DEF FilesTypeOK, DailyRecord, clockVars

\* A turn of the landing loop.
LEMMA NextTurn ==
    ASSUME IntakeAssumption, FilesTypeOK, DayInv, JobInv, job \in JobRecord,
           job.step # "ended", NextMonth
    PROVE  /\ job' \in JobRecord /\ (ran' \subseteq Month)
           /\ job'.began = job.began /\ job'.ask = job.ask /\ job'.touched = job.touched
           /\ \/ /\ job'.step = "fetching" /\ ran' = ran
                 /\ Index(job'.month) = Index(job.month) + 1
                 /\ Index(job'.month) <= Index(LastAsked)
              \/ /\ job'.step = "ended" /\ job'.month = job.month
                 /\ Index(job.month) = Index(LastAsked)
                 /\ ran' = IF job.ask.start = NoDate THEN ran \cup {job.began} ELSE ran
<1>1. /\ job.began \in Month /\ job.month \in Month /\ job.ask \in Launches /\ ran \subseteq Month
      /\ job # Idle
  BY DEF JobRecord, FilesTypeOK, Idle
<1>2. Accepted(job.ask) /\ Index(job.began) >= Index(FirstDay)
      /\ Index(job.month) <= Index(LastAsked)
  BY <1>1, AtIndex DEF JobInv, DayInv, Timely, IntakeAssumption, FilesTypeOK
<1>3. LastAsked \in Month
  BY <1>1, <1>2, AskedRange DEF LastAsked
<1>4. /\ Following(job.month) \in Month /\ Index(Following(job.month)) = Index(job.month) + 1
      /\ Index(job.month) \in Nat /\ Index(LastAsked) \in Nat
      /\ NotAfter(Following(job.month), LastAsked) <=> Index(job.month) + 1 <= Index(LastAsked)
  BY <1>1, <1>3, FollowingIsNext, AtIndex, NotAfterIsOrder
<1>5. CASE NotAfter(Following(job.month), LastAsked)
  BY <1>1, <1>4, <1>5 DEF NextMonth, JobRecord
<1>6. CASE ~NotAfter(Following(job.month), LastAsked)
  BY <1>1, <1>2, <1>4, <1>6 DEF NextMonth, LandingEnds, Job, JobRecord
<1> QED  BY <1>5, <1>6

LEMMA TypeJob ==
    ASSUME IntakeAssumption, FilesTypeOK, DayInv, JobInv, JobStep
    PROVE  FilesTypeOK'
<1>1. UNCHANGED <<clockVars, daily>>
  BY JobFrame
<1>2. job \in {Idle} \cup JobRecord /\ RawTypeOK /\ "job" \in Uploaders /\ today \in Month
      /\ ran \subseteq Month
  BY DEF FilesTypeOK, JobRecord, IntakeAssumption, Actors
<1>3. (job' \in {Idle} \cup JobRecord) /\ RawTypeOK' /\ (ran' \subseteq Month)
  <2>1. ASSUME NEW p \in Launches, JobBegins(p)
        PROVE  (job' \in {Idle} \cup JobRecord) /\ RawTypeOK' /\ (ran' \subseteq Month)
    <3>1. FirstMonth(p, today) \in Month
      BY <1>2, <2>1, AskedRange DEF JobBegins, DayInv
    <3> QED  BY <1>2, <2>1, <3>1 DEF JobBegins, JobRecord, rawVars, RawTypeOK
  <2>2. CASE JobRegisters
    BY <1>2, <2>2, NextTurn DEF JobRegisters, Idle, rawVars, RawTypeOK
  <2>3. CASE JobSkips
    BY <1>2, <2>3 DEF JobSkips, LandingEnds, Job, Idle, JobRecord, rawVars, RawTypeOK
  <2>4. CASE JobFetches
    <3>1. job \in JobRecord
      BY <1>2, <2>4 DEF JobFetches, Idle
    <3> QED  BY <1>2, <2>4, <3>1, FileServed, UploadBegins DEF JobFetches, Job, JobRecord, Actors
  <2>5. CASE JobLanded
    BY <1>2, <2>5, NextTurn, Released DEF JobLanded, Idle
  <2>6. CASE JobFails
    BY <1>2, <2>6, Released DEF JobFails
  <2> QED  BY <2>1, <2>2, <2>3, <2>4, <2>5, <2>6 DEF JobStep
<1> QED  BY <1>1, <1>3 DEF FilesTypeOK, JobRecord, clockVars

LEMMA TypeClock ==
    ASSUME IntakeAssumption, FilesTypeOK, ClockStep
    PROVE  FilesTypeOK'
<1>1. CASE MonthPasses
  BY <1>1, FollowingIsNext DEF MonthPasses, FilesTypeOK, rawVars, RawTypeOK
<1>2. ASSUME NEW m \in Calendar, NEW c \in Contents \cup {NoFile}, ChangeFile(m, c)
      PROVE  FilesTypeOK'
  <2>1. daily' \in {Idle} \cup DailyRecord
    BY <1>2 DEF ChangeFile, Seen, FilesTypeOK, DailyRecord
  <2>2. job' \in {Idle} \cup JobRecord
    BY <1>2 DEF ChangeFile, Seen, FilesTypeOK, JobRecord
  <2>3. changes' \in 0..MaxChanges
    BY <1>2 DEF ChangeFile, FilesTypeOK, IntakeAssumption
  <2> QED  BY <1>2, <2>1, <2>2, <2>3 DEF ChangeFile, FilesTypeOK, rawVars, RawTypeOK, DailyRecord,
           JobRecord
<1> QED  BY <1>1, <1>2 DEF ClockStep

LEMMA TypeStorage ==
    ASSUME IntakeAssumption, FilesTypeOK, StorageStep
    PROVE  FilesTypeOK'
<1>1. PICK p \in Actors : UploadStep(p) /\ UNCHANGED sourceVars
  BY DEF StorageStep
<1>2. p \in Uploaders /\ RawTypeOK
  BY DEF IntakeAssumption, FilesTypeOK
<1>3. RawTypeOK'
  <2>1. CASE Create(p)
    <3>1. item[p] \in Uris \X Sums
      BY <1>2, <2>1 DEF Create, RawTypeOK
    <3> QED  BY <1>2, <2>1, <3>1 DEF Create, RawTypeOK, UploadState
  <2>2. CASE Refuse(p) \/ Compare(p) \/ UploadFails(p)
    BY <1>2, <2>2 DEF Refuse, Compare, UploadFails, RawTypeOK, UploadState
  <2> QED  BY <1>1, <2>1, <2>2 DEF UploadStep
<1> QED  BY <1>1, <1>3 DEF FilesTypeOK, sourceVars, clockVars
-----------------------------------------------------------------------------
(***************************************************************************)
(* The invariant is kept.                                                  *)
(***************************************************************************)
\* A stored file stays stored: objects are never replaced.
LEMMA LandedStays ==
    ASSUME IntakeAssumption, FilesTypeOK, StorageStep, NEW m \in Calendar, NEW c \in Contents,
           object[FileUri(m, c)] = c
    PROVE  object'[FileUri(m, c)] = c
BY StorageFrame DEF IntakeAssumption

LEMMA StoredStep ==
    ASSUME FilesTypeOK, StoredInv, [FilesNext]_filesVars
    PROVE  StoredInv'
<1>1. CASE DailyStep
  BY <1>1, DailyFrame DEF StoredInv
<1>2. CASE JobStep
  BY <1>2, JobFrame DEF StoredInv
<1>3. CASE StorageStep
  <2>1. ASSUME NEW p \in Uploaders, upload'[p] = "landed"
        PROVE  object'[item'[p][1]] = item'[p][2]
    <3>1. CASE upload[p] = "landed"
      <4>1. item[p] \in Uris \X Sums /\ object[item[p][1]] = item[p][2]
        BY <3>1 DEF StoredInv, FilesTypeOK, RawTypeOK
      <4> QED  BY <1>3, <4>1, StorageFrame
    <3>2. CASE upload[p] # "landed"
      BY <1>3, <2>1, <3>2, StorageFrame
    <3> QED  BY <3>1, <3>2
  <2> QED  BY <2>1 DEF StoredInv
<1>4. CASE ClockStep \/ UNCHANGED filesVars
  BY <1>4 DEF ClockStep, MonthPasses, ChangeFile, rawVars, filesVars, StoredInv
<1> QED  BY <1>1, <1>2, <1>3, <1>4, StepKinds

LEMMA DayStep ==
    ASSUME IntakeAssumption, FilesTypeOK, FilesTypeOK', DayInv, JobInv, [FilesNext]_filesVars
    PROVE  DayInv'
<1>0. /\ Index(today) \in Nat /\ Index(FirstDay) \in Nat /\ today \in Month
      /\ \A n \in ran : Index(n) \in Nat
      /\ \A m \in Calendar : Index(since[m]) \in Nat
      /\ daily \in {Idle} \cup DailyRecord /\ job \in {Idle} \cup JobRecord
      /\ since \in [Calendar -> Month]
  BY AtIndex DEF FilesTypeOK, IntakeAssumption, DailyRecord, JobRecord
<1>1. CASE DailyStep
  <2>1. UNCHANGED <<clockVars, job, ran>>
    BY <1>1, DailyFrame
  <2>2. daily' # Idle => \/ daily'.began = today /\ daily'.touched = {}
                         \/ /\ daily # Idle /\ daily'.began = daily.began
                            /\ daily'.touched = daily.touched
    <3>1. CASE DailyBegins
      BY <3>1 DEF DailyBegins
    <3>2. CASE DailyProbes \/ DailyGets
      <4>1. daily \in DailyRecord /\ daily # Idle
        BY <1>0, <3>2 DEF DailyProbes, DailyGets, Idle
      <4> QED  BY <3>2, <4>1 DEF DailyProbes, DailyGets, Daily, DailyRecord
    <3>3. CASE DailyEnds
      BY <3>3 DEF DailyEnds
    <3> QED  BY <1>1, <3>1, <3>2, <3>3 DEF DailyStep
  <2>3. Timely(job)'
    BY <2>1 DEF DayInv, Timely, clockVars
  <2>4. Timely(daily)'
    BY <1>0, <2>1, <2>2 DEF DayInv, Timely, clockVars
  <2> QED  BY <2>1, <2>3, <2>4 DEF DayInv, clockVars
<1>2. CASE JobStep
  <2>1. UNCHANGED <<clockVars, daily>>
    BY <1>2, JobFrame
  <2>2. /\ job' # Idle => \/ job'.began = today /\ job'.touched = {}
                          \/ /\ job # Idle /\ job'.began = job.began
                             /\ job'.touched = job.touched
        /\ \/ ran' \subseteq ran \cup {today}
           \/ job # Idle /\ ran' \subseteq ran \cup {job.began}
    <3>1. CASE \E p \in Launches : JobBegins(p)
      BY <3>1 DEF JobBegins
    <3>2. CASE JobRegisters \/ JobLanded
      <4>1. job \in JobRecord /\ job.step # "ended" /\ job # Idle /\ NextMonth
        BY <1>0, <3>2 DEF JobRegisters, JobLanded, Idle
      <4> QED  BY <4>1, NextTurn
    <3>3. CASE JobSkips
      BY <1>0, <3>3 DEF JobSkips, LandingEnds, Job, Idle, JobRecord
    <3>4. CASE JobFetches \/ JobFails
      BY <1>0, <3>4 DEF JobFetches, JobFails, Job, Idle, JobRecord
    <3> QED  BY <1>2, <3>1, <3>2, <3>3, <3>4 DEF JobStep
  <2>3. Timely(daily)'
    BY <2>1 DEF DayInv, Timely, clockVars
  <2>4. Timely(job)'
    BY <1>0, <2>1, <2>2 DEF DayInv, Timely, clockVars
  <2>5. \A n \in ran' : Index(n) <= Index(today)
    BY <1>0, <2>2 DEF DayInv, Timely
  <2> QED  BY <2>1, <2>3, <2>4, <2>5 DEF DayInv, clockVars
<1>3. CASE MonthPasses
  BY <1>0, <1>3, FollowingIsNext DEF MonthPasses, DayInv, Timely, DailyRecord, JobRecord
<1>4. ASSUME NEW m \in Calendar, NEW c \in Contents \cup {NoFile}, ChangeFile(m, c)
      PROVE  DayInv'
  <2>1. /\ today' = today /\ ran' = ran /\ since'[m] = today
        /\ \A n \in Calendar \ {m} : since'[n] = since[n]
    BY <1>0, <1>4 DEF ChangeFile
  <2>2. /\ daily' # Idle => /\ daily # Idle /\ daily'.began = daily.began
                            /\ daily'.touched = daily.touched \cup {m}
        /\ job' # Idle => /\ job # Idle /\ job'.began = job.began
                          /\ job'.touched = job.touched \cup {m}
    BY <1>0, <1>4 DEF ChangeFile, Seen, DailyRecord, JobRecord
  <2>3. /\ daily' # Idle => daily.touched \subseteq Calendar
        /\ job' # Idle => job.touched \subseteq Calendar
    BY <1>0, <2>2 DEF DailyRecord, JobRecord
  <2> QED  BY <1>0, <2>1, <2>2, <2>3 DEF DayInv, Timely
<1>5. CASE StorageStep \/ UNCHANGED filesVars
  BY <1>5 DEF StorageStep, sourceVars, clockVars, filesVars, DayInv, Timely
<1> QED  BY <1>1, <1>2, <1>3, <1>4, <1>5, StepKinds DEF ClockStep

LEMMA DailyKept ==
    ASSUME IntakeAssumption, FilesTypeOK, DayInv, DailyInv, [FilesNext]_filesVars
    PROVE  DailyInv'
<1>0. /\ daily \in {Idle} \cup DailyRecord /\ DailyLookback \in Nat /\ today \in Month
      /\ \A m \in Calendar : m \in Month /\ Index(m) \in Nat
      /\ Index(FirstDay) \in Nat /\ Index(FirstDay) > DailyLookback
  BY AtIndex DEF FilesTypeOK, IntakeAssumption, DailyRecord
<1>1. CASE DailyStep
  <2>0. UNCHANGED <<clockVars, job, ran>>
    BY <1>1, DailyFrame
  <2>1. CASE DailyBegins
    BY <1>0, <2>0, <2>1, AtIndex DEF DailyBegins, DailyInv, clockVars
  <2>2. CASE DailyProbes
    <3>1. daily \in DailyRecord /\ daily # Idle /\ daily.step = "probing"
      BY <1>0, <2>2 DEF DailyProbes, Idle
    <3>2. /\ daily.month \in Month /\ daily.began \in Month /\ daily.left \in 0..DailyLookback
          /\ Index(daily.month) \in Nat /\ Index(daily.began) \in Nat
      BY <3>1, AtIndex DEF DailyRecord
    <3>3. /\ Index(daily.month) = Index(daily.began) - DailyLookback + daily.left
          /\ \A m \in Calendar \ daily.touched :
                 Index(m) <= Index(daily.began) /\ Index(m) > Index(daily.month)
                     => file[m] = NoFile
      BY <3>1 DEF DailyInv
    <3>4. \A m \in Calendar : Index(m) = Index(daily.month) => m = daily.month
      BY <1>0, <3>2, IndexInjective
    <3>5. CASE FileOf(daily.month) # NoFile
      BY <2>0, <2>2, <3>1, <3>3, <3>5 DEF DailyProbes, Daily, DailyInv, DailyRecord, clockVars
    <3>6. CASE FileOf(daily.month) = NoFile /\ ~Exhausted
      <4>1. Index(daily.month) > 0 /\ daily.left > 0
        <5>1. Index(daily.began) >= Index(FirstDay) /\ daily.left > 0
          BY <3>1, <3>2, <3>6 DEF DayInv, Timely, Exhausted
        <5> QED  BY <1>0, <3>2, <3>3, <5>1
      <4>2. Index(Preceding(daily.month)) = Index(daily.month) - 1
        BY <3>2, <4>1, PrecedingIsPrior
      <4>3. /\ daily' = [daily EXCEPT !.month = Preceding(daily.month), !.left = daily.left - 1]
            /\ file' = file
        BY <2>0, <2>2, <3>6 DEF DailyProbes, clockVars
      <4>4. /\ daily'.month = Preceding(daily.month) /\ daily'.left = daily.left - 1
            /\ daily'.step = "probing" /\ daily'.began = daily.began
            /\ daily'.touched = daily.touched
        BY <3>1, <4>3 DEF DailyRecord
      <4>5. \A m \in Calendar \ daily.touched :
                Index(m) <= Index(daily.began) /\ Index(m) > Index(daily.month) - 1
                    => file[m] = NoFile
        BY <1>0, <3>2, <3>3, <3>4, <3>6 DEF FileOf
      <4> QED  BY <1>0, <3>2, <3>3, <4>2, <4>3, <4>4, <4>5 DEF DailyInv
    <3>7. CASE FileOf(daily.month) = NoFile /\ Exhausted
      <4>1. daily' = [daily EXCEPT !.step = "no_data"] /\ file' = file /\ daily.left = 0
        BY <2>0, <2>2, <3>7 DEF DailyProbes, Daily, Exhausted, clockVars
      <4>2. /\ daily'.month = daily.month /\ daily'.left = 0
            /\ daily'.step = "no_data" /\ daily'.began = daily.began
            /\ daily'.touched = daily.touched
        BY <3>1, <4>1 DEF DailyRecord
      <4>3. \A m \in Calendar \ daily.touched :
                Index(m) <= Index(daily.began) /\ Index(m) >= Index(daily.month)
                    => file[m] = NoFile
        BY <1>0, <3>2, <3>3, <3>4, <3>7 DEF FileOf
      <4> QED  BY <1>0, <3>2, <3>3, <4>1, <4>2, <4>3 DEF DailyInv
    <3> QED  BY <3>5, <3>6, <3>7
  <2>3. CASE DailyGets
    <3>1. daily \in DailyRecord /\ daily # Idle /\ daily.step = "getting"
      BY <1>0, <2>3 DEF DailyGets, Idle
    <3> QED  BY <2>0, <2>3, <3>1 DEF DailyGets, Daily, DailyInv, DailyRecord, clockVars
  <2>4. CASE DailyEnds
    BY <2>4 DEF DailyEnds, DailyInv
  <2> QED  BY <1>1, <2>1, <2>2, <2>3, <2>4 DEF DailyStep
<1>2. CASE JobStep
  BY <1>2, JobFrame DEF DailyInv, clockVars
<1>3. ASSUME NEW m \in Calendar, NEW c \in Contents \cup {NoFile}, ChangeFile(m, c)
      PROVE  DailyInv'
  <2>1. \A n \in Calendar \ {m} : file'[n] = file[n]
    BY <1>3 DEF ChangeFile, FilesTypeOK
  <2>2. daily' # Idle => /\ daily # Idle /\ daily'.touched = daily.touched \cup {m}
                         /\ daily'.step = daily.step /\ daily'.month = daily.month
                         /\ daily'.began = daily.began /\ daily'.left = daily.left
    BY <1>0, <1>3 DEF ChangeFile, Seen, DailyRecord
  <2> QED  BY <2>1, <2>2 DEF DailyInv
<1>4. CASE MonthPasses \/ StorageStep \/ UNCHANGED filesVars
  BY <1>4 DEF MonthPasses, StorageStep, sourceVars, clockVars, filesVars, DailyInv
<1> QED  BY <1>1, <1>2, <1>3, <1>4, StepKinds DEF ClockStep

\* What holds of a landing under way.
LEMMA Working ==
    ASSUME IntakeAssumption, FilesTypeOK, DayInv, JobInv, job # Idle
    PROVE  /\ job \in JobRecord /\ job.ask \in Launches /\ job.began \in Month
           /\ job.month \in Month /\ Index(job.month) \in Nat
           /\ Accepted(job.ask) /\ Index(job.began) >= Index(FirstDay)
           /\ LastAsked \in Month /\ Index(LastAsked) \in Nat
           /\ job.ask.start = NoDate => Index(LastAsked) = Index(job.began) - Lag
           /\ \A m \in Owed : /\ m \in Calendar /\ Index(m) \in Nat
                              /\ Index(m) <= Index(LastAsked)
                              /\ Index(m) = Index(job.month) => m = job.month
<1>1. /\ job \in JobRecord /\ job.ask \in Launches /\ job.began \in Month
      /\ job.month \in Month /\ Calendar \subseteq Month /\ FirstDay \in Month
  BY DEF FilesTypeOK, JobRecord, IntakeAssumption
<1>2. Accepted(job.ask)
  BY DEF JobInv
<1>3. Index(job.began) >= Index(FirstDay)
  <2>1. Index(job.began) \in Index(FirstDay)..Index(today)
    BY DEF DayInv, Timely
  <2>2. Index(FirstDay) \in Nat
    BY <1>1, AtIndex
  <2> QED  BY <2>1, <2>2
<1>4. /\ LastAsked \in Month
      /\ job.ask.start = NoDate => Index(LastAsked) = Index(job.began) - Lag
      /\ \A m \in Calendar : m \in Wanted(job.ask, job.began) => Index(m) <= Index(LastAsked)
  BY <1>1, <1>2, <1>3, AskedRange DEF LastAsked
<1>5. \A m \in Owed : m \in Calendar /\ m \in Wanted(job.ask, job.began)
  BY DEF Owed, Wanted
<1>6. /\ \A m \in Calendar : Index(m) \in Nat
      /\ \A m \in Calendar : Index(m) = Index(job.month) => m = job.month
      /\ Index(job.month) \in Nat /\ Index(LastAsked) \in Nat
  BY <1>1, <1>4, AtIndex, IndexInjective
<1> QED  BY <1>1, <1>2, <1>3, <1>4, <1>5, <1>6

\* A turn of the loop keeps JobInv if the current month is settled or not owed.
LEMMA TurnKept ==
    ASSUME IntakeAssumption, FilesTypeOK, DayInv, JobInv, job # Idle, job.step # "ended",
           NextMonth, UNCHANGED <<file, object>>,
           job.month \in Owed => Settled(job.month)
    PROVE  JobInv'
<1>1. /\ job' \in JobRecord
      /\ job'.began = job.began /\ job'.ask = job.ask /\ job'.touched = job.touched
      /\ \/ /\ job'.step = "fetching"
            /\ Index(job'.month) = Index(job.month) + 1
            /\ Index(job'.month) <= Index(LastAsked)
         \/ job'.step = "ended" /\ Index(job.month) = Index(LastAsked)
  BY Working, NextTurn
<1>2. LastAsked' = LastAsked /\ FirstMonth(job.ask, job.began)' = FirstMonth(job.ask, job.began)
      /\ Owed' = Owed /\ \A m : Settled(m)' <=> Settled(m)
  BY <1>1 DEF LastAsked, FirstMonth, LastMonth, FirstExpected, LastExpected, Owed, Wanted,
     Settled, Landed
<1>3. /\ Accepted(job.ask)
      /\ Index(FirstMonth(job.ask, job.began)) <= Index(job.month)
      /\ \A m \in Owed : Index(m) < Index(job.month) => Settled(m)
  BY DEF JobInv
<1>4. Index(FirstMonth(job.ask, job.began)) \in Nat
  BY Working, AskedRange, AtIndex
<1>5. \A m \in Owed : Index(m) < Index(job.month) + 1 \/ Index(job.month) = Index(LastAsked)
                          => Settled(m)
  BY <1>3, Working
<1>6. Accepted(job.ask)'
  BY <1>1, <1>3 DEF Accepted
<1>7. job'.step # "ended" =>
          /\ Index(FirstMonth(job.ask, job.began))' <= Index(job.month)'
          /\ Index(job.month)' <= Index(LastAsked)'
  BY <1>1, <1>2, <1>3, <1>4, Working DEF Index
<1>8. \A m \in Owed' : job'.step = "ended" \/ Index(m) < Index(job'.month) => Settled(m)'
  BY <1>1, <1>2, <1>5
<1> QED  BY <1>1, <1>6, <1>7, <1>8 DEF JobInv

LEMMA JobKept ==
    ASSUME IntakeAssumption, FilesTypeOK, FilesTypeOK', StoredInv, DayInv, JobInv, JobStep
    PROVE  JobInv'
<1>0. UNCHANGED <<clockVars, daily, object>> /\ RawTypeOK /\ today \in Month
  BY JobFrame DEF FilesTypeOK
<1>1. ASSUME NEW p \in Launches, JobBegins(p)
      PROVE  JobInv'
  <2>1. /\ job' = [step |-> "fetching", began |-> today, month |-> FirstMonth(p, today),
                   ask |-> p, touched |-> {}]
        /\ Accepted(p)
    BY <1>1 DEF JobBegins
  <2>2. /\ FirstMonth(p, today) \in Month /\ LastMonth(p, today) \in Month
        /\ Index(FirstMonth(p, today)) <= Index(LastMonth(p, today))
        /\ \A m \in Calendar : m \in Wanted(p, today) => Index(FirstMonth(p, today)) <= Index(m)
    BY <1>0, <2>1, AskedRange DEF DayInv
  <2>3. Index(FirstMonth(p, today)) \in Nat /\ \A m \in Calendar : Index(m) \in Nat
    BY <2>2, AtIndex DEF IntakeAssumption
  <2>4. Owed' = Wanted(p, today) \ p.items /\ LastAsked' = LastMonth(p, today)
        /\ FirstMonth(job.ask, job.began)' = FirstMonth(p, today)
    BY <2>1 DEF Owed, Wanted, LastAsked, FirstMonth, LastMonth, FirstExpected, LastExpected
  <2>5. \A m \in Owed' : ~(Index(m) < Index(FirstMonth(p, today)))
    BY <2>2, <2>3, <2>4 DEF Wanted
  <2> QED  BY <2>1, <2>2, <2>3, <2>4, <2>5 DEF JobInv, Accepted, Index
<1>2. CASE JobRegisters
  <2>1. job # Idle /\ job.step # "ended" /\ job.month \notin Owed /\ NextMonth
    BY <1>2 DEF JobRegisters, Idle, Owed
  <2> QED  BY <1>0, <2>1, TurnKept DEF clockVars
<1>3. CASE JobSkips
  <2>1. /\ job # Idle /\ job.step # "ended" /\ job.ask.start = NoDate /\ job.month = LastAsked
        /\ FileOf(job.month) = NoFile /\ job' = [job EXCEPT !.step = "ended"]
    BY <1>3 DEF JobSkips, LandingEnds, Job, Idle
  <2>2. \A m \in Owed : Settled(m)
    <3>1. ASSUME NEW m \in Owed
          PROVE  Settled(m)
      <4>1. CASE Index(m) < Index(job.month)
        BY <2>1, <4>1 DEF JobInv
      <4>2. CASE ~(Index(m) < Index(job.month))
        <5>1. m = job.month /\ m \in Calendar /\ Index(job.month) = Index(job.began) - Lag
          BY <2>1, <4>2, Working
        <5>2. Index(job.began) \in Nat
          BY <2>1, Working, AtIndex
        <5> QED  BY <2>1, <5>1, <5>2 DEF Settled, FileOf
      <4> QED  BY <4>1, <4>2
    <3> QED  BY <3>1
  <2>3. /\ job'.step = "ended" /\ job'.ask = job.ask /\ job'.began = job.began
        /\ job'.touched = job.touched
    BY <2>1, Working DEF JobRecord
  <2>4. Owed' = Owed /\ \A m : Settled(m)' <=> Settled(m)
    BY <1>0, <2>3 DEF Owed, Wanted, Settled, Landed, clockVars
  <2> QED  BY <2>1, <2>2, <2>3, <2>4 DEF JobInv, Accepted
<1>4. CASE JobFetches
  <2>1. /\ job # Idle /\ job.step = "fetching" /\ job' = [job EXCEPT !.step = "landing"]
        /\ FileOf(job.month) # NoFile
        /\ BeginUpload("job", FileUri(job.month, FileOf(job.month)), FileOf(job.month))
    BY <1>4 DEF JobFetches, Job, Idle
  <2>2. job.month \in Calendar /\ FileOf(job.month) = file[job.month]
        /\ file[job.month] \in Contents
    BY <2>1, FileServed
  <2>3. /\ job'.step = "landing" /\ job'.ask = job.ask /\ job'.began = job.began
        /\ job'.touched = job.touched /\ job'.month = job.month
    BY <2>1, Working DEF JobRecord
  <2>4. item'["job"] = <<FileUri(job.month, file[job.month]), file[job.month]>>
    BY <1>0, <2>1, <2>2, UploadBegins DEF Actors
  <2>5. Owed' = Owed /\ (\A m : Settled(m)' <=> Settled(m)) /\ LastAsked' = LastAsked
        /\ FirstMonth(job.ask, job.began)' = FirstMonth(job.ask, job.began)
    BY <1>0, <2>3 DEF Owed, Wanted, Settled, Landed, clockVars, LastAsked, FirstMonth,
       LastMonth, FirstExpected, LastExpected
  <2>6. \E c \in Contents : /\ item'["job"] = <<FileUri(job'.month, c), c>>
                            /\ job'.month \notin job'.touched => file'[job'.month] = c
    BY <1>0, <2>2, <2>3, <2>4 DEF clockVars
  <2>7. /\ Accepted(job.ask)
        /\ Index(FirstMonth(job.ask, job.began)) <= Index(job.month)
        /\ Index(job.month) <= Index(LastAsked)
        /\ \A m \in Owed : Index(m) < Index(job.month) => Settled(m)
    BY <2>1 DEF JobInv
  <2> QED  BY <2>2, <2>3, <2>5, <2>6, <2>7 DEF JobInv, Accepted, Index
<1>5. CASE JobLanded
  <2>1. job # Idle /\ job.step = "landing" /\ upload["job"] = "landed" /\ NextMonth
    BY <1>5 DEF JobLanded, Idle
  <2>2. PICK c \in Contents : /\ item["job"] = <<FileUri(job.month, c), c>>
                              /\ job.month \notin job.touched => file[job.month] = c
    BY <2>1 DEF JobInv
  <2>3. object[FileUri(job.month, c)] = c
    BY <2>1, <2>2 DEF StoredInv, IntakeAssumption, Actors
  <2>4. job.month \in Owed => Settled(job.month)
    BY <2>2, <2>3 DEF Owed, Settled, Landed, IntakeAssumption
  <2> QED  BY <1>0, <2>1, <2>4, TurnKept DEF clockVars
<1>6. CASE JobFails
  BY <1>6 DEF JobFails, JobInv
<1> QED  BY <1>1, <1>2, <1>3, <1>4, <1>5, <1>6 DEF JobStep

LEMMA JobUndisturbed ==
    ASSUME IntakeAssumption, FilesTypeOK, DayInv, JobInv,
           ClockStep \/ DailyStep \/ StorageStep \/ UNCHANGED filesVars
    PROVE  JobInv'
<1>1. ASSUME UNCHANGED <<job, file>>, item'["job"] = item["job"],
             \A m \in Calendar, c \in Contents :
                 object[FileUri(m, c)] = c => object'[FileUri(m, c)] = c
      PROVE  JobInv'
  <2>1. \A m \in Calendar : file[m] \in Contents \cup {NoFile}
    BY DEF FilesTypeOK
  <2>2. \A m \in Calendar : Settled(m) => Settled(m)'
    BY <1>1, <2>1 DEF Settled, Landed, FileUri
  <2>3. Owed' = Owed /\ LastAsked' = LastAsked /\ (Owed \subseteq Calendar)
    BY <1>1 DEF Owed, Wanted, LastAsked, LastMonth, LastExpected
  <2> QED  BY <1>1, <2>2, <2>3 DEF JobInv
<1>2. ASSUME NEW m \in Calendar, NEW c \in Contents \cup {NoFile}, ChangeFile(m, c)
      PROVE  JobInv'
  <2>1. /\ \A n \in Calendar \ {m} : file'[n] = file[n]
        /\ object' = object /\ item' = item
    BY <1>2 DEF ChangeFile, FilesTypeOK, rawVars
  <2>2. job' # Idle => /\ job # Idle /\ job'.touched = job.touched \cup {m}
                       /\ job'.step = job.step /\ job'.month = job.month
                       /\ job'.began = job.began /\ job'.ask = job.ask
    BY <1>2 DEF ChangeFile, Seen, FilesTypeOK
  <2>3. ASSUME job' # Idle
        PROVE  /\ LastAsked' = LastAsked /\ Owed' = Owed \ {m}
               /\ FirstMonth(job.ask, job.began)' = FirstMonth(job.ask, job.began)
               /\ \A n \in Calendar \ {m} : Settled(n)' <=> Settled(n)
    BY <2>1, <2>2, <2>3 DEF Owed, Wanted, LastAsked, FirstMonth, LastMonth, FirstExpected,
       LastExpected, Settled, Landed
  <2>4. Owed \subseteq Calendar
    BY DEF Owed, Wanted
  <2>5. ASSUME job' # Idle, job'.step = "landing"
        PROVE  /\ job'.month \in Calendar
               /\ \E d \in Contents : /\ item'["job"] = <<FileUri(job'.month, d), d>>
                                      /\ job'.month \notin job'.touched => file'[job'.month] = d
    <3>1. job.month \in Calendar
      BY <2>2, <2>5 DEF JobInv
    <3>2. PICK d \in Contents : /\ item["job"] = <<FileUri(job.month, d), d>>
                                /\ job.month \notin job.touched => file[job.month] = d
      BY <2>2, <2>5 DEF JobInv
    <3> QED  BY <2>1, <2>2, <2>5, <3>1, <3>2
  <2>6. ASSUME job' # Idle
        PROVE  /\ Accepted(job.ask)
               /\ job.step # "ended" =>
                      /\ Index(FirstMonth(job.ask, job.began)) <= Index(job.month)
                      /\ Index(job.month) <= Index(LastAsked)
               /\ \A n \in Owed : job.step = "ended" \/ Index(n) < Index(job.month) => Settled(n)
    BY <2>2, <2>6 DEF JobInv
  <2> QED  BY <2>2, <2>3, <2>4, <2>5, <2>6 DEF JobInv, Accepted, Index
<1>3. CASE MonthPasses
  BY <1>1, <1>3 DEF MonthPasses, rawVars
<1>4. CASE DailyStep
  <2>1. item'["job"] = item["job"]
    BY <1>4, DailyFrame DEF IntakeAssumption, Actors
  <2> QED  BY <1>1, <1>4, <2>1, DailyFrame DEF clockVars
<1>5. CASE StorageStep
  BY <1>1, <1>5, StorageFrame, LandedStays DEF sourceVars, clockVars
<1>6. CASE UNCHANGED filesVars
  BY <1>1, <1>6 DEF filesVars, rawVars, sourceVars, clockVars
<1> QED  BY <1>2, <1>3, <1>4, <1>5, <1>6 DEF ClockStep

\* A scheduled landing that ends has settled its whole window.
LEMMA LateEnds ==
    ASSUME IntakeAssumption, FilesTypeOK, FilesTypeOK', DayInv, JobInv, LateArrivalsLanded, JobStep,
           JobInv', DayInv'
    PROVE  LateArrivalsLanded'
<1>0. UNCHANGED <<clockVars, object>>
  BY JobFrame
<1>1. ASSUME ran' = ran
      PROVE  LateArrivalsLanded'
  BY <1>0, <1>1 DEF LateArrivalsLanded, Landed, clockVars
<1>2. ASSUME job # Idle, job'.step = "ended", job'.ask = job.ask, job'.began = job.began,
             job' # Idle, job.ask.start = NoDate, ran' = ran \cup {job.began}
      PROVE  LateArrivalsLanded'
  <2>1. ASSUME NEW m \in Calendar, Index(job.began) - Index(m) \in Lag..(Lag + Lookback - 1),
               file[m] # NoFile, Index(since[m]) < Index(job.began)
        PROVE  Landed(m)
    <3>1. Malformed \notin job.ask.items /\ job.ask.items = {}
      <4>1. Accepted(job.ask) /\ job.ask \in Launches
        BY <1>2, Working
      <4> QED  BY <1>2, <4>1 DEF Accepted, IntakeAssumption
    <3>2. Index(since[m]) \in Nat /\ Index(job.began) \in Nat
      BY <1>2, Working, AtIndex DEF FilesTypeOK
    <3>3. m \notin job'.touched
      BY <1>0, <1>2, <2>1, <3>2 DEF DayInv, Timely, clockVars
    <3>4. m \in Owed'
      BY <1>2, <2>1, <3>1, <3>3 DEF Owed, Wanted
    <3>5. Settled(m)'
      BY <1>2, <3>4 DEF JobInv
    <3> QED  BY <1>0, <2>1, <3>5 DEF Settled, Landed, clockVars
  <2> QED  BY <1>0, <1>2, <2>1 DEF LateArrivalsLanded, Landed, clockVars
<1>3. CASE (\E p \in Launches : JobBegins(p)) \/ JobFetches \/ JobFails
  BY <1>1, <1>3 DEF JobBegins, JobFetches, JobFails
<1>4. CASE JobSkips
  <2>1. /\ job # Idle /\ job' = [job EXCEPT !.step = "ended"] /\ job.ask.start = NoDate
        /\ ran' = ran \cup {job.began}
    BY <1>4 DEF JobSkips, LandingEnds, Job, Idle
  <2>2. job'.step = "ended" /\ job'.ask = job.ask /\ job'.began = job.began /\ job' # Idle
    BY <2>1, Working DEF JobRecord, Idle
  <2> QED  BY <1>2, <2>1, <2>2
<1>5. CASE JobRegisters \/ JobLanded
  <2>1. job # Idle /\ job.step # "ended" /\ NextMonth
    BY <1>5 DEF JobRegisters, JobLanded, Idle
  <2>2. job' # Idle
    BY <2>1, Working, NextTurn DEF Idle
  <2> QED  BY <1>1, <1>2, <2>1, <2>2, Working, NextTurn
<1> QED  BY <1>3, <1>4, <1>5 DEF JobStep

LEMMA LateUndisturbed ==
    ASSUME IntakeAssumption, FilesTypeOK, DayInv, LateArrivalsLanded,
           ClockStep \/ DailyStep \/ StorageStep \/ UNCHANGED filesVars
    PROVE  LateArrivalsLanded'
<1>1. ASSUME NEW m \in Calendar, NEW c \in Contents \cup {NoFile}, ChangeFile(m, c)
      PROVE  LateArrivalsLanded'
  <2>1. /\ \A n \in Calendar \ {m} : file'[n] = file[n] /\ since'[n] = since[n]
        /\ since'[m] = today /\ ran' = ran /\ object' = object
    BY <1>1 DEF ChangeFile, FilesTypeOK, rawVars
  <2>2. \A n \in ran : ~(Index(today) < Index(n))
    <3>1. Index(today) \in Nat /\ \A n \in ran : Index(n) \in Nat
      BY AtIndex DEF FilesTypeOK
    <3> QED  BY <3>1 DEF DayInv
  <2> QED  BY <2>1, <2>2 DEF LateArrivalsLanded, Landed
<1>2. ASSUME UNCHANGED <<file, since, ran>>,
             \A m \in Calendar, c \in Contents :
                 object[FileUri(m, c)] = c => object'[FileUri(m, c)] = c
      PROVE  LateArrivalsLanded'
  <2>1. \A m \in Calendar : file[m] \in Contents \cup {NoFile}
    BY DEF FilesTypeOK
  <2> QED  BY <1>2, <2>1 DEF LateArrivalsLanded, Landed, FileUri
<1>3. CASE MonthPasses \/ UNCHANGED filesVars
  BY <1>2, <1>3 DEF MonthPasses, rawVars, filesVars, sourceVars, clockVars
<1>4. CASE DailyStep
  BY <1>2, <1>4, DailyFrame DEF clockVars
<1>5. CASE StorageStep
  BY <1>2, <1>5, StorageFrame, LandedStays DEF sourceVars, clockVars
<1> QED  BY <1>1, <1>3, <1>4, <1>5 DEF ClockStep

-----------------------------------------------------------------------------
(***************************************************************************)
(* The theorems.                                                           *)
(***************************************************************************)
\* The bucket, the calendar and both landings keep their types and the invariant.
THEOREM IntakeCorrect ==
    ASSUME IntakeAssumption
    PROVE  FilesSpec => [](FilesTypeOK /\ IntakeInv)
<1>1. FilesInit => FilesTypeOK /\ IntakeInv
  <2> SUFFICES ASSUME FilesInit PROVE FilesTypeOK /\ IntakeInv
    OBVIOUS
  <2>1. Index(FirstDay) \in Nat /\ Index(FirstDay) - 1 \in Nat
    BY AtIndex DEF IntakeAssumption
  <2>2. MonthAt(Index(FirstDay) - 1) \in Month
    BY <2>1, IndexAt
  <2>3. RawTypeOK
    BY DEF FilesInit, RawInit, RawTypeOK, UploadState
  <2>4. FilesTypeOK
    BY <2>2, <2>3 DEF FilesInit, FilesTypeOK, IntakeAssumption
  <2>5. StoredInv /\ DayInv /\ JobInv /\ DailyInv /\ LateArrivalsLanded
    BY <2>1 DEF FilesInit, RawInit, StoredInv, DayInv, Timely, JobInv, DailyInv, LateArrivalsLanded
  <2> QED  BY <2>4, <2>5 DEF IntakeInv
<1>2. FilesTypeOK /\ IntakeInv /\ [FilesNext]_filesVars => FilesTypeOK' /\ IntakeInv'
  <2> SUFFICES ASSUME FilesTypeOK, IntakeInv, [FilesNext]_filesVars PROVE FilesTypeOK' /\ IntakeInv'
    OBVIOUS
  <2> USE DEF IntakeInv
  <2>1. FilesTypeOK'
    <3>1. CASE UNCHANGED filesVars
      BY <3>1 DEF filesVars, rawVars, sourceVars, clockVars, FilesTypeOK, RawTypeOK
    <3> QED  BY <3>1, StepKinds, TypeClock, TypeDaily, TypeJob, TypeStorage
  <2>2. StoredInv' /\ DayInv' /\ DailyInv'
    BY <2>1, StoredStep, DayStep, DailyKept
  <2>3. JobInv'
    BY <2>1, StepKinds, JobKept, JobUndisturbed
  <2>4. LateArrivalsLanded'
    BY <2>1, <2>2, <2>3, StepKinds, LateEnds, LateUndisturbed
  <2> QED  BY <2>1, <2>2, <2>3, <2>4
<1> QED  BY <1>1, <1>2, PTL DEF FilesSpec

\* A landing that succeeded has landed every month of its window or range whose
\* file stood still; only a scheduled run's newest month may be missing.
THEOREM LandingIsComplete ==
    ASSUME IntakeAssumption
    PROVE  FilesSpec => []EndedComplete
<1>1. IntakeInv => EndedComplete
  BY DEF IntakeInv, JobInv, EndedComplete, Owed, Settled, Idle
<1> QED  BY <1>1, IntakeCorrect, PTL

\* What appeared or was corrected before the month of a successful scheduled
\* landing is in the bucket, if it was then late by less than Lag + Lookback.
THEOREM LateArrivalsCaught ==
    ASSUME IntakeAssumption
    PROVE  FilesSpec => []LateArrivalsLanded
<1>1. IntakeInv => LateArrivalsLanded
  BY DEF IntakeInv
<1> QED  BY <1>1, IntakeCorrect, PTL

\* discover_latest passes over no file newer than the one it lands, and over
\* none of its candidates when it reports no data.
THEOREM NewestIsFound ==
    ASSUME IntakeAssumption
    PROVE  FilesSpec => []NothingNewerSkipped
<1>1. FilesTypeOK /\ IntakeInv => NothingNewerSkipped
  BY DEF IntakeInv, DailyInv, NothingNewerSkipped
<1> QED  BY <1>1, IntakeCorrect, PTL

-----------------------------------------------------------------------------
\* Every step is one uploader's at the bucket, or is not seen there.
LEMMA BucketStep ==
    ASSUME IntakeAssumption, FilesTypeOK, [FilesNext]_filesVars
    PROVE  [Register!Next]_<<object, Told>>
<1>1. RawTypeOK /\ "daily" \in Uploaders /\ "job" \in Uploaders /\ Actors \subseteq Uploaders
  BY DEF FilesTypeOK, IntakeAssumption, Actors
<1>2. ASSUME NEW p \in Uploaders,
             \/ UNCHANGED rawVars \/ Release(p) \/ UploadStep(p)
             \/ \E u, s : BeginUpload(p, u, s)
      PROVE  [Register!Next]_<<object, Told>>
  BY <1>1, <1>2, RegisterStep
<1>3. CASE ClockStep \/ UNCHANGED filesVars
  <2>1. UNCHANGED rawVars
    BY <1>3 DEF ClockStep, MonthPasses, ChangeFile, filesVars
  <2> QED  BY <1>1, <1>2, <2>1
<1>4. CASE DailyStep
  <2>1. \/ UNCHANGED rawVars \/ Release("daily")
        \/ \E u, s : BeginUpload("daily", u, s)
    BY <1>4 DEF DailyStep, DailyBegins, DailyProbes, DailyGets, DailyEnds
  <2> QED  BY <1>1, <1>2, <2>1
<1>5. CASE JobStep
  <2>1. \/ UNCHANGED rawVars \/ Release("job")
        \/ \E u, s : BeginUpload("job", u, s)
    BY <1>5 DEF JobStep, JobBegins, JobRegisters, JobSkips, JobFetches, JobLanded, JobFails
  <2> QED  BY <1>1, <1>2, <2>1
<1>6. CASE StorageStep
  <2>1. PICK p \in Actors : UploadStep(p)
    BY <1>6 DEF StorageStep
  <2> QED  BY <1>1, <1>2, <2>1
<1> QED  BY <1>3, <1>4, <1>5, <1>6, StepKinds

\* The daily workflow and the landing task, who know nothing of each other, write
\* an object once, and are told it is stored only if it is what they uploaded.
THEOREM FilesAreWrittenOnce ==
    ASSUME IntakeAssumption
    PROVE  FilesSpec => RegisterSpec
<1>1. FilesInit => Register!Init
  BY RegisterInit DEF FilesInit
<1>2. FilesTypeOK /\ [FilesNext]_filesVars => [Register!Next]_<<object, Told>>
  BY BucketStep
<1> QED  BY <1>1, <1>2, IntakeCorrect, PTL DEF FilesSpec, RegisterSpec, Register!Spec, Told
=============================================================================
