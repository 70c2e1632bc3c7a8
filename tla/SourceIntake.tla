----------------------------- MODULE SourceIntake -----------------------------
(***************************************************************************)
(* How monthly files get from the Taxi and Limousine Commission into the   *)
(* raw bucket, over months: the daily workflow lands the newest file of    *)
(* its candidates (daily_source_landing.py), the landing task of the job   *)
(* the months of its window or of a backfill (source_landing.py). Files    *)
(* appear late, are corrected and withdrawn, while both are at work.       *)
(*                                                                         *)
(* What DailyWorkflow and TaxiPipeline do with a landed file is not here,  *)
(* and what they leave out is: the calendar, and the bucket's objects.     *)
(***************************************************************************)
EXTENDS RawLanding, LaunchParameters

CONSTANTS Calendar,       \* the months there are files for
          Contents, NoFile,
          DailyLookback,  \* lookback_months of the daily workflow
          FirstDay,       \* the month the behaviour starts in
          Horizon,        \* the month it ends in
          Published,      \* the months with a file by then
          First,          \* the content of those files
          Launches,       \* the parameters the job is launched with
          MaxChanges      \* bound on changes of the files

Actors == {"daily", "job"}

FileUri(m, c) == <<Index(m), c>>

\* What the theorems need of the constants: every file has an object of its own,
\* the behaviour starts late enough for its windows to lie in the calendar, and
\* URIs are given with the months they are for, as workflows and operators do.
IntakeAssumption ==
    /\ Actors \subseteq Uploaders
    /\ Calendar \subseteq Month /\ Published \subseteq Calendar
    /\ Contents \subseteq Sums /\ First \in Contents /\ NoFile \notin Contents
    /\ \A m \in Calendar, c \in Contents : FileUri(m, c) \in Uris
    /\ DailyLookback \in Nat /\ MaxChanges \in Nat
    /\ FirstDay \in Month /\ Horizon \in Month
    /\ Index(FirstDay) >= Lag + Lookback /\ Index(FirstDay) > DailyLookback
    /\ Launches \subseteq Parameters
    /\ \A p \in Launches : p.start = NoDate => p.items \subseteq {Malformed}

VARIABLES today,    \* the current month
          file,     \* file[m]: what the commission serves for month m
          since,    \* since[m]: the month in which file[m] last changed
          changes,  \* number of changes so far
          daily,    \* the daily workflow and
          job,      \* the landing task of the run in the job's slot; in touched
                    \* the months whose file changed since it began (history)
          ran       \* the months in which a scheduled landing began that succeeded

clockVars == <<today, file, since, changes>>
sourceVars == <<clockVars, daily, job, ran>>
filesVars == <<rawVars, sourceVars>>

Idle == [step |-> "idle"]

FileOf(m) == IF m \in Calendar THEN file[m] ELSE NoFile

FilesTypeOK ==
    /\ RawTypeOK
    /\ today \in Month
    /\ file \in [Calendar -> Contents \cup {NoFile}]
    /\ since \in [Calendar -> Month]
    /\ changes \in 0..MaxChanges
    /\ daily \in {Idle} \cup [step : {"probing", "getting", "landing", "no_data"},
                              began : Month, month : Month, left : 0..DailyLookback,
                              touched : SUBSET Calendar]
    /\ job \in {Idle} \cup [step : {"fetching", "landing", "ended"},
                            began : Month, month : Month, ask : Launches,
                            touched : SUBSET Calendar]
    /\ ran \subseteq Month

FilesInit ==
    /\ RawInit
    /\ today = FirstDay
    /\ file = [m \in Calendar |-> IF m \in Published THEN First ELSE NoFile]
    /\ since = [m \in Calendar |-> MonthAt(Index(FirstDay) - 1)]
    /\ changes = 0
    /\ daily = Idle
    /\ job = Idle
    /\ ran = {}

-----------------------------------------------------------------------------
(***************************************************************************)
(* The commission and the calendar.                                        *)
(***************************************************************************)

\* An actor at work when the file of m changes (history).
Seen(actor, m) ==
    IF actor = Idle THEN Idle ELSE [actor EXCEPT !.touched = @ \cup {m}]

\* A file appears once its month is over, is corrected, or is withdrawn.
ChangeFile(m, c) ==
    /\ changes < MaxChanges
    /\ Index(m) < Index(today)
    /\ c # file[m]
    /\ file' = [file EXCEPT ![m] = c]
    /\ since' = [since EXCEPT ![m] = today]
    /\ changes' = changes + 1
    /\ daily' = Seen(daily, m)
    /\ job' = Seen(job, m)
    /\ UNCHANGED <<rawVars, today, ran>>

MonthPasses ==
    /\ today # Horizon
    /\ today' = Following(today)
    /\ UNCHANGED <<rawVars, file, since, changes, daily, job, ran>>

-----------------------------------------------------------------------------
(***************************************************************************)
(* discover_latest and download_and_land of the daily workflow.            *)
(***************************************************************************)
Daily(step) == daily' = [daily EXCEPT !.step = step]

DailyBegins ==
    /\ daily.step \in {"idle", "no_data"}
    /\ daily' = [step |-> "probing", began |-> today, month |-> today,
                 left |-> DailyLookback, touched |-> {}]
    /\ UNCHANGED <<rawVars, clockVars, job, ran>>

\* Mutant: the oldest candidate is not probed.
Bug_Exhausted == daily.left <= 1

Exhausted == daily.left = 0

\* The HEAD request of one candidate: 200, or 404 and 403.
DailyProbes ==
    /\ daily.step = "probing"
    /\ \/ /\ FileOf(daily.month) # NoFile
          /\ Daily("getting")
       \/ /\ FileOf(daily.month) = NoFile
          /\ ~Exhausted
          /\ daily' = [daily EXCEPT !.month = Preceding(daily.month),
                                    !.left = daily.left - 1]
       \/ /\ FileOf(daily.month) = NoFile
          /\ Exhausted
          /\ Daily("no_data")
    /\ UNCHANGED <<rawVars, clockVars, job, ran>>

\* The GET: by then the file is another one, or gone.
DailyGets ==
    /\ daily.step = "getting"
    /\ \/ /\ FileOf(daily.month) = NoFile
          /\ daily' = Idle
          /\ UNCHANGED rawVars
       \/ /\ FileOf(daily.month) # NoFile
          /\ Daily("landing")
          /\ BeginUpload("daily", FileUri(daily.month, FileOf(daily.month)),
                         FileOf(daily.month))
    /\ UNCHANGED <<clockVars, job, ran>>

\* The workflow has the result of the upload, or it fails, at any step.
DailyEnds ==
    /\ daily.step \in {"probing", "getting", "landing"}
    /\ daily' = Idle
    /\ Release("daily")
    /\ UNCHANGED <<clockVars, job, ran>>

-----------------------------------------------------------------------------
(***************************************************************************)
(* source_landing.run: the months one after the other.                     *)
(***************************************************************************)
Job(step) == job' = [job EXCEPT !.step = step]

LastAsked == LastMonth(job.ask, job.began)

\* runtime_config, and the first month of expected_months.
JobBegins(p) ==
    /\ job.step \in {"idle", "ended"}
    /\ Accepted(p)
    /\ job' = [step |-> "fetching", began |-> today, month |-> FirstMonth(p, today),
               ask |-> p, touched |-> {}]
    /\ UNCHANGED <<rawVars, clockVars, daily, ran>>

LandingEnds ==
    /\ Job("ended")
    /\ ran' = IF job.ask.start = NoDate THEN ran \cup {job.began} ELSE ran

\* The loops of months_between and of run go on, or the landing succeeds.
NextMonth ==
    IF NotAfter(Following(job.month), LastAsked)
    THEN /\ job' = [job EXCEPT !.step = "fetching", !.month = Following(job.month)]
         /\ UNCHANGED ran
    ELSE LandingEnds

\* A month with a gs:// URI is registered, not fetched.
JobRegisters ==
    /\ job.step = "fetching"
    /\ job.month \in job.ask.items
    /\ NextMonth
    /\ UNCHANGED <<rawVars, clockVars, daily>>

\* Only the latest month of a scheduled run may be unpublished. That it was
\* published before, and so must be there, is left to JobFails.
JobSkips ==
    /\ job.step = "fetching"
    /\ job.month \notin job.ask.items
    /\ FileOf(job.month) = NoFile
    /\ job.ask.start = NoDate
    /\ job.month = LastAsked
    /\ LandingEnds
    /\ UNCHANGED <<rawVars, clockVars, daily>>

\* fetch_snapshot downloads the month and lands the file.
JobFetches ==
    /\ job.step = "fetching"
    /\ job.month \notin job.ask.items
    /\ FileOf(job.month) # NoFile
    /\ Job("landing")
    /\ BeginUpload("job", FileUri(job.month, FileOf(job.month)), FileOf(job.month))
    /\ UNCHANGED <<clockVars, daily, ran>>

JobLanded ==
    /\ job.step = "landing"
    /\ upload["job"] = "landed"
    /\ Release("job")
    /\ NextMonth
    /\ UNCHANGED <<clockVars, daily>>

\* A month that is missing, a LandingConflict, any other error, or a kill.
JobFails ==
    /\ job.step \in {"fetching", "landing"}
    /\ job' = Idle
    /\ Release("job")
    /\ UNCHANGED <<clockVars, daily, ran>>

FilesNext ==
    \/ \E m \in Calendar, c \in Contents \cup {NoFile} : ChangeFile(m, c)
    \/ MonthPasses
    \/ DailyBegins \/ DailyProbes \/ DailyGets \/ DailyEnds
    \/ \E p \in Launches : JobBegins(p)
    \/ JobRegisters \/ JobSkips \/ JobFetches \/ JobLanded \/ JobFails
    \/ \E p \in Actors : UploadStep(p) /\ UNCHANGED sourceVars

FilesSpec == FilesInit /\ [][FilesNext]_filesVars
-----------------------------------------------------------------------------
Landed(m) == object[FileUri(m, file[m])] = file[m]

\* The months a landing that began in month d is about, by their distance to
\* d, or to the ends of the backfill.
Wanted(p, d) ==
    {m \in Calendar : IF p.start = NoDate
                       THEN Index(d) - Index(m) \in Lag..(Lag + Lookback - 1)
                       ELSE Index(m) \in Index(p.start)..Index(p.end)}

\* A landing that succeeded has every month it was asked for, unless the file
\* changed meanwhile; only the newest month of a scheduled run may be missing.
EndedComplete ==
    job.step = "ended" =>
        \A m \in Wanted(job.ask, job.began) \ (job.ask.items \cup job.touched) :
            \/ file[m] # NoFile /\ Landed(m)
            \/ /\ file[m] = NoFile
               /\ job.ask.start = NoDate
               /\ Index(job.began) - Index(m) = Lag

\* A file that appeared, or was corrected, before the month of a scheduled
\* landing that succeeded is in the bucket if its month was then late by Lag
\* months or more, and by less than Lag + Lookback: what the daily workflow
\* passes over because a newer month exists is caught by the job's window.
LateArrivalsLanded ==
    \A n \in ran, m \in Calendar :
        /\ Index(n) - Index(m) \in Lag..(Lag + Lookback - 1)
        /\ file[m] # NoFile
        /\ Index(since[m]) < Index(n)
        => Landed(m)

\* The file the daily workflow lands is the newest of its candidates, and there
\* was none if it reports no data, up to changes since it began.
NothingNewerSkipped ==
    daily # Idle =>
        \A m \in Calendar \ daily.touched :
            /\ Index(m) <= Index(daily.began)
            /\ \/ daily.step \in {"getting", "landing"} /\ Index(m) > Index(daily.month)
               \/ daily.step = "no_data" /\ Index(m) >= Index(daily.began) - DailyLookback
            => file[m] = NoFile
=============================================================================
