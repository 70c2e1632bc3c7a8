--------------------------- MODULE MCSourceIntake ---------------------------
(***************************************************************************)
(* The two users of the raw bucket for model checking: a behaviour is      *)
(* about monthly files or about a paged source, which share no object.     *)
(***************************************************************************)
EXTENDS SourceIntake, PagedIngest, TLC

VARIABLE source \* what the behaviour is about: "files" or "pages"

-----------------------------------------------------------------------------
\* The turn of a year. November is late, and January and February to come.
Date(y, m) == [year |-> y, month |-> m]
January == Date(2024, 1)
February == Date(2024, 2)
AllMonths == {Date(2023, 10), Date(2023, 11), Date(2023, 12), Date(2024, 1)}
OnTime == {Date(2023, 10), Date(2023, 12)}

Launch(start, end, items) == [start |-> start, end |-> end, items |-> items]

\* The schedule, what the job's default source_uri makes of it, a backfill and
\* a launch of the daily workflow.
AllLaunches == {Launch(NoDate, NoDate, {}), Launch(NoDate, NoDate, {Malformed}),
                Launch(Date(2023, 12), Date(2024, 1), {}),
                Launch(Date(2023, 11), Date(2023, 12), {Date(2023, 11), Date(2023, 12)})}

-----------------------------------------------------------------------------
Event(i, v) == [id |-> i, value |-> v]
Client(events, timeouts, limit, repeats, outOfOrder) ==
    [events |-> events, timeouts |-> timeouts, limit |-> limit, repeats |-> repeats,
     outOfOrder |-> outOfOrder]

\* Three pages with an event delivered again on another page and one that has
\* two versions; the same with a correction on the first page; one whose first
\* page times out once too often; one without an event_id; an empty snapshot.
Plain == <<Event("a", 1), Event("b", 1), Event("a", 2), Event("c", 1), Event("d", 1)>>
Corrected == [Plain EXCEPT ![1] = Event("a", 3)]
Single == <<Event("a", 1)>>
NoEventId == <<Event("a", 1), Event(NoId, 1)>>
AllClients == {Client(Plain, {1, 2}, 1, {1, 3}, FALSE), Client(Plain, {}, 0, {2}, TRUE),
               Client(Corrected, {3}, 1, {}, FALSE), Client(Single, {1}, 0, {}, FALSE),
               Client(NoEventId, {}, 0, {}, FALSE), Client(<<>>, {}, 0, {}, FALSE)}

-----------------------------------------------------------------------------
FileUris == {<<Index(d), c>> : d \in AllMonths, c \in Contents}
PageUris == {PageUri(k) : k \in 1..3}
AllUris == FileUris \cup PageUris

AllSums == Contents \cup {SubSeq(Plain, 1, 2), SubSeq(Plain, 3, 4), <<Plain[4], Plain[3]>>,
                          <<Plain[5]>>, SubSeq(Corrected, 1, 2), Single, NoEventId}

ByHand == {<<Index(Date(2023, 11)), First>>, PageUri(3)}

ASSUME FilesAssumption == IntakeAssumption

IntakeInit == /\ source \in {"files", "pages"}
              /\ Init
              /\ FilesInit
              /\ \A u \in IF source = "files" THEN PageUris ELSE FileUris :
                     object[u] = NoObject

intakeVars == <<vars, source, sourceVars>>

PageStep(p) == CallStep(p) /\ UNCHANGED <<source, sourceVars>>

IntakeNext == \/ /\ source = "files"
                 /\ FilesNext
                 /\ UNCHANGED <<source, pageVars>>
              \/ /\ source = "pages"
                 /\ Next
                 /\ UNCHANGED <<source, sourceVars>>

\* A running process goes on; the storage client's requests end.
IntakeSpec == /\ IntakeInit
              /\ [][IntakeNext]_intakeVars
              /\ \A p \in Calls : WF_intakeVars(PageStep(p))
=============================================================================
