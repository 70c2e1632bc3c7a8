--------------------------- MODULE LaunchParameters ---------------------------
(***************************************************************************)
(* The months a run is about: the calendar arithmetic of source_landing.py *)
(* and daily_source_landing.py, and the parameters runtime_config and      *)
(* backfill.py accept. Nothing here has state.                             *)
(***************************************************************************)
EXTENDS Integers

CONSTANTS Lag,          \* publication_lag_months
          Lookback,     \* late_arrival_months
          NoDate,       \* an empty --start-month or --end-month
          Malformed     \* an item of --source-uri that is not MONTH=URI

\* A first of month, as date has it.
Month == [year : Nat, month : 1..12]

ASSUME LaunchAssumption ==
    /\ Lag \in Nat \ {0}
    /\ Lookback \in Nat \ {0}
    /\ NoDate \notin Month
    /\ Malformed \notin Month

Index(d) == d.year * 12 + d.month - 1

MonthAt(i) == [year |-> i \div 12, month |-> (i % 12) + 1]

\* Mutant: the last month is not reached.
Bug_NotAfter(d, e) == d.year < e.year \/ (d.year = e.year /\ d.month < e.month)

\* The comparison of two dates that are first of month.
NotAfter(d, e) == d.year < e.year \/ (d.year = e.year /\ d.month <= e.month)

\* One turn of the loop of months_between.
Following(d) == [year |-> d.year + (IF d.month = 12 THEN 1 ELSE 0),
                 month |-> (d.month % 12) + 1]

\* Mutant: January has no December before it.
Bug_Preceding(d) == [d EXCEPT !.month = d.month - 1]

\* One turn of the loop of candidate_months.
Preceding(d) == IF d.month = 1 THEN [year |-> d.year - 1, month |-> 12]
                ELSE [year |-> d.year, month |-> d.month - 1]

\* Mutant: a window that is one month short.
Bug_FirstExpected(today) == MonthAt(Index(today) - Lag - Lookback + 2)

\* expected_months without a backfill: the oldest and the newest month.
FirstExpected(today) == MonthAt(Index(today) - Lag - Lookback + 1)
LastExpected(today) == MonthAt(Index(today) - Lag)

MonthsBetween(start, end) == {MonthAt(i) : i \in Index(start)..Index(end)}

\* start, end: --start-month, --end-month. items: the parts of --source-uri,
\* each the month it names.
Parameters == [start : Month \cup {NoDate}, end : Month \cup {NoDate},
               items : SUBSET (Month \cup {Malformed})]

\* runtime_config returns rather than raises.
Accepted(p) ==
    /\ p.start = NoDate <=> p.end = NoDate
    /\ Malformed \notin p.items
    /\ p.start # NoDate =>
           /\ NotAfter(p.start, p.end)
           /\ Index(p.end) - Index(p.start) < 12
           /\ p.items = {} \/ p.items = MonthsBetween(p.start, p.end)

\* The months expected_months lists, from the first to the last.
FirstMonth(p, today) == IF p.start # NoDate THEN p.start ELSE FirstExpected(today)
LastMonth(p, today) == IF p.start # NoDate THEN p.end ELSE LastExpected(today)

\* What backfill.py launches: months, and the job's default source_uri.
BackfillScript(start, end) == [start |-> start, end |-> end, items |-> {Malformed}]

\* The range check of backfill.py itself.
BackfillAllowed(start, end) == NotAfter(start, end) /\ Index(end) - Index(start) < 12
=============================================================================
