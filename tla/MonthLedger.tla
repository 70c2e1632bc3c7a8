----------------------------- MODULE MonthLedger -----------------------------
(***************************************************************************)
(* What the taxi_pipeline job promises, with no runs, tasks or Silver:     *)
(* landing a plan replaces the intent of its months at once, and a Gold    *)
(* mart partition is only ever rebuilt from the month's current intent,    *)
(* which must be a snapshot the DQ gate accepts.                           *)
(***************************************************************************)
CONSTANTS Months, Snapshots, NoSnapshot, Marts, Good

VARIABLES intent,   \* intent[m]: the snapshot month m is to be served from
          gold      \* gold[mart][m]: the snapshot the partition was built from

Init == /\ intent = [m \in Months |-> NoSnapshot]
        /\ gold = [mart \in Marts |-> [m \in Months |-> NoSnapshot]]

\* A new plan for some months; nothing is served from it yet.
Land == /\ UNCHANGED gold
        /\ intent' \in {new \in [Months -> Snapshots \cup {NoSnapshot}] :
                           \A m \in Months : new[m] \in Snapshots \cup {intent[m]}}

Build(mart, m) ==
    /\ gold' # gold
    /\ UNCHANGED intent
    /\ intent[m] \in Good
    /\ gold' = [gold EXCEPT ![mart][m] = intent[m]]

Next == Land \/ \E mart \in Marts, m \in Months : Build(mart, m)

Spec == Init /\ [][Next]_<<intent, gold>>
=============================================================================
