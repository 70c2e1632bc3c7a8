----------------------------- MODULE ServedMonths -----------------------------
(***************************************************************************)
(* What the daily workflows together promise to the readers of the serving *)
(* tables: a month goes from one acceptable snapshot to another, each an   *)
(* object of the bucket by then and for ever, and while a publication is   *)
(* under examination nothing else is published. There are no workflows,    *)
(* runs, queues or query jobs here.                                        *)
(***************************************************************************)
CONSTANTS Months, Contents, Good, NoContent

VARIABLES stored,    \* stored[m]: the snapshots of month m in the bucket
          served,    \* served[m]: the snapshot the native tables serve
          examined   \* the <<month, snapshot>> being reconciled, if any

Init == /\ stored = [m \in Months |-> {}]
        /\ served = [m \in Months |-> NoContent]
        /\ examined = {}

Store(m, c) ==
    /\ stored' = [stored EXCEPT ![m] = @ \cup {c}]
    /\ UNCHANGED <<served, examined>>

Serve(m, c) ==
    /\ examined = {}
    /\ c \in stored[m] \cap Good
    /\ served' = [served EXCEPT ![m] = c]
    /\ UNCHANGED <<stored, examined>>

\* The rows of the month are compared with the metrics of the snapshot.
Examine(m, c) ==
    /\ examined = {}
    /\ served[m] = c
    /\ examined' = {<<m, c>>}
    /\ UNCHANGED <<stored, served>>

\* The comparison ends, with either result, or is given up.
Report ==
    /\ examined # {}
    /\ examined' = {}
    /\ UNCHANGED <<stored, served>>

Next == \/ Report
        \/ \E m \in Months, c \in Contents : Store(m, c) \/ Serve(m, c) \/ Examine(m, c)

Spec == Init /\ [][Next]_<<stored, served, examined>>
=============================================================================
