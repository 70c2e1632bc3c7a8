-------------------------- MODULE AtomicPublication --------------------------
(***************************************************************************)
(* What "atomic native BigQuery publication" (README.md) promises to the   *)
(* readers of the serving tables: a run's months appear in every mart, and *)
(* its receipt with them, in one step. There are no files, stages, load    *)
(* jobs or publishers here.                                                *)
(***************************************************************************)
EXTENDS Integers

CONSTANTS Runs, Months, Marts, Snapshots, NoSnapshot, Keys, KeysOf, Handoff

VARIABLES target,   \* target[mart][m][k]: the snapshot the served row comes from
          receipt,  \* receipt[r]: when run r was last published, 0 if never
          now       \* the number of publications

Served(old, s) == [k \in Keys |-> IF k \in KeysOf[s] THEN s ELSE old[k]]

Init == /\ target = [mart \in Marts |-> [m \in Months |->
                        [k \in Keys |-> NoSnapshot]]]
        /\ receipt = [r \in Runs |-> 0]
        /\ now = 0

Publish(r) ==
    /\ target' = [mart \in Marts |-> [m \in Months |->
                     IF Handoff[r][m] = NoSnapshot THEN target[mart][m]
                     ELSE Served(target[mart][m], Handoff[r][m])]]
    /\ receipt' = [receipt EXCEPT ![r] = now + 1]
    /\ now' = now + 1

Next == \E r \in Runs : Publish(r)

Spec == Init /\ [][Next]_<<target, receipt, now>>
=============================================================================
