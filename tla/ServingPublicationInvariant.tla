--------------------- MODULE ServingPublicationInvariant ---------------------
(***************************************************************************)
(* The inductive invariant of ServingPublication: what a publisher may     *)
(* rely on between its fetch, its loads and the transaction, although      *)
(* other publishers load, commit and die in between.                       *)
(***************************************************************************)
EXTENDS ServingPublication

\* What a has staged for mart and month.
StageOf(a, mart, m) == stage[StageName(a, run[a])][mart][m]

\* A stage holds the loaded months of its run, and nothing else once a mart
\* has been loaded at all.
StageInv ==
    \A a \in Attempts : pc[a] # "idle" =>
        \A mart \in Marts, m \in Months :
            /\ <<mart, m>> \in loaded[a] =>
                   /\ m \in Covered(Handoff[run[a]])
                   /\ StageOf(a, mart, m) = Handoff[run[a]][m]
            /\ (\E n \in Months : <<mart, n>> \in loaded[a]) =>
                   <<mart, m>> \in loaded[a] \/ StageOf(a, mart, m) = NoSnapshot

\* A job is submitted with all of its run's months staged.
JobInv ==
    \A a \in Attempts :
        /\ pc[a] \in {"idle", "loading"} => job[a] = "none"
        /\ pc[a] = "idle" => loaded[a] = {}
        /\ job[a] # "none" => pc[a] # "idle" /\ loaded[a] = PartsOf(run[a])
        /\ pc[a] \in {"published", "reconciled", "mismatch"} => job[a] = "committed"

\* Publications are numbered; only one publisher made the newest.
NumberInv ==
    /\ \A r \in Runs : receipt[r] <= now
    /\ \A a \in Attempts :
          /\ commits[a] <= now
          /\ job[a] = "committed" <=> commits[a] > 0
          /\ job[a] = "committed" => receipt[run[a]] >= commits[a]

\* All rows of the newest publication are served.
NewestServed ==
    \A a \in Attempts : commits[a] = now /\ now > 0 =>
        \A mart \in Marts, m \in Covered(Handoff[run[a]]) :
            \A k \in KeysOf[Handoff[run[a]][m]] :
                target[mart][m][k] = Handoff[run[a]][m]

\* What a counted since the newest publication, its own, is served exactly.
CountInv ==
    \A a \in Attempts :
        /\ pc[a] \in {"idle", "loading", "submitted"} => checked[a] = {}
        /\ pc[a] = "reconciled" => checked[a] = PartsOf(run[a]) /\ match[a]
        /\ checked[a] # {} => job[a] = "committed"
        /\ checked[a] # {} /\ commits[a] = now /\ match[a] =>
               \A mart \in Marts, m \in Months : <<mart, m>> \in checked[a] =>
                   target[mart][m] = RowsOf(Handoff[run[a]][m])

\* Every row served is of a run that was published.
ServedInv ==
    \A mart \in Marts, m \in Months, k \in Keys : target[mart][m][k] # NoSnapshot =>
        \E q \in Runs : /\ receipt[q] # 0
                        /\ m \in Covered(Handoff[q])
                        /\ k \in KeysOf[Handoff[q][m]]

\* A publisher is refused for a count that failed; one that failed and was not
\* published over since is explained.
RefusedInv ==
    \A a \in Attempts :
        /\ pc[a] = "mismatch" => ~match[a]
        /\ ~match[a] => checked[a] # {}
        /\ ~match[a] /\ commits[a] = now => LeftOver(a)

\* What a publisher relies on, the others notwithstanding.
IInv == /\ StageInv /\ JobInv /\ NumberInv /\ NewestServed /\ CountInv
        /\ PublishedComplete

\* Types, what publishers rely on and what reconciliations may report hold
\* together, after every step: enough for all safety properties.
Inv == TypeOK /\ IInv /\ ServedInv /\ RefusedInv
=============================================================================
