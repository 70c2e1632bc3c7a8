-------------------------- MODULE MCSilverSnapshot --------------------------
(***************************************************************************)
(* Two months and four snapshots for model checking SilverSnapshot.        *)
(***************************************************************************)
EXTENDS SilverSnapshot, TLC

CONSTANTS m1, m2, original, corrected, other, stray

Row(id, trip, fails, pickup) ==
    [id |-> id, trip |-> trip, fails |-> fails, pickup |-> pickup, dropoff |-> 1,
     rate |-> 1, payment |-> 1]

\* original: a trip, one with a second delivery that was rescued, and a bad
\* trip delivered twice. corrected: the bad trip is gone, one is in zone 3.
\* other: a trip in zone 2 and one in zone 3. stray: not in Bronze.
TheRows ==
    original :> {Row(1, "a", {}, 1), Row(2, "a", {"SCHEMA_RESCUED_DATA"}, 1),
                 Row(3, "b", {"NEGATIVE_FARE", "NONPOSITIVE_TOTAL"}, 2),
                 Row(4, "b", {"NEGATIVE_FARE", "NONPOSITIVE_TOTAL"}, 2),
                 Row(5, "c", {}, 1), Row(6, "d", {}, 1)}
    @@ corrected :> {Row(1, "a", {}, 1), Row(2, "a", {}, 1), Row(7, "g", {}, 2),
                     Row(8, "h", {}, 3)}
    @@ other :> {Row(9, "e", {}, 2), Row(10, "f", {}, 3), Row(11, "f", {}, 3)}
    @@ stray :> {}

TheReceived == original :> 6 @@ corrected :> 4 @@ other :> Unknown @@ stray :> Unknown

ThePlans == {m1 :> original, m1 :> corrected @@ m2 :> other, m2 :> other, m2 :> stray}

\* Zones 2 and 3 may be known or sentinels; zone 2 may be missing.
TheZones == {<<"known", "known", "sentinel">>, <<"known", "sentinel", "known">>,
             <<"known", "absent", "sentinel">>}
=============================================================================
