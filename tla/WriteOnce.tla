------------------------------ MODULE WriteOnce ------------------------------
(***************************************************************************)
(* What raw landing promises: an object is written at most once, and a     *)
(* writer is told that its content is stored only if it is.                *)
(***************************************************************************)
CONSTANTS Uploaders, Uris, Sums, NoSum, NoObject, NoItem

VARIABLES value,      \* value[u]: the checksum of the content stored at u
          confirmed   \* confirmed[p]: the <<uri, checksum>> p was told is stored

Init == /\ value \in [Uris -> {NoObject, NoSum}]
        /\ confirmed = [p \in Uploaders |-> NoItem]

\* The writer may or may not hear of it.
Store(p, u, s) ==
    /\ value[u] \in {NoObject, s}
    /\ value' = [value EXCEPT ![u] = s]
    /\ confirmed' \in {confirmed, [confirmed EXCEPT ![p] = <<u, s>>]}

\* The writer turns to something else.
Forget(p) ==
    /\ confirmed' = [confirmed EXCEPT ![p] = NoItem]
    /\ UNCHANGED value

Next == \E p \in Uploaders : \/ Forget(p)
                             \/ \E u \in Uris, s \in Sums : Store(p, u, s)

Spec == Init /\ [][Next]_<<value, confirmed>>
=============================================================================
