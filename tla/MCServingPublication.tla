------------------------ MODULE MCServingPublication ------------------------
(***************************************************************************)
(* Two runs with a common month, for model checking ServingPublication.    *)
(***************************************************************************)
EXTENDS ServingPublicationInvariant, TLC

CONSTANTS r1, r2, m1, m2, s1, s2, s3, k1, k2, k3

\* r1 exports both months, r2 a correction of the first one that drops a key.
MCHandoff == (r1 :> (m1 :> s1 @@ m2 :> s2)) @@ (r2 :> (m1 :> s3 @@ m2 :> NoSnapshot))

MCKeysOf == s1 :> {k1, k2} @@ s2 :> {k1} @@ s3 :> {k2, k3}

\* Only the export of r2 is repaired.
MCMaxExports == r1 :> 1 @@ r2 :> 2

PublisherSymmetry == Permutations(Attempts) \cup Permutations(Marts)
=============================================================================
