------------------------------ MODULE MCPublish ------------------------------
(***************************************************************************)
(* Two workers, two tags, and three packages of which two claim the same   *)
(* id and version: enough for every pair of a lost race, a byte-identical  *)
(* and a differing duplicate, and an unrelated publication.                *)
(***************************************************************************)
EXTENDS Publish, TLC

CONSTANTS w1, w2, t1, t2, p1, p2, q1

MCWorkers == {w1, w2}
MCTags == {t1, t2}
MCPackages == {p1, p2, q1}
MCTagOf == (p1 :> t1) @@ (p2 :> t1) @@ (q1 :> t2)

MCBackends == {"local", "s3"}

Symmetry == Permutations(MCWorkers)
=============================================================================
