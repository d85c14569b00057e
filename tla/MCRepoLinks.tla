----------------------------- MODULE MCRepoLinks -----------------------------
(***************************************************************************)
(* Two tenants after one skill id, an admin each and one more of both; one *)
(* branch to allow or not; two URLs of repositories of one name, on two    *)
(* hosts, and one of another.                                              *)
(***************************************************************************)
EXTENDS RepoLinks, TLC

CONSTANTS n1, n2, r1, r2, r3, a1, a2, br1, u1, u2, th1, th2

MCTenants == {n1, n2}
MCRepos == {r1, r2, r3}
MCNames == {a1, a2}
MCNameOf == (r1 :> a1) @@ (r2 :> a1) @@ (r3 :> a2)
MCBranches == {br1}
MCUsers == {u1, u2}
MCAdminOf == (n1 :> {u1, u2}) @@ (n2 :> {u2})
MCThreads == {th1, th2}
Symmetry == Permutations(MCThreads)
=============================================================================
