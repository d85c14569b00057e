------------------------------- MODULE MCSearch -------------------------------
(***************************************************************************)
(* Two skills, one with restricted releases, in two versions of which the  *)
(* second is a prerelease; a caller inside and one outside the owner's     *)
(* tenant, and an anonymous one.                                           *)
(***************************************************************************)
EXTENDS Search, TLC

CONSTANTS q1, w1, s1, s2, ta, tb, ua, ub

MCOneSearcher == {q1}
MCWriters == {w1}
MCSkills == {s1, s2}
MCVersions == {1, 2}
MCPrerelease == {2}
MCRestricted == {s1} \X MCVersions
MCTenants == {ta, tb}
MCOwnerOf == (s1 :> ta) @@ (s2 :> ta)
MCUsers == {ua, ub}
MCTenantOf == (ua :> ta) @@ (ub :> tb)
MCConstraints ==
  {[kind |-> "stable", match |-> {}], [kind |-> "latest", match |-> {}],
   [kind |-> "spec", match |-> {1}]}
=============================================================================
