------------------------------ MODULE MCDelivery ------------------------------
(***************************************************************************)
(* Two replicas, two publications in progress, two releases one of whose   *)
(* files the other lacks.  The scenarios: three publications on a fresh    *)
(* deployment; one release downloaded three times; two releases, two       *)
(* downloads and a restart; and an archive left incomplete among them.     *)
(***************************************************************************)
EXTENDS Delivery, TLC

CONSTANTS m1, m2, r1, r2, v1, v2, fa, fb

MCMakers == {m1, m2}
MCReplicas == {r1, r2}
MCReleases == {v1, v2}
MCFiles == {fa, fb}
MCFilesOf == v1 :> {fa, fb} @@ v2 :> {fb}

NoSteps == [c \in Costs |-> 0]
FirstPublications == [NoSteps EXCEPT !.sign = 3, !.cut = 1]
Announcements == [NoSteps EXCEPT !.bundle = 2, !.announce = 2, !.fault = 4, !.put = 1, !.restart = 1]
Downloads == [NoSteps EXCEPT !.bundle = 1, !.put = 2, !.issue = 3, !.restart = 1]
Installs == [NoSteps EXCEPT !.sign = 1, !.bundle = 1, !.put = 2, !.issue = 2, !.restart = 1, !.cut = 2]
Incomplete == [NoSteps EXCEPT !.sign = 1, !.bundle = 1, !.put = 1, !.issue = 1, !.cut = 1, !.tear = 1]
MCBudgets == {FirstPublications, Announcements, Downloads, Installs, Incomplete}

Symmetry == Permutations(MCMakers) \union Permutations(MCReplicas)
=============================================================================
