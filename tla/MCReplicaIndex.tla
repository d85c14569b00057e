--------------------------- MODULE MCReplicaIndex ---------------------------
(***************************************************************************)
(* For safety one version of one skill on two replicas, and two packages   *)
(* that are rivals for it, so that a publication can be refused.  For      *)
(* liveness one replica and two versions of one skill, so that requests    *)
(* about one version overlap and a governance record walks over several;   *)
(* the other processes of the store are jaasctl, and the writes that took  *)
(* effect without the replica knowing.                                     *)
(***************************************************************************)
EXTENDS ReplicaIndex, TLC

CONSTANTS r1, r2, th1, th2, s1, v1, v2, p1, p2, g1

MCTwoReplicas == {r1, r2}
MCOneReplica == {r1}
MCTwoThreads == {th1, th2}
MCOneThread == {th1}
MCSkills == {s1}
MCTwoPackages == {p1, p2}
MCOneTag == {v1}
MCTwoTags == {v1, v2}
MCOneSkillOf == v1 :> s1
MCTwoSkillOf == (v1 :> s1) @@ (v2 :> s1)
MCRivalTagOf == (p1 :> v1) @@ (p2 :> v1)
MCTwoTagOf == (p1 :> v1) @@ (p2 :> v2)
MCGovernance == {g1}

AllOps == AllOperations
RetryOps == {"draft", "release", "status"}

Symmetry == Permutations(MCTwoThreads) \union Permutations(MCTwoReplicas)
=============================================================================
