------------------------------- MODULE MCDrafts -------------------------------
(***************************************************************************)
(* Two drafts and two skills in one repository, so that the drafts may be  *)
(* given one directory or two; one of them may be a legacy draft.  There   *)
(* are two files, so that one can be mirrored while the other is not; a    *)
(* draft starts with both.                                                 *)
(***************************************************************************)
EXTENDS Drafts, TLC

CONSTANTS d1, d2, th1, th2, s1, s2, v1, f1, f2, c1, c2

MCDraftIds == {d1, d2}
MCLegacy == {d1}
MCWorkers == {th1, th2}
MCSkills == {s1, s2}
MCVersions == {v1}
MCFiles == {f1, f2}
MCContents == {c1, c2}
MCSeeds == {[f \in MCFiles |-> c1]}

Symmetry ==
  Permutations(MCWorkers) \union Permutations(MCFiles)
    \union Permutations(MCSkills)
=============================================================================
