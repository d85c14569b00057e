--------------------------- MODULE MCCertification ---------------------------
(***************************************************************************)
(* Two checks of one level or of two, one custom rule, and three catalogs: *)
(* between them a mandatory check becomes optional, an optional one        *)
(* disappears, and one moves up a level.  Levels may have no check.        *)
(***************************************************************************)
EXTENDS Certification, TLC

CONSTANTS c1, c2, s1, th1, th2

MCChecks == {c1, c2}
MCSlugs == {s1}
MCThreads == {th1, th2}
MCOneLevel == (c1 :> 1) @@ (c2 :> 1)
MCTwoLevels == (c1 :> 1) @@ (c2 :> 2)
MCCatalogs ==
  {[ids |-> {c1, c2}, mandatory |-> {c1}, default |-> {c2}, level |-> MCOneLevel],
   [ids |-> {c1, c2}, mandatory |-> {c1}, default |-> {}, level |-> MCTwoLevels],
   [ids |-> {c1}, mandatory |-> {}, default |-> {}, level |-> MCOneLevel]}

Symmetry == Permutations(MCThreads)
=============================================================================
