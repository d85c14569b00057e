---------------------------- MODULE MCRuleLibrary ----------------------------
(***************************************************************************)
(* Three slugs under a limit of one rule, so that the limit can be overrun *)
(* by more than the bound allows; one draft; two handler threads; a valid  *)
(* body and one that is refused without a word.                            *)
(***************************************************************************)
EXTENDS RuleLibrary, TLC

CONSTANTS s1, s2, s3, b1, b2, blank, d1, th1, th2

MCSlugs == {s1, s2, s3}
MCBodies == {b1, b2, blank}
MCValidBodies == {b1}
MCUnexplained == {b2}
MCDraftIds == {d1}
MCThreads == {th1, th2}

\* The module speaks of the two bodies only as Passing.
Symmetry ==
  Permutations(MCSlugs) \union Permutations(MCValidBodies \union MCUnexplained)
    \union Permutations(MCThreads)
=============================================================================
