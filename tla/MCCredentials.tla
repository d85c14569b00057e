---------------------------- MODULE MCCredentials ----------------------------
(***************************************************************************)
(* One tenant with an admin, a member who is none, and a session that was  *)
(* minted for a member without an account; two apps and two flows: an app  *)
(* can be replaced under a flow, and two callbacks can meet.               *)
(***************************************************************************)
EXTENDS Credentials, TLC

CONSTANTS t1, ua, ub, uc, a1, a2, f1, f2, p1, p2, th1, th2

MCTenants == {t1}
MCUsers == {ua, ub, uc}
MCMembers == t1 :> {ua, ub, uc}
MCAdmins == t1 :> {ua}
MCKnown == {ua, ub}
MCApps == {a1, a2}
MCFlows == {f1, f2}
MCPats == {p1, p2}
MCThreads == {th1, th2}

Symmetry ==
  Permutations(MCApps) \union Permutations(MCFlows) \union Permutations(MCPats)
    \union Permutations(MCThreads)
=============================================================================
