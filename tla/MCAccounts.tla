------------------------------ MODULE MCAccounts ------------------------------
(***************************************************************************)
(* Two people and two organizations: one can be invited to both before a   *)
(* first sign-in, and sign in from two browsers at once.                   *)
(***************************************************************************)
EXTENDS Accounts, TLC

CONSTANTS u1, u2, o1, o2, th1, th2

MCUsers == {u1, u2}
MCOrgs == {o1, o2}
MCThreads == {th1, th2}

Symmetry ==
  Permutations(MCUsers) \union Permutations(MCOrgs) \union Permutations(MCThreads)
=============================================================================
