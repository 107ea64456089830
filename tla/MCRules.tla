------------------------------- MODULE MCRules -------------------------------
(* Small instances of Rules: one spelling of addresses, two claimants that *)
(* are alike.                                                              *)
EXTENDS Rules, TLC

CONSTANTS m1, m2

OneSpelling  == {Upper}
TwoClaimants == {m1, m2}
Symmetry     == Permutations(TwoClaimants)
=============================================================================
