---------------------------- MODULE MCReferralTree ----------------------------
(* Instances of ReferralTree for TLC. *)
EXTENDS ReferralTree, TLC

CONSTANTS m1, m2, m3, w1, p1, p2

MCSymmetry == Permutations({m1, m2, m3}) \cup Permutations({p1, p2})
===============================================================================
