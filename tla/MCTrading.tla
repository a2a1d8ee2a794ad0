------------------------------- MODULE MCTrading -------------------------------
(* Instances of Trading for TLC. *)
EXTENDS Trading, TLC

CONSTANTS u1, t1, t2, s1, s2, p1, p2

\* A principal whose stake is rounded up.
MCFunds == u1 :> 150
MCSymmetry == Permutations({t1, t2}) \cup Permutations({p1, p2}) \cup Permutations({s1, s2})
===============================================================================
