---------------------------- MODULE MCAuthSession -----------------------------
(* Instances of AuthSession for TLC. *)
EXTENDS AuthSession, TLC

CONSTANTS u1, u2, c1, c2, c3, n1, n2, p1, p2

MCSymmetry == Permutations({c1, c2, c3}) \cup Permutations({n1, n2}) \cup Permutations({p1, p2})
===============================================================================
