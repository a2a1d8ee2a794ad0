------------------------------- MODULE MCDeposit -------------------------------
(* Instances of Deposit for TLC. *)
EXTENDS Deposit, TLC

CONSTANTS d1, d2, h1, h2, p1, p2, c1, c2

\* A transfer of the minimum, and one that earns every bonus.
MCOnChain == (h1 :> 1) @@ (h2 :> 20)
MCOneHash == h1 :> 1
RequestSymmetry == Permutations({p1, p2})
===============================================================================
