----------------------------- MODULE MCWithdrawal ------------------------------
(* Instances of Withdrawal for TLC. *)
EXTENDS Withdrawal, TLC

CONSTANTS w1, w2, x1, x2, h1, h2, r1, r2

\* A payment to each of the two users.
MCPaidTo == (h1 :> x1) @@ (h2 :> x2)
MCFunds == (x1 :> 30) @@ (x2 :> 20)
RunSymmetry == Permutations({r1, r2})
WithdrawalSymmetry == Permutations({w1, w2})
MCSymmetry == RunSymmetry \cup WithdrawalSymmetry
===============================================================================
