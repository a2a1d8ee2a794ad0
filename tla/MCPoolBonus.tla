------------------------------ MODULE MCPoolBonus ------------------------------
(* Instances of PoolBonus for TLC. *)
EXTENDS PoolBonus, TLC

CONSTANTS u1, a1, q1, q2, r1, r2

\* An admin with a pool bonus of their own, and a user who can pay for one of
\* two requests.
MCFunds == (u1 :> 3) @@ (a1 :> 1)
===============================================================================
