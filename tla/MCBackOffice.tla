----------------------------- MODULE MCBackOffice -----------------------------
(* A small instance of BackOffice for TLC. *)
EXTENDS BackOffice, TLC

CONSTANTS top, middle, low, a, b, c, d

MCTimes == 0..1
MCSponsor == (top :> "nobody") @@ (middle :> top) @@ (low :> middle)
\* LV2 without a deposit of the minimum: the correction of one rank makes
\* that of the next one necessary.
MCDefinitions ==
    << [directReferralCount |-> 1, directLv1Count |-> 0, teamSize |-> 0, rankBonus |-> 1],
       [directReferralCount |-> 0, directLv1Count |-> 1, teamSize |-> 1, rankBonus |-> 3] >>
MCDeposits == {(top :> 0) @@ (middle :> 1) @@ (low :> 1), (top :> 0) @@ (middle :> 2) @@ (low :> 2)}
MCSymmetry == Permutations({a, b, c, d})
===============================================================================
