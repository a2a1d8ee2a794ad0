------------------------------ MODULE MCRankBonus ------------------------------
(* Instances of RankBonus for TLC. *)
EXTENDS RankBonus, TLC

CONSTANTS top, middle, low, r1, r2

\* A line of three users: the middle one makes the top one eligible.
MCSponsor == (top :> NoUser) @@ (middle :> top) @@ (low :> middle)

\* Two levels, small enough to be reached by two deposits.
MCDefinitions ==
    << [directReferralCount |-> 1, directLv1Count |-> 0, teamSize |-> 0,
        rankBonus |-> 1, cycleBonus |-> 1],
       [directReferralCount |-> 0, directLv1Count |-> 1, teamSize |-> 2,
        rankBonus |-> 3, cycleBonus |-> 2] >>
===============================================================================
