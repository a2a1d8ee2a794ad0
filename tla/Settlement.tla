------------------------------ MODULE Settlement -------------------------------
(***************************************************************************)
(* What a decision about money promises, whoever takes it and in however   *)
(* many calls: a claim is filed, money is given for it at most once and    *)
(* before it shows as granted, and a refused claim has had none.  Deposits,*)
(* withdrawals and requests for the pool bonus implement it.               *)
(*                                                                         *)
(* The code promises nothing for a claim once two handlers have overlapped *)
(* on it, or one was cut short while it gave the money: such a claim has   *)
(* gone astray.                                                            *)
(***************************************************************************)
EXTENDS Integers

CONSTANTS
    Claims,
    Reopenable      \* claims whose refusal may be taken back

VARIABLES
    stage,          \* per claim, "none", "open", "granted" or "refused"
    given,          \* per claim, the money given for it
    astray          \* claims for which nothing is promised any more

vars == <<stage, given, astray>>

-------------------------------------------------------------------------------

Moves(c, from, to) == stage[c] = from /\ stage'[c] = to

File(c) == Moves(c, "none", "open") /\ given[c] = 0 /\ given'[c] = 0

Give(c) == Moves(c, "open", "open") /\ given[c] = 0 /\ given'[c] > 0

Grant(c) == Moves(c, "open", "granted") /\ given[c] > 0 /\ given'[c] = given[c]

Refuse(c) == Moves(c, "open", "refused") /\ given[c] = 0 /\ given'[c] = 0

Reopen(c) ==
    /\ c \in Reopenable
    /\ Moves(c, "refused", "open")
    /\ given[c] = 0 /\ given'[c] = 0

Rest(c) == stage'[c] = stage[c] /\ given'[c] = given[c]

\* Claims are settled independently of each other.
Settle(c) == File(c) \/ Give(c) \/ Grant(c) \/ Refuse(c) \/ Reopen(c) \/ Rest(c)

-------------------------------------------------------------------------------

Init ==
    /\ stage = [c \in Claims |-> "none"]
    /\ given = [c \in Claims |-> 0]
    /\ astray = {}

Next ==
    /\ astray \subseteq astray'
    /\ \A c \in Claims \ astray' : Settle(c)

Spec == Init /\ [][Next]_vars
===============================================================================
