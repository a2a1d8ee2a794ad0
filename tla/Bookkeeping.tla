----------------------------- MODULE Bookkeeping ------------------------------
(***************************************************************************)
(* What the wallets promise: accounts whose balances are changed by one    *)
(* operation at a time and explained by entries.  An operation adds an     *)
(* amount to each of its accounts, a negative one where it takes.  It      *)
(* takes before it gives, is entered once everything is moved, and is      *)
(* refused on all of its accounts or on none.                              *)
(*                                                                         *)
(* Nothing is promised for an account once two operations have overlapped  *)
(* on it, or one stopped that had moved money: it has gone astray.         *)
(***************************************************************************)
EXTENDS Integers

CONSTANT Accounts

VARIABLES
    balance,        \* per account
    entered,        \* per account, the sum of its entries
    asked,          \* per account, the operations not yet entered there: each
                    \* a function from its accounts to the amounts it adds
    astray          \* accounts for which nothing is promised any more

vars == <<balance, entered, asked, astray>>

-------------------------------------------------------------------------------

Untouched(f, a) == asked[a] = {f} /\ balance[a] = entered[a]
Moved(f, a) == asked[a] = {f} /\ balance[a] = entered[a] + f[a]
\* The accounts of an operation that keep to what is promised.
Kept(f) == DOMAIN f \ astray'

SameMoney(a) == balance'[a] = balance[a] /\ entered'[a] = entered[a]

Ask(a) ==
    /\ balance[a] = entered[a] /\ SameMoney(a)
    /\ \E f \in asked'[a] :
          /\ a \in DOMAIN f /\ f[a] # 0
          /\ \A b \in Kept(f) : asked[b] = {} /\ asked'[b] = {f}

Change(a) ==
    \E f \in asked[a] :
        /\ Untouched(f, a)
        /\ f[a] > 0 => \A b \in Kept(f) : f[b] < 0 => Moved(f, b)
        /\ balance'[a] = balance[a] + f[a] /\ balance'[a] >= 0
        /\ entered'[a] = entered[a] /\ asked'[a] = asked[a]

Enter(a) ==
    \E f \in asked[a] :
        /\ Moved(f, a)
        /\ \A b \in Kept(f) : ~Untouched(f, b)
        /\ balance'[a] = balance[a]
        /\ entered'[a] = balance[a] /\ asked'[a] = {}

Refuse(a) ==
    /\ SameMoney(a)
    /\ \E f \in asked[a] :
          /\ a \in DOMAIN f
          /\ \A b \in Kept(f) : Untouched(f, b) /\ asked'[b] = {}

Rest(a) == SameMoney(a) /\ asked'[a] = asked[a]

-------------------------------------------------------------------------------

Init ==
    /\ balance = [a \in Accounts |-> 0]
    /\ entered = [a \in Accounts |-> 0]
    /\ asked = [a \in Accounts |-> {}]
    /\ astray = {}

Next ==
    /\ astray \subseteq astray'
    /\ \A a \in Accounts \ astray' : Ask(a) \/ Change(a) \/ Enter(a) \/ Refuse(a) \/ Rest(a)

Spec == Init /\ [][Next]_vars
===============================================================================
