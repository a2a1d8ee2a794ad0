--------------------------------- MODULE Totals ---------------------------------
(***************************************************************************)
(* The sum of the values of a function to numbers, as the number of the    *)
(* units it is made of: f[x] = 3 has the units <<x, 1>>, <<x, 2>> and      *)
(* <<x, 3>>.  Counting units needs no recursion, so that a proof can       *)
(* follow the sum from step to step; a sum is finite if its units are,     *)
(* however large the domain.                                               *)
(***************************************************************************)
EXTENDS Integers, FiniteSets

Units(f) == UNION {{x} \X (1..f[x]) : x \in DOMAIN f}
Total(f) == Cardinality(Units(f))
===============================================================================
