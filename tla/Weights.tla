------------------------------ MODULE Weights ------------------------------
(***************************************************************************)
(* Sums of natural numbers over finite sets.  The code adds up validator   *)
(* powers and coin amounts in loops; the model counts units instead: the   *)
(* weight of S is the number of pairs <<x, i>> with x in S and i in        *)
(* 1..w[x], which is the sum of w[x] over S.  Counting needs no recursion, *)
(* so the laws of sums follow from the theorems on cardinality.            *)
(***************************************************************************)
EXTENDS Integers, FiniteSets

\* The units that the members of S hold, one pair for each.
UnitsOf(S, w) == UNION {{x} \X (1 .. w[x]) : x \in S}

\* The sum of w[x] over the members x of S.
Weight(S, w) == Cardinality(UnitsOf(S, w))
=============================================================================
