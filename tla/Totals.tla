------------------------------- MODULE Totals --------------------------------
(***************************************************************************)
(* The sums the database computes over rows (SELECT SUM ... ): the sum of  *)
(* the values of a function is the number of its units, pairs of an        *)
(* argument and one of as many numbers as its value says.                  *)
(***************************************************************************)
EXTENDS Naturals, FiniteSets

Units(f) == UNION {{x} \X (1..f[x]) : x \in DOMAIN f}
Total(f) == Cardinality(Units(f))
=============================================================================
