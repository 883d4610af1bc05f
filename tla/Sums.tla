--------------------------------- MODULE Sums ---------------------------------
(***************************************************************************)
(* The sum of the values of a function from a finite set to the naturals,  *)
(* as the number of the units it is made of.  A fold gives the same        *)
(* number; this form is within reach of the theorems about cardinalities,  *)
(* where a fold would need induction over sets.                            *)
(***************************************************************************)
EXTENDS Integers, FiniteSets

Units(f) == UNION {{x} \X (1 .. f[x]) : x \in DOMAIN f}
Total(f) == Cardinality(Units(f))
===============================================================================
