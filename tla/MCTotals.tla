------------------------------ MODULE MCTotals -----------------------------
(* Totals on small instances. *)
EXTENDS Totals, TLC

Symmetry == Permutations(Workers)

============================================================================
