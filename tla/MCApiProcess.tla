---------------------------- MODULE MCApiProcess ---------------------------
(* ApiProcess on small instances. *)
EXTENDS ApiProcess, TLC

Symmetry == Permutations(Requests)

============================================================================
