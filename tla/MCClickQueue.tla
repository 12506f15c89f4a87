---------------------------- MODULE MCClickQueue ---------------------------
(* ClickQueue on small instances. *)
EXTENDS ClickQueue, TLC

Symmetry == Permutations(Requests)

============================================================================
