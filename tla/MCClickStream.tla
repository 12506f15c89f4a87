--------------------------- MODULE MCClickStream ---------------------------
(* ClickStream on small instances. *)
EXTENDS ClickStream, TLC

Symmetry == Permutations(Readers) \cup Permutations(Claimers)

============================================================================
