---------------------------- MODULE MCLinkCache ----------------------------
(* LinkCache on small instances. *)
EXTENDS LinkCache, TLC

Symmetry == Permutations(Processes)

============================================================================
