---------------------------- MODULE MCCountSync ----------------------------
(* CountSync on small instances. *)
EXTENDS CountSync, TLC

\* Codes, workers and pipelines are interchangeable; nothing orders them.
Symmetry == Permutations(Codes) \cup Permutations(Workers) \cup Permutations(Pipelines)

============================================================================
