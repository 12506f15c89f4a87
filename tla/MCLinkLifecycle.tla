-------------------------- MODULE MCLinkLifecycle --------------------------
(* LinkLifecycle on small instances. *)
EXTENDS LinkLifecycle

============================================================================
