----------------------------- MODULE RecentLink -----------------------------
(***************************************************************************)
(* What resolving a short link promises, whatever caches and processes are *)
(* between a visitor and the link: every answer is a version the link has  *)
(* or had, and if it was replaced meanwhile, not longer ago than the lag   *)
(* of what is found or of what is missing.  Version 0 is no link.          *)
(***************************************************************************)
EXTENDS Naturals

CONSTANTS
  Lag,         \* ticks an existing version may be shown after its end
  MaxVersion,  \* bound: writes of the link
  MaxAge       \* bound: ticks counted since a version was replaced

Versions == 0..MaxVersion

VARIABLES
  missLag,  \* ticks the absence of the link may be shown after its creation
  current,  \* version of the link
  ended,    \* ticks since each version was replaced
  shown     \* last answer: found, and how outdated

vars == <<missLag, current, ended, shown>>

Init ==
  /\ missLag \in 0..Lag
  /\ current = 0
  /\ ended   = [v \in Versions |-> 0]
  /\ shown   = [found |-> FALSE, late |-> 0]

Write ==
  /\ current < MaxVersion
  /\ current' = current + 1
  /\ UNCHANGED <<missLag, ended, shown>>

\* Of two answers the later one may well be the older version.
Show(v) ==
  /\ v <= current
  /\ ended[v] <= (IF v > 0 THEN Lag ELSE missLag)
  /\ shown' = [found |-> v > 0, late |-> ended[v]]
  /\ UNCHANGED <<missLag, current, ended>>

Tick ==
  /\ ended' = [v \in Versions |->
                 IF v < current /\ ended[v] < MaxAge THEN ended[v] + 1 ELSE ended[v]]
  /\ UNCHANGED <<missLag, current, shown>>

Next == Write \/ Tick \/ \E v \in Versions : Show(v)

Spec == Init /\ [][Next]_vars

=============================================================================
