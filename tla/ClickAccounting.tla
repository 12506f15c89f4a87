-------------------------- MODULE ClickAccounting --------------------------
(***************************************************************************)
(* What the count transfer promises: a click is pending until it is        *)
(* counted in its link, exactly once, or dropped because the link's row is *)
(* gone.  Clicks move in batches of any size.                              *)
(***************************************************************************)
EXTENDS Naturals

CONSTANT Codes

VARIABLES
  pending,  \* clicks recorded, neither counted nor dropped
  counted,  \* clicks in links.click_count
  dropped,  \* clicks given up with their link
  linked    \* codes that have a row

vars == <<pending, counted, dropped, linked>>

Init ==
  /\ pending = [c \in Codes |-> 0]
  /\ counted = [c \in Codes |-> 0]
  /\ dropped = [c \in Codes |-> 0]
  /\ linked  = Codes

Click(c) ==
  /\ pending' = [pending EXCEPT ![c] = @ + 1]
  /\ UNCHANGED <<counted, dropped, linked>>

Credit(c, n) ==
  /\ c \in linked
  /\ pending' = [pending EXCEPT ![c] = @ - n]
  /\ counted' = [counted EXCEPT ![c] = @ + n]
  /\ UNCHANGED <<dropped, linked>>

Drop(c, n) ==
  /\ c \notin linked
  /\ pending' = [pending EXCEPT ![c] = @ - n]
  /\ dropped' = [dropped EXCEPT ![c] = @ + n]
  /\ UNCHANGED <<counted, linked>>

Unlink(c) ==
  /\ c \in linked
  /\ linked' = linked \ {c}
  /\ UNCHANGED <<pending, counted, dropped>>

Next ==
  \E c \in Codes :
    \/ Click(c)
    \/ \E n \in 1..pending[c] : Credit(c, n) \/ Drop(c, n)
    \/ Unlink(c)

Spec == Init /\ [][Next]_vars

============================================================================
