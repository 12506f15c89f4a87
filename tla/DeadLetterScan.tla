--------------------------- MODULE DeadLetterScan ---------------------------
(***************************************************************************)
(* ReapDeadLetters, call by call: XPENDING lists the pending entries a     *)
(* page at a time from a start that is part of the page, entries delivered *)
(* too often are collected, and one XACK drops them all.  ClickStream has  *)
(* the search as one step; here other workers go on between its pages.     *)
(*                                                                         *)
(* A stream ID is a pair of a millisecond and a sequence number; the start *)
(* "-" is <<0, 0>>.                                                        *)
(***************************************************************************)
EXTENDS Naturals, FiniteSets

CONSTANTS
  StreamIDs,     \* IDs of messages
  ReapLimit,     \* BatchSize: how many one round may drop
  MaxRetries,    \* MaxDeliveryAttempts
  MaxDeliveries  \* bound: deliveries of one message

ASSUME ScanAssumption ==
  /\ StreamIDs \subseteq Nat \X Nat /\ IsFiniteSet(StreamIDs)
  /\ ReapLimit \in Nat \ {0} /\ MaxRetries \in Nat \ {0} /\ MaxDeliveries \in Nat

VARIABLES
  pending,   \* deliveries of each pending entry; 0 for what is not pending
  scan,      \* the round: what it does, where its next page starts
  dead,      \* IDs it has collected
  due,       \* history: entries that were due when the round began
  looked,    \* history: entries the round's pages have shown
  reaped     \* entries a round dropped, and how often each was delivered

scanVars == <<pending, scan, dead, due, looked, reaped>>

Earlier(x, y) == x[1] < y[1] \/ (x[1] = y[1] /\ x[2] < y[2])

NextStreamID_SameID(id) == id

NextStreamID(id) == <<id[1], id[2] + 1>>

Entries == {id \in StreamIDs : pending[id] > 0}
Due == {id \in Entries : pending[id] >= MaxRetries}

FirstOf(S, n) == {id \in S : Cardinality({x \in S : Earlier(x, id)}) < n}
LastOf(S) == CHOOSE id \in S : \A x \in S : ~Earlier(id, x)

ScanInit ==
  /\ pending \in [StreamIDs -> 0..MaxDeliveries]
  /\ scan = [pc |-> "idle", start |-> <<0, 0>>]
  /\ dead = {} /\ due = {} /\ looked = {} /\ reaped = {}

Begin ==
  /\ scan.pc = "idle"
  /\ scan' = [pc |-> "page", start |-> <<0, 0>>]
  /\ dead' = {} /\ due' = Due /\ looked' = {}
  /\ UNCHANGED <<pending, reaped>>

\* One page.  The round ends with an empty page or with ReapLimit entries found.
Page ==
  LET room  == ReapLimit - Cardinality(dead)
      page  == FirstOf({id \in Entries : ~Earlier(id, scan.start)}, room)
      found == dead \cup (page \cap Due)
  IN  /\ scan.pc = "page"
      /\ dead' = found
      /\ looked' = looked \cup page
      /\ scan' = IF page = {} \/ Cardinality(found) >= ReapLimit
                 THEN [scan EXCEPT !.pc = IF found = {} THEN "idle" ELSE "ack"]
                 ELSE [scan EXCEPT !.start = NextStreamID(LastOf(page))]
      /\ UNCHANGED <<pending, due, reaped>>

\* XPENDING fails: nothing is dropped in this round.
PageFails ==
  /\ scan.pc = "page"
  /\ scan' = [scan EXCEPT !.pc = "idle"]
  /\ UNCHANGED <<pending, dead, due, looked, reaped>>

\* XACK takes whatever is still pending; it may fail, executed or not.
Drop ==
  /\ scan.pc = "ack"
  /\ scan' = [scan EXCEPT !.pc = "idle"]
  /\ \/ /\ pending' = [id \in StreamIDs |-> IF id \in dead THEN 0 ELSE pending[id]]
        /\ reaped' = reaped \cup {<<id, pending[id]>> : id \in dead \cap Entries}
     \/ UNCHANGED <<pending, reaped>>
  /\ UNCHANGED <<dead, due, looked>>

\* Other workers: an entry is acknowledged, or claimed and delivered once more.
Acked(id) ==
  /\ pending[id] > 0
  /\ pending' = [pending EXCEPT ![id] = 0]
  /\ UNCHANGED <<scan, dead, due, looked, reaped>>

Redelivered(id) ==
  /\ pending[id] \in 1..(MaxDeliveries - 1)
  /\ pending' = [pending EXCEPT ![id] = @ + 1]
  /\ UNCHANGED <<scan, dead, due, looked, reaped>>

ScanNext ==
  \/ Begin \/ Page \/ PageFails \/ Drop
  \/ \E id \in StreamIDs : Acked(id) \/ Redelivered(id)

ScanSpec == ScanInit /\ [][ScanNext]_scanVars

-----------------------------------------------------------------------------
(* Properties. *)

ScanTypeOK ==
  /\ pending \in [StreamIDs -> 0..MaxDeliveries]
  /\ scan.pc \in {"idle", "page", "ack"} /\ scan.start \in Nat \X Nat
  /\ dead \subseteq StreamIDs /\ due \subseteq StreamIDs
  /\ Cardinality(dead) <= ReapLimit

\* Every page starts after all that the round has looked at: however entries come
\* and go, it cannot read the same page for ever.
LooksOnlyAhead == scan.pc = "page" => \A id \in looked : Earlier(id, scan.start)

\* A round that is not full has found every entry that was due when it began and
\* is still pending: none hides between two pages.
FindsAllDue ==
  scan.pc = "ack" /\ Cardinality(dead) < ReapLimit => due \cap Entries \subseteq dead

\* No message is dropped before it was delivered MaxRetries times.
DropsOnlyDue == \A r \in reaped : r[2] >= MaxRetries

\* What a round of ReapDeadLetters promises, page by page.
ScanInv == ScanTypeOK /\ LooksOnlyAhead /\ FindsAllDue /\ DropsOnlyDue

=============================================================================
