--------------------------- MODULE ClickDelivery ---------------------------
(***************************************************************************)
(* What the consumption of the click stream promises: a message stays      *)
(* open until its row is stored or it turns out to be unreadable, until it *)
(* was delivered MaxAttempts times, or until MaxLen newer messages have    *)
(* taken its place in the stream; and its row is stored once.  Who         *)
(* delivers it, to whom and how often before that, is left open.           *)
(***************************************************************************)
EXTENDS Naturals

CONSTANTS Kinds, MaxMsgs, MaxLen, MaxAttempts

Ids == 1..MaxMsgs

VARIABLES
  kind,   \* what each message is
  sent,   \* messages published so far
  open,   \* messages that somebody still has to take care of
  tries,  \* deliveries of a message, counted up to MaxAttempts
  rows    \* rows stored for a message

vars == <<kind, sent, open, tries, rows>>

Init ==
  /\ kind  \in [Ids -> Kinds]
  /\ sent  = 0
  /\ open  = {}
  /\ tries = [m \in Ids |-> 0]
  /\ rows  = [m \in Ids |-> 0]

\* Messages of which the stream, when n were published, may have lost its copy.
Trimmed(n) == {m \in 1..n : m + MaxLen <= n}

\* What cannot be delivered any more is not open any more.
Publish ==
  /\ sent < MaxMsgs
  /\ sent' = sent + 1
  /\ \E gone \in SUBSET Trimmed(sent') : open' = (open \cup {sent'}) \ gone
  /\ UNCHANGED <<kind, tries, rows>>

OneMore(n) == IF n < MaxAttempts THEN n + 1 ELSE MaxAttempts

Deliver(S, gone) ==
  /\ tries' = [m \in Ids |-> IF m \in S THEN OneMore(tries[m]) ELSE tries[m]]
  /\ open'  = open \ gone
  /\ UNCHANGED <<kind, sent, rows>>

\* A late handler may store what others have settled or given up meanwhile.
Store(S) ==
  /\ \A m \in S : kind[m] = "good" /\ tries[m] > 0 /\ rows[m] = 0
  /\ rows' = [m \in Ids |-> IF m \in S THEN 1 ELSE rows[m]]
  /\ UNCHANGED <<kind, sent, open, tries>>

Close(S) == open' = open \ S /\ UNCHANGED <<kind, sent, tries, rows>>

Settle(S) ==
  /\ \A m \in S : tries[m] > 0 /\ (rows[m] > 0 \/ kind[m] = "malformed")
  /\ Close(S)

GiveUp(S) ==
  /\ \A m \in S : tries[m] = MaxAttempts
  /\ Close(S)

Next ==
  \/ Publish
  \/ \E S \in SUBSET open, gone \in SUBSET (open \cap Trimmed(sent)) : Deliver(S, gone)
  \/ \E S \in SUBSET Ids : Store(S)
  \/ \E S \in SUBSET open : Settle(S) \/ GiveUp(S)

Spec == Init /\ [][Next]_vars

============================================================================
