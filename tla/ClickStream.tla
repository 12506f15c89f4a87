---------------------------- MODULE ClickStream ----------------------------
(***************************************************************************)
(* The consumption of the click stream: one Redis stream, one consumer     *)
(* group, and per worker process a consume loop (XREADGROUP), a claim loop *)
(* (XAUTOCLAIM of entries idle for ClaimMinIdle) and a dead-letter loop    *)
(* (XPENDING, then XACK of entries delivered MaxAttempts times).           *)
(*                                                                         *)
(* A message is its position in the stream.  Redis commands are atomic;    *)
(* the insert of a batch into click_events and the XACK that follows it    *)
(* are separate steps, and either may fail for its caller after it ran.    *)
(***************************************************************************)
EXTENDS Naturals, FiniteSets

CONSTANTS
  Readers,      \* consume loops
  Claimers,     \* claim loops
  Kinds,        \* kinds of messages that occur
  MaxMsgs,      \* bound: messages added
  MaxLen,       \* streamMaxLen
  BatchSize,    \* Config.BatchSize
  MaxAttempts,  \* Config.MaxDeliveryAttempts
  MaxFaults     \* bound: failed calls, lost replies, stalls and crashes

Handlers == Readers \cup Claimers
Ids      == 1..MaxMsgs

ASSUME KindsAssumption == Kinds \subseteq {"good", "poison", "malformed"}
ASSUME LoopsAssumption == Readers \cap Claimers = {}
ASSUME SizeAssumption  == {MaxMsgs, MaxLen, BatchSize, MaxAttempts} \subseteq Nat \ {0}
                            /\ MaxFaults \in Nat

VARIABLES
  \* Redis
  kind,      \* what each message is; poison: PostgreSQL rejects its row
  top,       \* last message added
  first,     \* oldest message that was not trimmed
  group,     \* the consumer group exists
  last,      \* last-delivered ID of the group
  pel,       \* pending entries of the group
  tries,     \* delivery count of an entry, counted up to MaxAttempts
  idle,      \* entries idle for ClaimMinIdle
  \* PostgreSQL
  rows,      \* rows of click_events per event_uid
  \* the loops
  pc, hold,  \* state and batch of each handler
  doomed,    \* IDs the dead-letter loop found
  \* history
  reaped,    \* dead-lettered while pending
  vanished,  \* pending entries whose message had been trimmed
  spoiled,   \* deliveries of a message that went wrong, up to MaxAttempts
  faults

loopVars    == <<pc, hold, doomed>>
historyVars == <<reaped, vanished, spoiled, faults>>
vars == <<kind, top, first, group, last, pel, tries, idle, rows, loopVars, historyVars>>

Init ==
  /\ kind     \in [Ids -> Kinds]
  /\ top      = 0
  /\ first    = 1
  /\ group    = FALSE
  /\ last     = 0
  /\ pel      = {}
  /\ tries    = [m \in Ids |-> 0]
  /\ idle     = {}
  /\ rows     = [m \in Ids |-> 0]
  /\ pc       = [h \in Handlers |-> "idle"]
  /\ hold     = [h \in Handlers |-> {}]
  /\ doomed   = {}
  /\ reaped   = {}
  /\ vanished = {}
  /\ spoiled  = [m \in Ids |-> 0]
  /\ faults   = 0

\* The n oldest messages of S, as Count limits a Redis reply.
Oldest(S, n) == {m \in S : Cardinality({k \in S : k <= m}) <= n}

\* parseMessages: what can be parsed, and the IDs that are only acknowledged.
Messages(S)     == {m \in S : kind[m] # "malformed"}
MalformedIDs(S) == {m \in S : kind[m] = "malformed"}

Held == UNION {hold[h] : h \in Handlers}

UpTo(n, max) == IF n < max THEN n + 1 ELSE max

Spoil(S) == [m \in Ids |-> IF m \in S THEN UpTo(spoiled[m], MaxAttempts) ELSE spoiled[m]]

Fault == faults < MaxFaults /\ faults' = faults + 1

(***************************************************************************)
(* The stream and its group.                                               *)
(***************************************************************************)

\* XADD MAXLEN ~: trimming is approximate, but never cuts below MaxLen.
XAdd ==
  /\ top < MaxMsgs
  /\ top' = top + 1
  /\ \E f \in first..top' :
       /\ f = first \/ top' - f + 1 >= MaxLen
       /\ first' = f
  /\ UNCHANGED <<kind, group, last, pel, tries, idle, rows, loopVars, historyVars>>

\* XGROUP CREATE MKSTREAM at "0"; a group that exists is left alone.
EnsureGroup_FromNow ==
  /\ ~group
  /\ group' = TRUE
  /\ last'  = top
  /\ UNCHANGED <<kind, top, first, pel, tries, idle, rows, loopVars, historyVars>>

EnsureGroup ==
  /\ ~group
  /\ group' = TRUE
  /\ UNCHANGED <<kind, top, first, last, pel, tries, idle, rows, loopVars, historyVars>>

\* A delivery makes S pending, restarts its idle time and counts one try;
\* entries whose message was trimmed (gone) leave the pending list.
Deliver_JustId(S, gone) ==
  /\ pel'   = (pel \cup S) \ gone
  /\ idle'  = idle \ (S \cup gone)
  /\ tries' = [m \in Ids |-> IF m \in S \ pel THEN 1 ELSE tries[m]]

Deliver(S, gone) ==
  /\ pel'   = (pel \cup S) \ gone
  /\ idle'  = idle \ (S \cup gone)
  /\ tries' = [m \in Ids |-> IF m \in S THEN UpTo(tries[m], MaxAttempts) ELSE tries[m]]

\* ClaimMinIdle passes for the entries no handler is working on.
Tick ==
  /\ \E m \in pel \ Held : m \notin idle
  /\ idle' = idle \cup (pel \ Held)
  /\ UNCHANGED <<kind, top, first, group, last, pel, tries, rows, loopVars, historyVars>>

\* A process stalls for longer than ClaimMinIdle, although its calls are
\* bounded by much shorter timeouts.
Stall ==
  /\ Held \cap pel # {}
  /\ Fault
  /\ idle'    = pel
  /\ spoiled' = Spoil(Held)
  /\ UNCHANGED <<kind, top, first, group, last, pel, tries, rows, loopVars, reaped, vanished>>

(***************************************************************************)
(* consumeLoop and claimPending, and what both do with a batch             *)
(* (handleBatch).                                                          *)
(***************************************************************************)

\* XREADGROUP `>`: the oldest messages never delivered to the group.
Fresh == Oldest({m \in first..top : m > last}, BatchSize)

\* XAUTOCLAIM from 0-0: idle entries, and entries without a message.
Claimable_AnyIdle == Oldest(pel, BatchSize)

Claimable == Oldest({m \in pel : m \in idle \/ m < first}, BatchSize)

Begin_NoEmptyCheck(h, S) ==
  /\ hold' = [hold EXCEPT ![h] = S]
  /\ pc'   = [pc EXCEPT ![h] = IF Messages(S) # {} THEN "insert" ELSE "bad"]

Begin(h, S) ==
  /\ hold' = [hold EXCEPT ![h] = S]
  /\ pc'   = [pc EXCEPT ![h] = IF S = {} THEN "idle"
                               ELSE IF Messages(S) # {} THEN "insert" ELSE "bad"]

End(h) ==
  /\ hold' = [hold EXCEPT ![h] = {}]
  /\ pc'   = [pc EXCEPT ![h] = "idle"]

ReadClicks(h) ==
  /\ pc[h] = "idle"
  /\ group
  /\ Fresh # {}
  /\ last' \in Fresh
  /\ \A m \in Fresh : m <= last'
  /\ Deliver(Fresh, {})
  /\ Begin(h, Fresh)
  /\ UNCHANGED <<kind, top, first, group, rows, doomed, historyVars>>

AutoClaim(h) ==
  /\ pc[h] = "idle"
  /\ Claimable # {}
  /\ LET gone == {m \in Claimable : m < first}
     IN /\ Deliver(Claimable \ gone, gone)
        /\ Begin(h, Claimable \ gone)
        /\ vanished' = vanished \cup gone
  /\ UNCHANGED <<kind, top, first, group, last, rows, doomed, reaped, spoiled, faults>>

\* The reply is lost: the messages are delivered and nobody works on them.
ReadLost(h) ==
  /\ pc[h] = "idle"
  /\ group
  /\ Fresh # {}
  /\ Fault
  /\ last' \in Fresh
  /\ \A m \in Fresh : m <= last'
  /\ Deliver(Fresh, {})
  /\ spoiled' = Spoil(Fresh)
  /\ UNCHANGED <<kind, top, first, group, rows, loopVars, reaped, vanished>>

\* ON CONFLICT (event_uid) DO NOTHING.
Insert_NoConflict(S) == rows' = [m \in Ids |-> IF m \in S THEN UpTo(rows[m], 2) ELSE rows[m]]

Insert(S) == rows' = [m \in Ids |-> IF m \in S THEN 1 ELSE rows[m]]

\* Rows that are inserted before PostgreSQL rejects one.
Insertable(S) == {m \in S : \A k \in S : k <= m => kind[k] # "poison"}

\* InsertBatch answers.  A rejected row fails the whole batch; the rows
\* before it may or may not have been committed.
InsertBatch(h) ==
  LET events == Messages(hold[h]) IN
  /\ pc[h] = "insert"
  /\ \/ /\ Insertable(events) = events
        /\ Insert(events)
        /\ pc' = [pc EXCEPT ![h] = "ack"]
        /\ UNCHANGED <<hold, spoiled>>
     \/ /\ Insertable(events) # events
        /\ Insert({}) \/ Insert(Insertable(events))
        /\ End(h)
        /\ spoiled' = Spoil(hold[h])
  /\ UNCHANGED <<kind, top, first, group, last, pel, tries, idle, doomed,
                 reaped, vanished, faults>>

\* InsertBatch fails or times out, whatever was committed.
InsertFails(h) ==
  /\ pc[h] = "insert"
  /\ Fault
  /\ \E n \in 0..BatchSize : Insert(Oldest(Insertable(Messages(hold[h])), n))
  /\ End(h)
  /\ spoiled' = Spoil(hold[h])
  /\ UNCHANGED <<kind, top, first, group, last, pel, tries, idle, doomed, reaped, vanished>>

\* XACK removes the entries whoever they were delivered to.
Remove(S) == pel' = pel \ S /\ idle' = idle \ S

Ack(h) ==
  /\ pc[h] = "ack"
  /\ Remove(Messages(hold[h]))
  /\ Begin(h, MalformedIDs(hold[h]))
  /\ UNCHANGED <<kind, top, first, group, last, tries, rows, doomed, historyVars>>

AckMalformed(h) ==
  /\ pc[h] = "bad"
  /\ Remove(hold[h])
  /\ End(h)
  /\ UNCHANGED <<kind, top, first, group, last, tries, rows, doomed, historyVars>>

\* Either XACK fails, executed or not; handleBatch is over.
AckFails(h) ==
  /\ pc[h] \in {"ack", "bad"}
  /\ Fault
  /\ \/ Remove({})
     \/ pc[h] = "ack" /\ Remove(Messages(hold[h]))
     \/ pc[h] = "bad" /\ Remove(hold[h])
  /\ End(h)
  /\ spoiled' = Spoil(hold[h])
  /\ UNCHANGED <<kind, top, first, group, last, tries, rows, doomed, reaped, vanished>>

\* The worker process dies and is started again.
Crash(h) ==
  /\ pc[h] # "idle"
  /\ Fault
  /\ End(h)
  /\ spoiled' = Spoil(hold[h])
  /\ UNCHANGED <<kind, top, first, group, last, pel, tries, idle, rows, doomed,
                 reaped, vanished>>

(***************************************************************************)
(* reapDeadLetters: XPENDING finds what was delivered too often, one XACK  *)
(* drops it.                                                               *)
(***************************************************************************)

TooOften == {m \in pel : tries[m] >= MaxAttempts}

FindDeadLetters ==
  /\ doomed = {}
  /\ TooOften # {}
  /\ doomed' = Oldest(TooOften, BatchSize)
  /\ UNCHANGED <<kind, top, first, group, last, pel, tries, idle, rows, pc, hold, historyVars>>

AckDeadLetters ==
  /\ doomed # {}
  /\ reaped' = reaped \cup (doomed \cap pel)
  /\ Remove(doomed)
  /\ doomed' = {}
  /\ UNCHANGED <<kind, top, first, group, last, tries, rows, pc, hold,
                 vanished, spoiled, faults>>

\* The XACK fails without having run, or the process died before it.
ReapFails ==
  /\ doomed # {}
  /\ Fault
  /\ doomed' = {}
  /\ UNCHANGED <<kind, top, first, group, last, pel, tries, idle, rows, pc, hold,
                 reaped, vanished, spoiled>>

(***************************************************************************)
(* The specification.                                                      *)
(***************************************************************************)

Handle(h) == InsertBatch(h) \/ Ack(h) \/ AckMalformed(h)

HandlerFails(h) == InsertFails(h) \/ AckFails(h) \/ Crash(h)

Next ==
  \/ XAdd \/ EnsureGroup \/ Tick \/ Stall
  \/ \E h \in Readers  : ReadClicks(h) \/ ReadLost(h)
  \/ \E h \in Claimers : AutoClaim(h)
  \/ \E h \in Handlers : Handle(h) \/ HandlerFails(h)
  \/ FindDeadLetters \/ AckDeadLetters \/ ReapFails

Spec == Init /\ [][Next]_vars

\* The loops run for ever on tickers and bounded calls, and time passes.
\* Nothing makes a worker whose EnsureGroup failed try again.
FairSpec ==
  /\ Spec
  /\ WF_vars(Tick)
  /\ \A h \in Readers  : WF_vars(ReadClicks(h))
  /\ \A h \in Claimers : WF_vars(AutoClaim(h))
  /\ \A h \in Handlers : WF_vars(Handle(h))
  /\ WF_vars(FindDeadLetters \/ AckDeadLetters)

(***************************************************************************)
(* Properties.                                                             *)
(***************************************************************************)

\* Every variable has its type, and only handlers at work hold messages.
TypeOK ==
  /\ kind     \in [Ids -> Kinds]
  /\ top      \in 0..MaxMsgs
  /\ first    \in 1..(MaxMsgs + 1)
  /\ group    \in BOOLEAN
  /\ last     \in 0..MaxMsgs
  /\ pel      \subseteq Ids
  /\ tries    \in [Ids -> 0..MaxAttempts]
  /\ idle     \subseteq pel
  /\ rows     \in [Ids -> 0..2]
  /\ pc       \in [Handlers -> {"idle", "insert", "ack", "bad"}]
  /\ hold     \in [Handlers -> SUBSET Ids]
  /\ doomed   \subseteq Ids
  /\ reaped   \subseteq Ids
  /\ vanished \subseteq Ids
  /\ spoiled  \in [Ids -> 0..MaxAttempts]
  /\ faults   \in 0..MaxFaults
  /\ \A h \in Handlers : pc[h] = "idle" <=> hold[h] = {}

\* A message of the group leaves the pending list only when its row exists,
\* when it cannot be parsed, or when it was dead-lettered or trimmed: no
\* interleaving of consuming, claiming, failing and acknowledging loses it.
NothingLost ==
  \A m \in 1..top : m >= first =>
    \/ m > last
    \/ m \in pel
    \/ rows[m] > 0
    \/ kind[m] = "malformed"
    \/ m \in reaped \cup vanished

\* A message delivered again, to any loop of any process, is stored once.
StoredOnce == \A m \in Ids : rows[m] <= 1

\* A well-formed message is dead-lettered unstored only after all its
\* deliveries but the last went wrong: a message being worked on is not
\* claimed away, counted again and dropped.
DropsAreEarned ==
  \A m \in reaped :
    \/ kind[m] = "malformed"
    \/ rows[m] > 0
    \/ spoiled[m] >= MaxAttempts - 1

\* stream.go:27-32: a permanent failure fails every round, so MaxAttempts
\* deliveries tell it from the rest, and only such messages are dropped.
OnlyPoisonDropped ==
  \A m \in reaped : kind[m] = "good" => rows[m] > 0

(***************************************************************************)
(* ClickDelivery is what all the loops together do to a message.           *)
(***************************************************************************)

\* What was not delivered yet, and what is pending.
Open == {m \in first..top : m > last} \cup pel

Delivery == INSTANCE ClickDelivery WITH sent <- top, open <- Open

\* However the loops read, claim, insert, acknowledge, fail and crash: a message
\* is settled only when its row is stored or it cannot be parsed, given up only
\* after MaxAttempts deliveries, forgotten only when MaxLen newer ones displaced
\* it, and stored once.
ImplementsDelivery == Delivery!Spec

\* Every message the group can see leaves the pending list for good, the
\* ones PostgreSQL rejects for ever included.
Drains ==
  \A m \in Ids :
    (group /\ m <= top) ~> [](m < first \/ (m <= last /\ m \notin pel))

============================================================================
