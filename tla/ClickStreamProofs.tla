------------------------- MODULE ClickStreamProofs -------------------------
(***************************************************************************)
(* Theorems about the consumption of the click stream, for every number of *)
(* loops, messages, attempts and faults.                                   *)
(***************************************************************************)
EXTENDS ClickStream, FiniteSetTheorems, TLAPS

(***************************************************************************)
(* The inductive invariant.                                                *)
(***************************************************************************)

\* What was not delivered is not pending and has no try.
OrderInv ==
  /\ last <= top
  /\ \A m \in Ids : m > last => m \notin pel /\ tries[m] = 0

\* Acknowledging is what a handler may do with the messages in its hand.
WorkInv ==
  \A h \in Handlers :
    /\ pc[h] = "ack" => \A m \in Messages(hold[h]) : rows[m] > 0
    /\ pc[h] = "bad" => Messages(hold[h]) = {}

\* Nothing is lost if m is dropped.
Settled(m) == kind[m] = "malformed" \/ rows[m] > 0

\* The tries of a message went wrong, except for the one that is under way; while
\* it is, nobody claims the message.
TriesInv ==
  \A m \in pel :
    \/ Settled(m)
    \/ tries[m] <= spoiled[m]
    \/ m \in Held \ idle /\ tries[m] <= spoiled[m] + 1

DropsInv == \A m \in doomed \cup reaped : Settled(m) \/ spoiled[m] >= MaxAttempts - 1

IInv == TypeOK /\ OrderInv /\ WorkInv /\ NothingLost /\ StoredOnce /\ TriesInv /\ DropsInv

(***************************************************************************)
(* What the helpers return.                                                *)
(***************************************************************************)

LEMMA Sizes ==
  /\ MaxMsgs \in Nat \ {0} /\ MaxLen \in Nat \ {0} /\ BatchSize \in Nat \ {0}
  /\ MaxAttempts \in Nat \ {0} /\ MaxFaults \in Nat
BY SizeAssumption

LEMMA OldestIs == \A S, n : Oldest(S, n) \subseteq S
BY DEF Oldest

\* A reply limited by Count leaves no gap: it ends with every message before.
LEMMA FreshIs ==
  ASSUME TypeOK, NEW l \in Fresh, NEW m \in first..top, m > last, m <= l
  PROVE  m \in Fresh
<1> DEFINE T    == {k \in first..top : k > last}
           B(k) == {j \in T : j <= k}
<1>1. first \in Nat /\ top \in Nat /\ last \in Nat
  BY Sizes DEF TypeOK
<1>2. l \in T /\ m \in T /\ Cardinality(B(l)) <= BatchSize
  BY OldestIs DEF Fresh, Oldest
<1>3. IsFiniteSet(T)
  <2>1. IsFiniteSet(first..top)
    BY <1>1, FS_Interval
  <2> QED
    BY <2>1, FS_Subset
<1>4. B(m) \subseteq B(l)
  BY <1>1, <1>2
<1>5. IsFiniteSet(B(l)) /\ IsFiniteSet(B(m))
  <2>1. B(l) \subseteq T /\ B(m) \subseteq T
    OBVIOUS
  <2> QED
    BY <1>3, <2>1, FS_Subset
<1>6. Cardinality(B(m)) <= Cardinality(B(l))
  BY <1>4, <1>5, FS_Subset
<1>7. Cardinality(B(m)) \in Nat /\ Cardinality(B(l)) \in Nat
  BY <1>5, FS_CardinalityType
<1>8. Cardinality(B(m)) <= BatchSize
  BY <1>2, <1>6, <1>7, Sizes
<1> QED
  BY <1>2, <1>8 DEF Fresh, Oldest

LEMMA SpoilIs ==
  ASSUME TypeOK, NEW S
  PROVE  /\ Spoil(S) \in [Ids -> 0..MaxAttempts]
         /\ \A m \in Ids : spoiled[m] <= Spoil(S)[m]
         /\ \A m \in Ids \cap S : Spoil(S)[m] = MaxAttempts \/ spoiled[m] < Spoil(S)[m]
BY Sizes DEF TypeOK, Spoil, UpTo

LEMMA InsertIs ==
  ASSUME TypeOK, StoredOnce, NEW S, Insert(S)
  PROVE  /\ rows' \in [Ids -> 0..1]
         /\ \A m \in Ids : rows[m] <= rows'[m]
         /\ \A m \in Ids \cap S : rows'[m] = 1
BY DEF TypeOK, StoredOnce, Insert

(***************************************************************************)
(* A handler goes on with its batch, or ends it.                           *)
(***************************************************************************)

LEMMA HandlerStep ==
  ASSUME IInv, NEW h \in Handlers, NEW S \in SUBSET Ids,
         NEW c \in {"idle", "insert", "ack", "bad"},
         UNCHANGED <<kind, top, first, group, last, tries, doomed, reaped, vanished>>,
         rows' \in [Ids -> 0..1], \A m \in Ids : rows[m] <= rows'[m],
         spoiled' \in [Ids -> 0..MaxAttempts], \A m \in Ids : spoiled[m] <= spoiled'[m],
         faults' \in 0..MaxFaults,
         pel' \subseteq pel, idle' = idle \cap pel', \A m \in pel \ pel' : Settled(m)',
         hold' = [hold EXCEPT ![h] = S], pc' = [pc EXCEPT ![h] = c],
         c = "idle" <=> S = {},
         c = "ack" => \A m \in Messages(S) : rows'[m] > 0,
         c = "bad" => Messages(S) = {},
         \A m \in hold[h] \ S : \/ Settled(m)'
                                \/ spoiled'[m] = MaxAttempts
                                \/ spoiled[m] < spoiled'[m]
  PROVE  IInv'
<1> USE Sizes DEF IInv
<1>1. TypeOK'
  BY DEF TypeOK
<1>2. OrderInv'
  BY DEF OrderInv
<1>3. \A T : Messages(T)' = Messages(T)
  BY DEF Messages
<1>4. \A g \in Handlers : g # h => hold'[g] = hold[g] /\ pc'[g] = pc[g]
  BY DEF TypeOK
<1>5. hold'[h] = S /\ pc'[h] = c
  BY DEF TypeOK
<1>6. \A m \in Ids : rows[m] \in Nat /\ rows'[m] \in Nat /\ (rows[m] > 0 => rows'[m] > 0)
  BY DEF TypeOK
<1>7. WorkInv'
  <2> SUFFICES ASSUME NEW g \in Handlers
               PROVE  /\ pc'[g] = "ack" => \A m \in Messages(hold'[g]) : rows'[m] > 0
                      /\ pc'[g] = "bad" => Messages(hold'[g]) = {}
    BY <1>3 DEF WorkInv
  <2>1. CASE g = h
    BY <1>5, <2>1
  <2>2. CASE g # h
    <3>1. hold[g] \subseteq Ids
      BY DEF TypeOK
    <3>2. Messages(hold[g]) \subseteq Ids
      BY <3>1 DEF Messages
    <3> QED
      BY <1>4, <1>6, <2>2, <3>2 DEF WorkInv
  <2> QED
    BY <2>1, <2>2
<1>8. \A m \in Ids : Settled(m) => Settled(m)'
  BY <1>6 DEF Settled
<1>9. NothingLost'
  <2> SUFFICES ASSUME NEW m \in 1..top, m >= first
               PROVE  \/ m > last \/ m \in pel' \/ rows'[m] > 0
                      \/ kind[m] = "malformed" \/ m \in reaped \cup vanished
    BY DEF NothingLost
  <2>1. m \in Ids
    BY DEF Ids, TypeOK
  <2> QED
    BY <1>6, <2>1 DEF NothingLost, Settled
<1>10. StoredOnce'
  BY DEF StoredOnce
<1>11. TriesInv'
  <2> SUFFICES ASSUME NEW m \in pel', ~Settled(m)'
               PROVE  \/ tries[m] <= spoiled'[m]
                      \/ m \in Held' \ idle' /\ tries[m] <= spoiled'[m] + 1
    BY DEF TriesInv
  <2>1. /\ m \in Ids /\ m \in pel /\ ~Settled(m)
        /\ tries[m] \in 0..MaxAttempts /\ spoiled[m] \in Nat /\ spoiled'[m] \in Nat
        /\ spoiled[m] <= spoiled'[m]
    BY <1>8 DEF TypeOK
  <2>2. CASE tries[m] <= spoiled[m]
    BY <2>1, <2>2
  <2>3. CASE m \in Held \ idle /\ tries[m] <= spoiled[m] + 1
    <3>1. PICK g \in Handlers : m \in hold[g]
      BY <2>3 DEF Held
    <3>2. CASE m \in hold'[g]
      <4>1. m \in Held' \ idle'
        BY <2>3, <3>2 DEF Held
      <4> QED
        BY <2>1, <2>3, <4>1
    <3>3. CASE m \notin hold'[g]
      <4>1. g = h /\ m \in hold[h] \ S
        BY <1>4, <1>5, <3>1, <3>3
      <4> QED
        BY <2>1, <2>3, <4>1
    <3> QED
      BY <3>2, <3>3
  <2> QED
    BY <2>1, <2>2, <2>3 DEF TriesInv
<1>12. DropsInv'
  <2> SUFFICES ASSUME NEW m \in doomed \cup reaped
               PROVE  Settled(m)' \/ spoiled'[m] >= MaxAttempts - 1
    BY DEF DropsInv
  <2>1. m \in Ids /\ spoiled[m] \in Nat /\ spoiled'[m] \in Nat /\ spoiled[m] <= spoiled'[m]
    BY DEF TypeOK
  <2> QED
    BY <1>8, <2>1 DEF DropsInv
<1> QED
  BY <1>1, <1>2, <1>7, <1>9, <1>10, <1>11, <1>12

\* The arithmetic of a batch that is given back.
LEMMA Fails ==
  ASSUME IInv, NEW h \in Handlers,
         UNCHANGED <<kind, top, first, group, last, tries, doomed, reaped, vanished>>,
         rows' \in [Ids -> 0..1], \A m \in Ids : rows[m] <= rows'[m],
         faults' \in 0..MaxFaults, End(h), spoiled' = Spoil(hold[h]),
         pel' \subseteq pel, idle' = idle \cap pel', \A m \in pel \ pel' : Settled(m)'
  PROVE  IInv'
<1>1. TypeOK
  BY DEF IInv
<1>2. /\ spoiled' \in [Ids -> 0..MaxAttempts]
      /\ \A m \in Ids : spoiled[m] <= spoiled'[m]
      /\ \A m \in hold[h] : spoiled'[m] = MaxAttempts \/ spoiled[m] < spoiled'[m]
  <2>1. hold[h] \subseteq Ids
    BY <1>1 DEF TypeOK
  <2> QED
    BY <1>1, <2>1, SpoilIs
<1>3. hold' = [hold EXCEPT ![h] = {}] /\ pc' = [pc EXCEPT ![h] = "idle"]
  BY DEF End
<1> QED
  BY <1>2, <1>3, HandlerStep

LEMMA Unspoiled ==
  ASSUME IInv, UNCHANGED <<spoiled, faults>>
  PROVE  /\ spoiled' \in [Ids -> 0..MaxAttempts]
         /\ \A m \in Ids : spoiled[m] <= spoiled'[m]
         /\ faults' \in 0..MaxFaults
BY Sizes DEF IInv, TypeOK

LEMMA Unstored ==
  ASSUME IInv, UNCHANGED rows
  PROVE  /\ rows' \in [Ids -> 0..1]
         /\ \A m \in Ids : rows[m] <= rows'[m]
BY DEF IInv, TypeOK, StoredOnce

LEMMA Stored ==
  ASSUME IInv, NEW S, Insert(S)
  PROVE  /\ rows' \in [Ids -> 0..1]
         /\ \A m \in Ids : rows[m] <= rows'[m]
         /\ \A m \in Ids \cap S : rows'[m] = 1
BY InsertIs DEF IInv

\* A fault counts one.
LEMMA FaultIs == ASSUME IInv, Fault PROVE faults' \in 0..MaxFaults
BY Sizes DEF IInv, TypeOK, Fault

LEMMA InsertBatchStep ==
  ASSUME IInv, NEW h \in Handlers, InsertBatch(h)
  PROVE  IInv'
<1> DEFINE E == Messages(hold[h])
<1>0. /\ pc[h] = "insert" /\ hold[h] \in SUBSET Ids /\ hold[h] # {}
      /\ pel \subseteq Ids /\ idle = idle \cap pel
      /\ hold \in [Handlers -> SUBSET Ids]
  BY DEF InsertBatch, IInv, TypeOK
<1>1. /\ UNCHANGED <<kind, top, first, group, last, tries, doomed, reaped, vanished>>
      /\ UNCHANGED <<pel, idle, faults>>
      /\ faults' \in 0..MaxFaults
      /\ pel' \subseteq pel /\ idle' = idle \cap pel' /\ \A m \in pel \ pel' : Settled(m)'
  BY <1>0 DEF InsertBatch, IInv, TypeOK
<1>2. CASE Insertable(E) = E /\ Insert(E) /\ pc' = [pc EXCEPT ![h] = "ack"]
            /\ UNCHANGED <<hold, spoiled>>
  <2>1. hold' = [hold EXCEPT ![h] = hold[h]]
    BY <1>0, <1>2
  <2>2. /\ rows' \in [Ids -> 0..1]
        /\ \A m \in Ids : rows[m] <= rows'[m]
        /\ \A m \in Ids \cap E : rows'[m] = 1
    BY <1>2, Stored
  <2>3. \A m \in E : rows'[m] > 0
    BY <1>0, <2>2 DEF Messages
  <2>4. /\ spoiled' \in [Ids -> 0..MaxAttempts]
        /\ \A m \in Ids : spoiled[m] <= spoiled'[m]
    BY <1>1, <1>2, Unspoiled
  <2> HIDE DEF E
  <2> QED
    BY <1>0, <1>1, <1>2, <2>1, <2>2, <2>3, <2>4, HandlerStep DEF E
<1>3. CASE (Insert({}) \/ Insert(Insertable(E))) /\ End(h) /\ spoiled' = Spoil(hold[h])
  <2>1. rows' \in [Ids -> 0..1] /\ \A m \in Ids : rows[m] <= rows'[m]
    BY <1>3, Stored
  <2> QED
    BY <1>1, <1>3, <2>1, Fails
<1> QED
  BY <1>2, <1>3 DEF InsertBatch

LEMMA InsertFailsStep ==
  ASSUME IInv, NEW h \in Handlers, InsertFails(h)
  PROVE  IInv'
<1>1. /\ UNCHANGED <<kind, top, first, group, last, tries, doomed, reaped, vanished>>
      /\ pel' \subseteq pel /\ idle' = idle \cap pel' /\ \A m \in pel \ pel' : Settled(m)'
  BY DEF InsertFails, IInv, TypeOK
<1>2. rows' \in [Ids -> 0..1] /\ \A m \in Ids : rows[m] <= rows'[m]
  BY Stored DEF InsertFails
<1>3. faults' \in 0..MaxFaults
  BY FaultIs DEF InsertFails
<1> QED
  BY <1>1, <1>2, <1>3, Fails DEF InsertFails

\* What a handler acknowledges is stored or cannot be parsed.
LEMMA Removed ==
  ASSUME IInv, NEW S, Remove(S), UNCHANGED <<kind, rows>>, \A m \in S : Settled(m)
  PROVE  pel' \subseteq pel /\ idle' = idle \cap pel' /\ \A m \in pel \ pel' : Settled(m)'
BY DEF IInv, TypeOK, Remove, Settled

LEMMA AckIsSafe ==
  ASSUME IInv, NEW h \in Handlers
  PROVE  /\ pc[h] = "ack" => \A m \in Messages(hold[h]) : Settled(m)
         /\ pc[h] = "bad" => \A m \in hold[h] : Settled(m)
BY DEF IInv, WorkInv, Settled, Messages

LEMMA AckStep ==
  ASSUME IInv, NEW h \in Handlers, Ack(h)
  PROVE  IInv'
<1> DEFINE S == MalformedIDs(hold[h])
           c == IF S = {} THEN "idle" ELSE "bad"
<1>1. /\ UNCHANGED <<kind, top, first, group, last, tries, doomed, reaped, vanished>>
      /\ UNCHANGED <<rows, spoiled, faults>> /\ pc[h] = "ack"
  BY DEF Ack, historyVars
<1>2. hold[h] \subseteq Ids
  BY DEF IInv, TypeOK
<1>3. S \in SUBSET Ids /\ Messages(S) = {}
  BY <1>2 DEF Messages, MalformedIDs
<1>4. hold' = [hold EXCEPT ![h] = S] /\ pc' = [pc EXCEPT ![h] = c]
  BY <1>3 DEF Ack, Begin
<1>5. \A m \in Messages(hold[h]) : Settled(m)
  BY <1>1, AckIsSafe
<1>6. pel' \subseteq pel /\ idle' = idle \cap pel' /\ \A m \in pel \ pel' : Settled(m)'
  BY <1>1, <1>5, Removed DEF Ack
<1>7. \A m \in hold[h] \ S : Settled(m)'
  BY <1>1, <1>5 DEF Messages, MalformedIDs, Settled
<1>8. /\ rows' \in [Ids -> 0..1] /\ \A m \in Ids : rows[m] <= rows'[m]
      /\ spoiled' \in [Ids -> 0..MaxAttempts] /\ \A m \in Ids : spoiled[m] <= spoiled'[m]
      /\ faults' \in 0..MaxFaults
  BY <1>1, Unspoiled, Unstored
<1>9. c \in {"idle", "insert", "ack", "bad"} /\ (c = "idle" <=> S = {}) /\ c # "ack"
  OBVIOUS
<1> HIDE DEF S, c
<1> QED
  BY <1>1, <1>3, <1>4, <1>6, <1>7, <1>8, <1>9, HandlerStep

LEMMA AckMalformedStep ==
  ASSUME IInv, NEW h \in Handlers, AckMalformed(h)
  PROVE  IInv'
<1>1. /\ UNCHANGED <<kind, top, first, group, last, tries, doomed, reaped, vanished>>
      /\ UNCHANGED <<rows, spoiled, faults>> /\ pc[h] = "bad"
  BY DEF AckMalformed, historyVars
<1>2. hold' = [hold EXCEPT ![h] = {}] /\ pc' = [pc EXCEPT ![h] = "idle"]
  BY DEF AckMalformed, End
<1>3. \A m \in hold[h] : Settled(m)
  BY <1>1, AckIsSafe
<1>4. pel' \subseteq pel /\ idle' = idle \cap pel' /\ \A m \in pel \ pel' : Settled(m)'
  BY <1>1, <1>3, Removed DEF AckMalformed
<1>5. \A m \in hold[h] \ {} : Settled(m)'
  BY <1>1, <1>3 DEF Settled
<1>6. /\ rows' \in [Ids -> 0..1] /\ \A m \in Ids : rows[m] <= rows'[m]
      /\ spoiled' \in [Ids -> 0..MaxAttempts] /\ \A m \in Ids : spoiled[m] <= spoiled'[m]
      /\ faults' \in 0..MaxFaults
  BY <1>1, Unspoiled, Unstored
<1> QED
  BY <1>1, <1>2, <1>4, <1>5, <1>6, HandlerStep

LEMMA AckFailsStep ==
  ASSUME IInv, NEW h \in Handlers, AckFails(h)
  PROVE  IInv'
<1>1. /\ UNCHANGED <<kind, top, first, group, last, tries, doomed, reaped, vanished>>
      /\ UNCHANGED rows
  BY DEF AckFails
<1>2. pel' \subseteq pel /\ idle' = idle \cap pel' /\ \A m \in pel \ pel' : Settled(m)'
  BY <1>1, AckIsSafe, Removed DEF AckFails
<1>3. rows' \in [Ids -> 0..1] /\ \A m \in Ids : rows[m] <= rows'[m]
  BY <1>1, Unstored
<1>4. faults' \in 0..MaxFaults
  BY FaultIs DEF AckFails
<1> QED
  BY <1>1, <1>2, <1>3, <1>4, Fails DEF AckFails

LEMMA CrashStep ==
  ASSUME IInv, NEW h \in Handlers, Crash(h)
  PROVE  IInv'
<1>1. /\ UNCHANGED <<kind, top, first, group, last, tries, doomed, reaped, vanished>>
      /\ UNCHANGED rows
      /\ pel' \subseteq pel /\ idle' = idle \cap pel' /\ \A m \in pel \ pel' : Settled(m)'
  BY DEF Crash, IInv, TypeOK
<1>2. rows' \in [Ids -> 0..1] /\ \A m \in Ids : rows[m] <= rows'[m]
  BY <1>1, Unstored
<1>3. faults' \in 0..MaxFaults
  BY FaultIs DEF Crash
<1> QED
  BY <1>1, <1>2, <1>3, Fails DEF Crash

(***************************************************************************)
(* The stream, its group, and time.                                        *)
(***************************************************************************)

\* What holds of rows, hands and drops stays as it is.
LEMMA WorkStays ==
  ASSUME IInv, UNCHANGED <<kind, rows, pc, hold>>
  PROVE  WorkInv' /\ StoredOnce' /\ Held' = Held /\ \A m : Settled(m)' <=> Settled(m)
BY DEF IInv, WorkInv, StoredOnce, Messages, Held, Settled

LEMMA XAddStep ==
  ASSUME IInv, XAdd
  PROVE  IInv'
<1> USE Sizes
<1>1. /\ top < MaxMsgs /\ top' = top + 1 /\ first' \in first..top'
      /\ UNCHANGED <<kind, group, last, pel, tries, idle, rows, pc, hold, doomed>>
      /\ UNCHANGED <<reaped, vanished, spoiled, faults>>
  BY DEF XAdd, loopVars, historyVars
<1>2. TypeOK'
  BY <1>1 DEF IInv, TypeOK
<1>3. OrderInv'
  BY <1>1 DEF IInv, TypeOK, OrderInv
<1>4. NothingLost'
  <2>1. /\ top \in Nat /\ last \in Nat /\ first \in Nat /\ first' \in Nat
        /\ first <= first' /\ last <= top
    BY <1>1 DEF IInv, TypeOK, OrderInv
  <2>2. \A m \in 1..top' : m \in 1..top \/ m > last
    BY <1>1, <2>1
  <2> QED
    BY <1>1, <2>1, <2>2 DEF IInv, NothingLost
<1>5. TriesInv' /\ DropsInv'
  BY <1>1, WorkStays DEF IInv, TriesInv, DropsInv
<1> QED
  BY <1>1, <1>2, <1>3, <1>4, <1>5, WorkStays DEF IInv

LEMMA EnsureGroupStep ==
  ASSUME IInv, EnsureGroup
  PROVE  IInv'
<1>1. /\ group' = TRUE
      /\ UNCHANGED <<kind, top, first, last, pel, tries, idle, rows, pc, hold, doomed>>
      /\ UNCHANGED <<reaped, vanished, spoiled, faults>>
  BY DEF EnsureGroup, loopVars, historyVars
<1> QED
  BY <1>1, WorkStays DEF IInv, TypeOK, OrderInv, NothingLost, TriesInv, DropsInv

LEMMA TickStep ==
  ASSUME IInv, Tick
  PROVE  IInv'
<1>1. /\ idle' = idle \cup (pel \ Held)
      /\ UNCHANGED <<kind, top, first, group, last, pel, tries, rows, pc, hold, doomed>>
      /\ UNCHANGED <<reaped, vanished, spoiled, faults>>
  BY DEF Tick, loopVars, historyVars
<1> QED
  BY <1>1, WorkStays DEF IInv, TypeOK, OrderInv, NothingLost, TriesInv, DropsInv

LEMMA StallStep ==
  ASSUME IInv, Stall
  PROVE  IInv'
<1> USE Sizes
<1>1. /\ idle' = pel /\ spoiled' = Spoil(Held) /\ Fault
      /\ UNCHANGED <<kind, top, first, group, last, pel, tries, rows, pc, hold, doomed>>
      /\ UNCHANGED <<reaped, vanished>>
  BY DEF Stall, loopVars
<1>2. /\ spoiled' \in [Ids -> 0..MaxAttempts]
      /\ \A m \in Ids : spoiled[m] <= spoiled'[m]
      /\ \A m \in Ids \cap Held : spoiled'[m] = MaxAttempts \/ spoiled[m] < spoiled'[m]
  BY <1>1, SpoilIs DEF IInv
<1>3. TypeOK'
  BY <1>1, <1>2, FaultIs DEF IInv, TypeOK
<1>4. TriesInv'
  <2> SUFFICES ASSUME NEW m \in pel, ~Settled(m) PROVE tries[m] <= spoiled'[m]
    BY <1>1, WorkStays DEF TriesInv
  <2>1. m \in Ids /\ tries[m] \in 0..MaxAttempts /\ spoiled[m] \in Nat /\ spoiled'[m] \in Nat
    BY <1>2 DEF IInv, TypeOK
  <2> QED
    BY <1>2, <2>1 DEF IInv, TriesInv
<1>5. DropsInv'
  <2> SUFFICES ASSUME NEW m \in doomed \cup reaped
               PROVE  Settled(m) \/ spoiled'[m] >= MaxAttempts - 1
    BY <1>1, WorkStays DEF DropsInv
  <2>1. m \in Ids /\ spoiled[m] \in Nat /\ spoiled'[m] \in Nat
    BY <1>2 DEF IInv, TypeOK
  <2> QED
    BY <1>2, <2>1 DEF IInv, DropsInv
<1> QED
  BY <1>1, <1>3, <1>4, <1>5, WorkStays DEF IInv, OrderInv, NothingLost

(***************************************************************************)
(* Deliveries.                                                             *)
(***************************************************************************)

\* What XREADGROUP does to the group, whoever gets the reply.
Read ==
  /\ last' \in Fresh
  /\ \A m \in Fresh : m <= last'
  /\ Deliver(Fresh, {})
  /\ UNCHANGED <<kind, top, first, group, rows, doomed, reaped, vanished>>

LEMMA ReadOrder ==
  ASSUME IInv, Read
  PROVE  OrderInv' /\ NothingLost' /\ last' \in 0..MaxMsgs
<1>1. Fresh \subseteq {m \in first..top : m > last}
  BY OldestIs DEF Fresh
<1>2. /\ first \in Nat /\ top \in 0..MaxMsgs /\ last \in Nat /\ last' \in Nat
      /\ 1 <= first /\ last < last' /\ last' <= top
  BY <1>1, Sizes DEF IInv, TypeOK, Read
<1>3. pel' = pel \cup Fresh /\ \A m \in Ids \ Fresh : tries'[m] = tries[m]
  BY DEF Read, Deliver
<1>4. OrderInv'
  <2> SUFFICES ASSUME NEW m \in Ids, m > last' PROVE m \notin pel' /\ tries'[m] = 0
    BY <1>2 DEF OrderInv, Read
  <2>1. m \notin Fresh /\ m > last
    BY <1>2 DEF Read, Ids
  <2> QED
    BY <1>3, <2>1 DEF IInv, OrderInv
<1>5. NothingLost'
  <2> SUFFICES ASSUME NEW m \in 1..top, m >= first
               PROVE  \/ m > last' \/ m \in pel' \/ rows[m] > 0
                      \/ kind[m] = "malformed" \/ m \in reaped \cup vanished
    BY DEF NothingLost, Read
  <2>1. CASE m > last /\ m <= last'
    <3>1. m \in Fresh
      BY <1>2, <2>1, FreshIs DEF IInv, Read
    <3> QED
      BY <1>3, <3>1
  <2>2. CASE m <= last
    BY <1>2, <1>3, <2>2 DEF IInv, NothingLost
  <2> QED
    BY <1>2, <2>1, <2>2
<1> QED
  BY <1>2, <1>4, <1>5, Sizes

\* A delivered message has one try; the others keep theirs.
LEMMA ReadTries ==
  ASSUME IInv, Read
  PROVE  /\ Fresh \subseteq Ids
         /\ tries' \in [Ids -> 0..MaxAttempts]
         /\ \A m \in Fresh : tries[m] = 0 /\ tries'[m] = 1
         /\ \A m \in Ids \ Fresh : tries'[m] = tries[m]
         /\ pel' = pel \cup Fresh /\ idle' = idle \ Fresh
<1> USE Sizes
<1>1. Fresh \subseteq {m \in first..top : m > last}
  BY OldestIs DEF Fresh
<1>2. Fresh \subseteq Ids /\ \A m \in Fresh : m > last
  BY <1>1 DEF IInv, TypeOK, Ids
<1>3. \A m \in Fresh : tries[m] = 0
  BY <1>2 DEF IInv, OrderInv
<1>4. tries' = [m \in Ids |-> IF m \in Fresh THEN UpTo(tries[m], MaxAttempts) ELSE tries[m]]
  BY DEF Read, Deliver
<1> HIDE DEF Fresh
<1>5. \A m \in Fresh : tries'[m] = 1
  BY <1>2, <1>3, <1>4 DEF UpTo
<1>6. \A m \in Ids \ Fresh : tries'[m] = tries[m]
  BY <1>4
<1>7. \A m \in Ids : tries'[m] \in 0..MaxAttempts
  BY <1>5, <1>6 DEF IInv, TypeOK
<1> QED
  BY <1>2, <1>3, <1>4, <1>5, <1>6, <1>7 DEF Read, Deliver

LEMMA ReadClicksStep ==
  ASSUME IInv, NEW h \in Handlers, ReadClicks(h)
  PROVE  IInv'
<1> USE Sizes
<1>1. /\ Read /\ pc[h] = "idle" /\ Fresh # {} /\ UNCHANGED <<spoiled, faults>>
      /\ hold' = [hold EXCEPT ![h] = Fresh]
      /\ pc' = [pc EXCEPT ![h] = IF Messages(Fresh) # {} THEN "insert" ELSE "bad"]
  BY DEF ReadClicks, Read, Begin, historyVars
<1>2. OrderInv' /\ NothingLost' /\ last' \in 0..MaxMsgs
  BY <1>1, ReadOrder
<1>3. /\ Fresh \subseteq Ids /\ tries' \in [Ids -> 0..MaxAttempts]
      /\ \A m \in Fresh : tries[m] = 0 /\ tries'[m] = 1
      /\ \A m \in Ids \ Fresh : tries'[m] = tries[m]
      /\ pel' = pel \cup Fresh /\ idle' = idle \ Fresh
  BY <1>1, ReadTries
<1>4. /\ UNCHANGED <<kind, top, first, group, rows, doomed, reaped, vanished>>
      /\ \A m : Settled(m)' <=> Settled(m)
      /\ \A S : Messages(S)' = Messages(S)
  BY <1>1 DEF Read, Settled, Messages
<1> HIDE DEF Fresh
<1>5. TypeOK'
  BY <1>1, <1>2, <1>3, <1>4 DEF IInv, TypeOK
<1>6. WorkInv'
  BY <1>1, <1>4 DEF IInv, TypeOK, WorkInv
<1>7. Held' = Held \cup Fresh
  BY <1>1 DEF IInv, TypeOK, Held
<1>8. TriesInv'
  <2> SUFFICES ASSUME NEW m \in pel', ~Settled(m)
               PROVE  \/ tries'[m] <= spoiled[m]
                      \/ m \in Held' \ idle' /\ tries'[m] <= spoiled[m] + 1
    BY <1>1, <1>4 DEF TriesInv
  <2>1. CASE m \in Fresh
    <3>1. spoiled[m] \in Nat
      BY <1>3, <2>1 DEF IInv, TypeOK
    <3> QED
      BY <1>3, <1>7, <2>1, <3>1
  <2>2. CASE m \notin Fresh
    <3>1. m \in pel /\ m \in Ids /\ tries'[m] = tries[m]
      BY <1>3, <2>2 DEF IInv, TypeOK
    <3> QED
      BY <1>3, <1>7, <3>1 DEF IInv, TriesInv
  <2> QED
    BY <2>1, <2>2
<1>9. DropsInv' /\ StoredOnce'
  BY <1>1, <1>4 DEF IInv, DropsInv, StoredOnce
<1> QED
  BY <1>2, <1>5, <1>6, <1>8, <1>9 DEF IInv

\* The tries of a lost reply went wrong at once.
LEMMA ReadLostStep ==
  ASSUME IInv, NEW h \in Readers, ReadLost(h)
  PROVE  IInv'
<1> USE Sizes
<1>1. /\ Read /\ UNCHANGED <<pc, hold>> /\ spoiled' = Spoil(Fresh) /\ Fault
      /\ UNCHANGED <<kind, rows>>
  BY DEF ReadLost, Read, loopVars
<1>2. OrderInv' /\ NothingLost' /\ last' \in 0..MaxMsgs
  BY <1>1, ReadOrder
<1>3. /\ Fresh \subseteq Ids /\ tries' \in [Ids -> 0..MaxAttempts]
      /\ \A m \in Fresh : tries[m] = 0 /\ tries'[m] = 1
      /\ \A m \in Ids \ Fresh : tries'[m] = tries[m]
      /\ pel' = pel \cup Fresh /\ idle' = idle \ Fresh
  BY <1>1, ReadTries
<1>4. /\ spoiled' \in [Ids -> 0..MaxAttempts]
      /\ \A m \in Ids : spoiled[m] <= spoiled'[m]
      /\ \A m \in Ids \cap Fresh : spoiled'[m] = MaxAttempts \/ spoiled[m] < spoiled'[m]
  BY <1>1, SpoilIs DEF IInv
<1> HIDE DEF Fresh
<1>5. TypeOK'
  BY <1>1, <1>2, <1>3, <1>4, FaultIs DEF IInv, TypeOK, Read
<1>6. TriesInv'
  <2> SUFFICES ASSUME NEW m \in pel', ~Settled(m)
               PROVE  \/ tries'[m] <= spoiled'[m]
                      \/ m \in Held \ idle' /\ tries'[m] <= spoiled'[m] + 1
    BY <1>1, WorkStays DEF TriesInv
  <2>1. m \in Ids
    BY <1>3 DEF IInv, TypeOK
  <2>2. tries[m] \in Nat /\ spoiled[m] \in Nat /\ spoiled'[m] \in Nat /\ spoiled[m] <= spoiled'[m]
    BY <1>4, <2>1 DEF IInv, TypeOK
  <2>3. CASE m \in Fresh
    BY <1>3, <1>4, <2>1, <2>2, <2>3
  <2>4. CASE m \notin Fresh
    <3>1. m \in pel /\ tries'[m] = tries[m]
      BY <1>3, <2>1, <2>4
    <3> QED
      BY <1>3, <2>2, <3>1 DEF IInv, TriesInv
  <2> QED
    BY <2>3, <2>4
<1>7. DropsInv'
  <2> SUFFICES ASSUME NEW m \in doomed \cup reaped
               PROVE  Settled(m) \/ spoiled'[m] >= MaxAttempts - 1
    BY <1>1, WorkStays DEF DropsInv, Read
  <2>1. m \in Ids
    BY DEF IInv, TypeOK
  <2>2. spoiled[m] \in Nat /\ spoiled'[m] \in Nat /\ spoiled[m] <= spoiled'[m]
    BY <1>4, <2>1 DEF IInv, TypeOK
  <2> QED
    BY <2>2 DEF IInv, DropsInv
<1> QED
  BY <1>1, <1>2, <1>5, <1>6, <1>7, WorkStays DEF IInv

\* Only what is idle, or has lost its message, is claimed.
LEMMA AutoClaimStep ==
  ASSUME IInv, NEW h \in Handlers, AutoClaim(h)
  PROVE  IInv'
<1> USE Sizes
<1> DEFINE gone == {m \in Claimable : m < first}
           S    == Claimable \ gone
           c    == IF S = {} THEN "idle" ELSE IF Messages(S) # {} THEN "insert" ELSE "bad"
<1>1. /\ pc[h] = "idle" /\ Deliver(S, gone) /\ vanished' = vanished \cup gone
      /\ hold' = [hold EXCEPT ![h] = S] /\ pc' = [pc EXCEPT ![h] = c]
      /\ UNCHANGED <<kind, top, first, group, last, rows, doomed, reaped, spoiled, faults>>
  BY DEF AutoClaim, Begin
<1>2. Claimable \subseteq {m \in pel : m \in idle \/ m < first}
  BY OldestIs DEF Claimable
<1>3. /\ S \subseteq pel /\ S \subseteq idle /\ gone \subseteq pel /\ S \cap gone = {}
      /\ \A m \in gone : m < first
  BY <1>2
<1>4. c \in {"idle", "insert", "bad"} /\ (c = "idle" <=> S = {}) /\ (c = "bad" => Messages(S) = {})
  OBVIOUS
<1> HIDE DEF gone, S, c
<1>5. /\ pel' = pel \ gone /\ idle' = idle \ (S \cup gone)
      /\ tries' = [m \in Ids |-> IF m \in S THEN UpTo(tries[m], MaxAttempts) ELSE tries[m]]
  BY <1>1, <1>3 DEF Deliver
<1>6. /\ tries' \in [Ids -> 0..MaxAttempts]
      /\ \A m \in Ids : tries'[m] <= tries[m] + 1
      /\ \A m \in Ids \ S : tries'[m] = tries[m]
  BY <1>5 DEF IInv, TypeOK, UpTo
<1>7. TypeOK'
  BY <1>1, <1>3, <1>4, <1>5, <1>6 DEF IInv, TypeOK
<1>8. OrderInv'
  BY <1>1, <1>3, <1>5, <1>6 DEF IInv, OrderInv
<1>9. WorkInv'
  BY <1>1, <1>4 DEF IInv, TypeOK, WorkInv, Messages
<1>10. NothingLost'
  BY <1>1, <1>3, <1>5 DEF IInv, NothingLost
<1>11. Held' = Held \cup S
  BY <1>1 DEF IInv, TypeOK, Held
<1>12. \A m : Settled(m)' <=> Settled(m)
  BY <1>1 DEF Settled
<1>13. TriesInv'
  <2> SUFFICES ASSUME NEW m \in pel', ~Settled(m)
               PROVE  \/ tries'[m] <= spoiled[m]
                      \/ m \in Held' \ idle' /\ tries'[m] <= spoiled[m] + 1
    BY <1>1, <1>12 DEF TriesInv
  <2>1. m \in pel /\ m \in Ids
    BY <1>5 DEF IInv, TypeOK
  <2>2. tries[m] \in Nat /\ tries'[m] \in Nat /\ spoiled[m] \in Nat
    BY <1>6, <2>1 DEF IInv, TypeOK
  <2>3. CASE m \in S
    <3>1. tries[m] <= spoiled[m]
      BY <1>3, <2>1, <2>3 DEF IInv, TriesInv
    <3> QED
      BY <1>5, <1>6, <1>11, <2>1, <2>2, <2>3, <3>1
  <2>4. CASE m \notin S
    BY <1>5, <1>6, <1>11, <2>1, <2>4 DEF IInv, TriesInv
  <2> QED
    BY <2>3, <2>4
<1>14. DropsInv' /\ StoredOnce'
  BY <1>1, <1>12 DEF IInv, DropsInv, StoredOnce
<1> QED
  BY <1>7, <1>8, <1>9, <1>10, <1>13, <1>14 DEF IInv

(***************************************************************************)
(* Dead letters.                                                           *)
(***************************************************************************)

LEMMA FindStep ==
  ASSUME IInv, FindDeadLetters
  PROVE  IInv'
<1> USE Sizes
<1>1. /\ doomed' \subseteq TooOften
      /\ UNCHANGED <<kind, top, first, group, last, pel, tries, idle, rows, pc, hold>>
      /\ UNCHANGED <<reaped, vanished, spoiled, faults>>
  BY OldestIs DEF FindDeadLetters, historyVars
<1>2. TypeOK'
  BY <1>1 DEF IInv, TypeOK, TooOften
<1>3. DropsInv'
  <2> SUFFICES ASSUME NEW m \in TooOften, ~Settled(m)
               PROVE  spoiled[m] >= MaxAttempts - 1
    BY <1>1, WorkStays DEF IInv, DropsInv
  <2>1. m \in pel /\ tries[m] >= MaxAttempts /\ tries[m] \in Nat /\ spoiled[m] \in Nat
    BY DEF TooOften, IInv, TypeOK
  <2> QED
    BY <2>1 DEF IInv, TriesInv
<1> QED
  BY <1>1, <1>2, <1>3, WorkStays DEF IInv, OrderInv, NothingLost, TriesInv

LEMMA DropStep ==
  ASSUME IInv, AckDeadLetters \/ ReapFails
  PROVE  IInv'
<1>1. /\ UNCHANGED <<kind, top, first, group, last, tries, rows, pc, hold>>
      /\ UNCHANGED <<vanished, spoiled>>
      /\ pel' \subseteq pel /\ idle' = idle \cap pel' /\ doomed' = {}
      /\ reaped' = reaped \cup (pel \ pel') /\ reaped' \subseteq reaped \cup doomed
  BY DEF AckDeadLetters, ReapFails, Remove, IInv, TypeOK
<1>2. faults' \in 0..MaxFaults
  BY FaultIs DEF AckDeadLetters, ReapFails, IInv, TypeOK
<1>3. TypeOK'
  BY <1>1, <1>2 DEF IInv, TypeOK
<1>4. OrderInv' /\ NothingLost'
  BY <1>1 DEF IInv, OrderInv, NothingLost
<1>5. TriesInv' /\ DropsInv'
  BY <1>1, WorkStays DEF IInv, TriesInv, DropsInv
<1> QED
  BY <1>1, <1>3, <1>4, <1>5, WorkStays DEF IInv

(***************************************************************************)
(* The theorems.                                                           *)
(***************************************************************************)

LEMMA StreamStart == Init => IInv
<1> SUFFICES ASSUME Init PROVE IInv
  OBVIOUS
<1>1. TypeOK
  <2>1. /\ top \in 0..MaxMsgs /\ first \in 1..(MaxMsgs + 1) /\ last \in 0..MaxMsgs
        /\ faults \in 0..MaxFaults
    BY Sizes DEF Init
  <2>5. kind \in [Ids -> Kinds] /\ group \in BOOLEAN
    BY Zenon DEF Init
  <2>2. /\ tries \in [Ids -> 0..MaxAttempts] /\ spoiled \in [Ids -> 0..MaxAttempts]
        /\ rows \in [Ids -> 0..2]
    BY Sizes DEF Init
  <2>3. /\ pc \in [Handlers -> {"idle", "insert", "ack", "bad"}]
        /\ hold \in [Handlers -> SUBSET Ids]
        /\ \A h \in Handlers : pc[h] = "idle" <=> hold[h] = {}
    BY DEF Init
  <2>4. pel = {} /\ idle = {} /\ doomed = {} /\ reaped = {} /\ vanished = {}
    BY DEF Init
  <2> QED
    BY <2>1, <2>2, <2>3, <2>4, <2>5 DEF TypeOK
<1>2. OrderInv /\ NothingLost /\ StoredOnce
  BY Sizes DEF Init, OrderInv, NothingLost, StoredOnce
<1>3. WorkInv /\ TriesInv /\ DropsInv
  BY DEF Init, WorkInv, TriesInv, DropsInv
<1> QED
  BY <1>1, <1>2, <1>3 DEF IInv

LEMMA StreamNext == IInv /\ [Next]_vars => IInv'
<1> SUFFICES ASSUME IInv, [Next]_vars PROVE IInv'
  OBVIOUS
<1>1. CASE XAdd
  BY <1>1, XAddStep
<1>2. CASE EnsureGroup
  BY <1>2, EnsureGroupStep
<1>3. CASE Tick
  BY <1>3, TickStep
<1>4. CASE Stall
  BY <1>4, StallStep
<1>5. ASSUME NEW h \in Readers, ReadClicks(h) \/ ReadLost(h)
      PROVE  IInv'
  BY <1>5, ReadClicksStep, ReadLostStep DEF Handlers
<1>6. ASSUME NEW h \in Claimers, AutoClaim(h)
      PROVE  IInv'
  BY <1>6, AutoClaimStep DEF Handlers
<1>7. ASSUME NEW h \in Handlers, Handle(h)
      PROVE  IInv'
  BY <1>7, InsertBatchStep, AckStep, AckMalformedStep DEF Handle
<1>8. ASSUME NEW h \in Handlers, HandlerFails(h)
      PROVE  IInv'
  BY <1>8, InsertFailsStep, AckFailsStep, CrashStep DEF HandlerFails
<1>9. CASE FindDeadLetters
  BY <1>9, FindStep
<1>10. CASE AckDeadLetters \/ ReapFails
  BY <1>10, DropStep
<1>11. CASE UNCHANGED vars
  <2>1. /\ UNCHANGED <<kind, top, first, group, last, pel, tries, idle, rows, pc, hold, doomed>>
        /\ UNCHANGED <<reaped, vanished, spoiled, faults>>
    BY <1>11 DEF vars, loopVars, historyVars
  <2>2. TypeOK' /\ OrderInv' /\ NothingLost'
    BY <2>1 DEF IInv, TypeOK, OrderInv, NothingLost
  <2>3. TriesInv' /\ DropsInv'
    BY <2>1, WorkStays DEF IInv, TriesInv, DropsInv
  <2> QED
    BY <2>1, <2>2, <2>3, WorkStays DEF IInv
<1> QED
  BY <1>1, <1>2, <1>3, <1>4, <1>5, <1>6, <1>7, <1>8, <1>9, <1>10, <1>11 DEF Next

LEMMA StreamInvariance == Spec => []IInv
BY StreamStart, StreamNext, PTL DEF Spec

\* The types of the stream, for any number of loops and messages.
THEOREM StreamTypes == Spec => []TypeOK
<1>1. IInv => TypeOK
  BY DEF IInv
<1> QED
  BY StreamInvariance, <1>1, PTL

\* No interleaving of consuming, claiming, failing, crashing and acknowledging
\* loses a message that is neither stored nor dropped.
THEOREM MessagesAreKept == Spec => []NothingLost
<1>1. IInv => NothingLost
  BY DEF IInv
<1> QED
  BY StreamInvariance, <1>1, PTL

\* However often a message is delivered, it is stored once.
THEOREM MessagesAreStoredOnce == Spec => []StoredOnce
<1>1. IInv => StoredOnce
  BY DEF IInv
<1> QED
  BY StreamInvariance, <1>1, PTL

\* The dead-letter loop drops a message that could be stored only after all its
\* deliveries but the last went wrong.
THEOREM DropsHaveReasons == Spec => []DropsAreEarned
<1>1. IInv => DropsAreEarned
  BY DEF IInv, DropsInv, DropsAreEarned, Settled
<1> QED
  BY StreamInvariance, <1>1, PTL

(***************************************************************************)
(* ClickStream implements ClickDelivery.                                   *)
(***************************************************************************)

\* What a handler holds was delivered, what the dead-letter loop found was
\* delivered MaxAttempts times, and what was trimmed has MaxLen newer messages.
TriedInv ==
  /\ \A h \in Handlers : \A m \in hold[h] : tries[m] > 0
  /\ \A m \in doomed : tries[m] = MaxAttempts
  /\ first = 1 \/ first + MaxLen <= top + 1

LEMMA TriedStart == Init => TriedInv
BY DEF Init, TriedInv

\* Tries only grow, hands take what was delivered, and nothing is trimmed but by
\* XADD.
LEMMA TriedKept ==
  ASSUME IInv, TriedInv, UNCHANGED <<top, first>>,
         \A m \in Ids : tries'[m] \in 0..MaxAttempts /\ tries[m] <= tries'[m],
         \A h \in Handlers : \A m \in hold'[h] : m \in hold[h] \/ (m \in Ids /\ tries'[m] > 0),
         \A m \in doomed' : m \in doomed \/ (m \in Ids /\ tries'[m] = MaxAttempts)
  PROVE  TriedInv'
<1> USE Sizes
<1>1. ASSUME NEW h \in Handlers, NEW m \in hold'[h] PROVE tries'[m] > 0
  <2>1. m \in Ids /\ (tries[m] > 0 \/ tries'[m] > 0)
    BY <1>1 DEF IInv, TypeOK, TriedInv
  <2> QED
    BY <2>1 DEF IInv, TypeOK
<1>2. ASSUME NEW m \in doomed' PROVE tries'[m] = MaxAttempts
  <2>1. m \in Ids /\ (tries[m] = MaxAttempts \/ tries'[m] = MaxAttempts)
    BY <1>2 DEF IInv, TypeOK, TriedInv
  <2> QED
    BY <2>1 DEF IInv, TypeOK
<1> QED
  BY <1>1, <1>2 DEF TriedInv

LEMMA SameTries ==
  ASSUME IInv, UNCHANGED tries
  PROVE  \A m \in Ids : tries'[m] \in 0..MaxAttempts /\ tries[m] <= tries'[m]
BY Sizes DEF IInv, TypeOK

\* Each delivery counts.
LEMMA MoreTries ==
  ASSUME IInv, NEW S, NEW gone, Deliver(S, gone)
  PROVE  /\ \A m \in Ids : tries'[m] \in 0..MaxAttempts /\ tries[m] <= tries'[m]
         /\ \A m \in Ids \cap S : tries'[m] > 0
BY Sizes DEF IInv, TypeOK, Deliver, UpTo

LEMMA FreshAreIds == IInv => Fresh \subseteq Ids
BY OldestIs, Sizes DEF Fresh, IInv, TypeOK, Ids

LEMMA ClaimableAreIds == IInv => Claimable \subseteq pel /\ Claimable \subseteq Ids
BY OldestIs DEF Claimable, IInv, TypeOK

LEMMA TriedNext ==
  ASSUME IInv, TriedInv, [Next]_vars
  PROVE  TriedInv'
<1> USE DEF loopVars, historyVars
<1>1. CASE XAdd
  <2>1. /\ top' = top + 1 /\ first' \in first..top' /\ UNCHANGED <<tries, hold, doomed>>
        /\ first' = first \/ top' - first' + 1 >= MaxLen
    BY <1>1 DEF XAdd
  <2>2. top \in Nat /\ first \in Nat /\ MaxLen \in Nat
    BY Sizes DEF IInv, TypeOK
  <2>3. first' = 1 \/ first' + MaxLen <= top' + 1
    <3>1. first' \in Nat /\ top' \in Nat /\ first' <= top'
      BY <2>1, <2>2
    <3>2. \A f, u, n \in Nat : f <= u /\ u - f + 1 >= n => f + n <= u + 1
      OBVIOUS
    <3>3. CASE first' = first
      BY <2>1, <2>2, <3>3 DEF TriedInv
    <3>4. CASE top' - first' + 1 >= MaxLen
      BY <2>2, <3>1, <3>2, <3>4
    <3> QED
      BY <2>1, <3>3, <3>4
  <2> QED
    BY <2>1, <2>3 DEF TriedInv
<1>2. ASSUME UNCHANGED <<top, first, tries, hold>>, doomed' \subseteq TooOften \/ doomed' \subseteq doomed
      PROVE  TriedInv'
  <2>1. \A m \in TooOften : m \in Ids /\ tries[m] = MaxAttempts
    BY Sizes DEF IInv, TypeOK, TooOften
  <2> QED
    BY <1>2, <2>1, SameTries, TriedKept
<1>3. CASE EnsureGroup \/ Tick \/ Stall \/ AckDeadLetters \/ ReapFails \/ UNCHANGED vars
  BY <1>2, <1>3 DEF EnsureGroup, Tick, Stall, AckDeadLetters, ReapFails, vars
<1>4. CASE FindDeadLetters
  BY <1>2, <1>4, OldestIs DEF FindDeadLetters
<1>5. ASSUME NEW h \in Readers, ReadClicks(h)
      PROVE  TriedInv'
  <2>1. /\ UNCHANGED <<top, first, doomed>> /\ Deliver(Fresh, {})
        /\ hold' = [hold EXCEPT ![h] = Fresh]
    BY <1>5 DEF ReadClicks, Begin
  <2>2. \A g \in Handlers : \A m \in hold'[g] : m \in hold[g] \/ m \in Fresh
    BY <2>1 DEF IInv, TypeOK
  <2> QED
    BY <2>1, <2>2, MoreTries, FreshAreIds, TriedKept
<1>6. ASSUME NEW h \in Readers, ReadLost(h)
      PROVE  TriedInv'
  BY <1>6, MoreTries, TriedKept DEF ReadLost
<1>7. ASSUME NEW h \in Claimers, AutoClaim(h)
      PROVE  TriedInv'
  <2> DEFINE gone == {m \in Claimable : m < first}
             S    == Claimable \ gone
  <2>1. /\ UNCHANGED <<top, first, doomed>> /\ Deliver(S, gone)
        /\ hold' = [hold EXCEPT ![h] = S]
    BY <1>7 DEF AutoClaim, Begin
  <2>2. S \subseteq Ids
    BY ClaimableAreIds
  <2> HIDE DEF gone, S
  <2>3. \A g \in Handlers : \A m \in hold'[g] : m \in hold[g] \/ m \in S
    BY <2>1 DEF IInv, TypeOK
  <2> QED
    BY <2>1, <2>2, <2>3, MoreTries, TriedKept
<1>8. ASSUME NEW h \in Handlers, Handle(h) \/ HandlerFails(h)
      PROVE  TriedInv'
  <2>1. UNCHANGED <<top, first, tries, doomed>>
    BY <1>8 DEF Handle, HandlerFails, InsertBatch, Ack, AckMalformed, InsertFails, AckFails, Crash
  <2>2. PICK S \in SUBSET hold[h] : hold' = [hold EXCEPT ![h] = S]
    <3>1. CASE UNCHANGED hold
      <4>1. hold' = [hold EXCEPT ![h] = hold[h]]
        BY <3>1 DEF IInv, TypeOK
      <4> QED
        BY <4>1
    <3>2. CASE End(h)
      BY <3>2 DEF End
    <3>3. CASE Begin(h, MalformedIDs(hold[h]))
      BY <3>3 DEF Begin, MalformedIDs
    <3> QED
      BY <1>8, <3>1, <3>2, <3>3
      DEF Handle, HandlerFails, InsertBatch, Ack, AckMalformed, InsertFails, AckFails, Crash
  <2>3. \A g \in Handlers : \A m \in hold'[g] : m \in hold[g]
    BY <2>2 DEF IInv, TypeOK
  <2> QED
    BY <2>1, <2>3, SameTries, TriedKept
<1> QED
  BY <1>1, <1>3, <1>4, <1>5, <1>6, <1>7, <1>8 DEF Next, Handlers

\* No step of ClickDelivery: the messages, their tries and rows, and what is open
\* stay as they are.
LEMMA NoDelivery ==
  ASSUME UNCHANGED <<kind, top, tries, rows>>, Open' = Open
  PROVE  UNCHANGED Delivery!vars
BY DEF Delivery!vars

LEMMA OpenStays ==
  ASSUME UNCHANGED <<first, top, last, pel>>
  PROVE  Open' = Open
BY DEF Open

\* XADD publishes, and forgets what it trims before it was delivered.
LEMMA PublishStep ==
  ASSUME IInv, XAdd
  PROVE  Delivery!Publish
<1> DEFINE gone == (Open \cup {top'}) \ Open'
<1>1. /\ top < MaxMsgs /\ top' = top + 1 /\ first' \in first..top'
      /\ first' = first \/ top' - first' + 1 >= MaxLen
      /\ UNCHANGED <<kind, last, pel, tries, rows>>
  BY DEF XAdd
<1>2. /\ top \in Nat /\ first \in Nat /\ first >= 1 /\ last \in Nat /\ last <= top
      /\ first' \in Nat /\ top' \in Nat /\ first <= first' /\ first' <= top' /\ MaxLen \in Nat
  BY <1>1, Sizes DEF IInv, TypeOK, OrderInv
<1>3. Open' = {m \in first'..top' : m > last} \cup pel
  BY <1>1 DEF Open
<1>4. Open' \subseteq Open \cup {top'} /\ top' \in Open'
  BY <1>1, <1>2, <1>3 DEF Open
<1>5. ASSUME NEW m \in gone PROVE m \in Delivery!Trimmed(top')
  <2>1. m \in first..top /\ m < first'
    BY <1>1, <1>2, <1>3, <1>4, <1>5 DEF Open
  <2>2. \A f, u, n, k \in Nat : f <= u /\ u - f + 1 >= n /\ k < f => k + n <= u
    OBVIOUS
  <2>3. m \in Nat /\ m >= 1 /\ first' # first
    BY <1>2, <2>1
  <2>4. top' - first' + 1 >= MaxLen
    BY <1>1, <2>3
  <2>5. m + MaxLen <= top'
    BY <1>2, <2>1, <2>2, <2>3, <2>4
  <2>6. m \in 1..top'
    BY <1>2, <2>1, <2>3
  <2> QED
    BY <2>5, <2>6 DEF Delivery!Trimmed
<1>6. Open' = (Open \cup {top'}) \ gone
  BY <1>4
<1> HIDE DEF gone
<1>7. gone \in SUBSET Delivery!Trimmed(top')
  BY <1>5
<1> QED
  BY <1>1, <1>6, <1>7 DEF Delivery!Publish

\* XREADGROUP delivers; what it delivers was open, and is pending now.
LEMMA ReadDelivers ==
  ASSUME IInv, Read
  PROVE  \E S \in SUBSET Open : Delivery!Deliver(S, {})
<1>1. Fresh \subseteq {m \in first..top : m > last}
  BY OldestIs DEF Fresh
<1>2. /\ first \in Nat /\ top \in Nat /\ last \in Nat /\ last' \in Nat /\ last < last' /\ last' <= top
  BY <1>1, Sizes DEF IInv, TypeOK, Read
<1>3. Open' = {m \in first..top : m > last'} \cup pel \cup Fresh
  BY DEF Open, Read, Deliver
<1>4. \A m \in first..top : m > last /\ m <= last' => m \in Fresh
  BY FreshIs DEF Read, IInv
<1>5. \A m \in first..top : m > last' => m > last
  BY <1>2
<1>6. \A m \in first..top : m > last' \/ m <= last'
  BY <1>2
<1>7. Fresh \subseteq Open
  BY <1>1 DEF Open
<1> HIDE DEF Fresh
<1>8. Open' = Open
  BY <1>1, <1>3, <1>4, <1>5, <1>6 DEF Open
<1>9. tries' = [m \in Ids |-> IF m \in Fresh THEN UpTo(tries[m], MaxAttempts) ELSE tries[m]]
  BY DEF Read, Deliver
<1>10. Delivery!Deliver(Fresh, {})
  BY <1>8, <1>9 DEF Read, Delivery!Deliver, Delivery!OneMore, Delivery!Ids, UpTo, Ids
<1> QED
  BY <1>7, <1>10

\* XAUTOCLAIM delivers again, and forgets what was trimmed.
LEMMA ClaimDelivers ==
  ASSUME IInv, TriedInv, NEW h \in Claimers, AutoClaim(h)
  PROVE  \E S \in SUBSET Open, gone \in SUBSET (Open \cap Delivery!Trimmed(top)) : Delivery!Deliver(S, gone)
<1> DEFINE gone == {m \in Claimable : m < first}
           S    == Claimable \ gone
<1>1. /\ Deliver(S, gone) /\ UNCHANGED <<kind, top, first, last, rows>>
  BY DEF AutoClaim
<1>2. Claimable \subseteq pel /\ Claimable \subseteq Ids
  BY ClaimableAreIds
<1>3. S \subseteq pel /\ gone \subseteq pel /\ \A m \in gone : m < first /\ m \in Ids
  BY <1>2
<1> HIDE DEF gone, S
<1>4. gone \subseteq Open \cap Delivery!Trimmed(top)
  <2>1. top \in Nat /\ first \in Nat /\ MaxLen \in Nat /\ (first = 1 \/ first + MaxLen <= top + 1)
    BY Sizes DEF IInv, TypeOK, TriedInv
  <2>2. \A m \in gone : m \in Nat /\ m >= 1 /\ m < first
    BY <1>3, Sizes DEF Ids
  <2>3. \A m \in gone : m \in 1..top /\ m + MaxLen <= top
    BY <2>1, <2>2, Sizes
  <2> QED
    BY <1>3, <2>3 DEF Open, Delivery!Trimmed
<1>5. pel' = pel \ gone
  BY <1>1, <1>3 DEF Deliver
<1>6. Open' = Open \ gone
  <2>1. \A m \in first..top : m \notin gone
    BY <1>3, Sizes DEF IInv, TypeOK, Ids
  <2> QED
    BY <1>1, <1>5, <2>1 DEF Open
<1>7. Delivery!Deliver(S, gone)
  BY <1>1, <1>6 DEF Deliver, Delivery!Deliver, Delivery!OneMore, Delivery!Ids, UpTo, Ids
<1>8. S \subseteq Open
  BY <1>3 DEF Open
<1> QED
  BY <1>4, <1>7, <1>8

\* An insert stores what is good and was delivered, each once.
LEMMA InsertStores ==
  ASSUME IInv, TriedInv, NEW h \in Handlers, NEW S,
         S \subseteq Insertable(Messages(hold[h])), Insert(S),
         UNCHANGED <<kind, top, first, last, pel, tries>>
  PROVE  \E T \in SUBSET Delivery!Ids : Delivery!Store(T)
<1> DEFINE T == {m \in S : rows[m] = 0}
<1>1. \A m \in S : m \in hold[h] /\ kind[m] \in Kinds /\ kind[m] # "malformed" /\ kind[m] # "poison" /\ m \in Ids
  BY DEF Insertable, Messages, IInv, TypeOK, Ids
<1>2. \A m \in S : kind[m] = "good" /\ tries[m] > 0
  BY <1>1, KindsAssumption DEF TriedInv
<1>3. rows' = [m \in Ids |-> IF m \in S THEN 1 ELSE rows[m]]
  BY DEF Insert
<1>4. \A m \in Ids : rows[m] \in 0..1
  BY DEF IInv, TypeOK, StoredOnce
<1>5. rows' = [m \in Ids |-> IF m \in T THEN 1 ELSE rows[m]]
  BY <1>3, <1>4
<1>6. Delivery!Store(T)
  BY <1>2, <1>5, OpenStays DEF Delivery!Store, Delivery!Ids, Ids
<1> QED
  BY <1>1, <1>6 DEF Delivery!Ids, Ids

\* What leaves the pending list was not among the messages still to be read.
LEMMA RemoveCloses ==
  ASSUME IInv, NEW S \in SUBSET Ids, Remove(S), \A m \in S : tries[m] > 0,
         UNCHANGED <<kind, top, first, last, tries, rows>>
  PROVE  Delivery!Close(S \cap pel)
<1>1. pel' = pel \ S
  BY DEF Remove
<1>2. \A m \in S : ~(m > last)
  BY DEF IInv, OrderInv, TypeOK
<1>3. Open' = Open \ (S \cap pel)
  BY <1>1, <1>2 DEF Open
<1> QED
  BY <1>3 DEF Delivery!Close

\* A handler acknowledges what is stored or cannot be parsed.
LEMMA AckSettles ==
  ASSUME IInv, TriedInv, NEW h \in Handlers, NEW S \in SUBSET hold[h], Remove(S),
         \A m \in S : Settled(m), UNCHANGED <<kind, top, first, last, tries, rows>>
  PROVE  \E T \in SUBSET Open : Delivery!Settle(T)
<1>1. S \subseteq Ids /\ \A m \in S : tries[m] > 0
  BY DEF IInv, TypeOK, TriedInv
<1>2. Delivery!Close(S \cap pel)
  BY <1>1, RemoveCloses
<1>3. Delivery!Settle(S \cap pel)
  BY <1>1, <1>2 DEF Delivery!Settle, Settled
<1>4. S \cap pel \subseteq Open
  BY DEF Open
<1> QED
  BY <1>3, <1>4

\* The dead-letter loop drops what was delivered MaxAttempts times.
LEMMA DropGivesUp ==
  ASSUME IInv, TriedInv, AckDeadLetters
  PROVE  \E T \in SUBSET Open : Delivery!GiveUp(T)
<1>1. Remove(doomed) /\ UNCHANGED <<kind, top, first, last, tries, rows>>
  BY DEF AckDeadLetters
<1>2. doomed \subseteq Ids /\ \A m \in doomed : tries[m] = MaxAttempts /\ tries[m] > 0
  BY Sizes DEF IInv, TypeOK, TriedInv
<1>3. Delivery!Close(doomed \cap pel)
  BY <1>1, <1>2, RemoveCloses
<1>4. Delivery!GiveUp(doomed \cap pel)
  BY <1>2, <1>3 DEF Delivery!GiveUp
<1>5. doomed \cap pel \subseteq Open
  BY DEF Open
<1> QED
  BY <1>4, <1>5

LEMMA StreamRefines ==
  ASSUME IInv, TriedInv, [Next]_vars
  PROVE  [Delivery!Next]_(Delivery!vars)
<1> USE DEF loopVars, historyVars
<1>1. CASE XAdd
  BY <1>1, PublishStep DEF Delivery!Next
<1>2. ASSUME UNCHANGED <<kind, top, first, last, pel, tries, rows>>
      PROVE  UNCHANGED Delivery!vars
  BY <1>2, NoDelivery, OpenStays
<1>3. CASE EnsureGroup \/ Tick \/ Stall \/ FindDeadLetters \/ ReapFails \/ UNCHANGED vars
  BY <1>2, <1>3 DEF EnsureGroup, Tick, Stall, FindDeadLetters, ReapFails, vars
<1>4. ASSUME NEW h \in Readers, ReadClicks(h) \/ ReadLost(h)
      PROVE  Delivery!Next
  <2>1. Read
    BY <1>4 DEF ReadClicks, ReadLost, Read
  <2>2. {} \in SUBSET (Open \cap Delivery!Trimmed(top))
    OBVIOUS
  <2> QED
    BY <2>1, <2>2, ReadDelivers DEF Delivery!Next
<1>5. ASSUME NEW h \in Claimers, AutoClaim(h)
      PROVE  Delivery!Next
  BY <1>5, ClaimDelivers DEF Delivery!Next
<1>6. ASSUME NEW h \in Handlers, InsertBatch(h) \/ InsertFails(h)
      PROVE  Delivery!Next
  <2> DEFINE E == Insertable(Messages(hold[h]))
  <2>1. UNCHANGED <<kind, top, first, last, pel, tries>>
    BY <1>6 DEF InsertBatch, InsertFails
  <2>2. PICK S : S \subseteq E /\ Insert(S)
    <3>1. CASE InsertBatch(h)
      BY <3>1 DEF InsertBatch
    <3>2. CASE InsertFails(h)
      BY <3>2, OldestIs DEF InsertFails
    <3> QED
      BY <1>6, <3>1, <3>2
  <2> QED
    BY <2>1, <2>2, InsertStores DEF Delivery!Next
<1>7. ASSUME NEW h \in Handlers, Ack(h) \/ AckMalformed(h) \/ AckFails(h)
      PROVE  [Delivery!Next]_(Delivery!vars)
  <2>1. UNCHANGED <<kind, top, first, last, tries, rows>>
    BY <1>7 DEF Ack, AckMalformed, AckFails
  <2>2. PICK S \in SUBSET hold[h] : Remove(S) /\ \A m \in S : Settled(m)
    <3>1. Messages(hold[h]) \subseteq hold[h]
      BY DEF Messages
    <3> QED
      BY <1>7, <3>1, AckIsSafe DEF Ack, AckMalformed, AckFails
  <2> QED
    BY <2>1, <2>2, AckSettles DEF Delivery!Next
<1>8. ASSUME NEW h \in Handlers, Crash(h)
      PROVE  UNCHANGED Delivery!vars
  BY <1>2, <1>8 DEF Crash
<1>9. CASE AckDeadLetters
  BY <1>9, DropGivesUp DEF Delivery!Next
<1> QED
  BY <1>1, <1>3, <1>4, <1>5, <1>6, <1>7, <1>8, <1>9 DEF Next, Handle, HandlerFails

\* All the loops together do to a message what ClickDelivery says: it stays open
\* until it is stored, unreadable, delivered MaxAttempts times or displaced by
\* MaxLen newer ones, and is stored once.
THEOREM StreamImplementsDelivery == Spec => ImplementsDelivery
<1>1. Init => Delivery!Init
  <2> SUFFICES ASSUME Init PROVE Delivery!Init
    OBVIOUS
  <2>1. Open = {}
    BY DEF Init, Open
  <2>2. kind \in [Ids -> Kinds]
    BY Zenon DEF Init
  <2> QED
    BY <2>1, <2>2 DEF Init, Delivery!Init, Delivery!Ids, Ids
<1>2. IInv /\ TriedInv /\ [Next]_vars => TriedInv'
  BY TriedNext
<1>3. IInv /\ TriedInv /\ [Next]_vars => [Delivery!Next]_(Delivery!vars)
  BY StreamRefines
<1> QED
  BY StreamInvariance, TriedStart, <1>1, <1>2, <1>3, PTL DEF Spec, ImplementsDelivery, Delivery!Spec

============================================================================
