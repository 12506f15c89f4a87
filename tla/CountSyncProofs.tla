-------------------------- MODULE CountSyncProofs ---------------------------
(***************************************************************************)
(* Theorems about CountSync and Totals, for every value of their           *)
(* constants: the inductive invariant of the transfer, and what follows    *)
(* from it step by step - nothing is forgotten, only the stored batch is   *)
(* credited, and the transfer implements ClickAccounting; then what a page *)
(* shows while all this goes on.                                           *)
(***************************************************************************)
EXTENDS Totals, TLAPS

(***************************************************************************)
(* Types.                                                                  *)
(***************************************************************************)

LEMMA NoBatchType == NoBatch \in Batches /\ NoBatch.id = 0 /\ NoBatch.delta = 0
BY DEF NoBatch, Batches

LEMMA CountTypes ==
  ASSUME TypeOK, NEW c \in Codes
  PROVE  /\ clicks[c] \in Nat /\ base[c] \in Nat /\ active[c] \in Nat
         /\ discarded[c] \in Nat /\ Uncommitted(c) \in Nat
BY DEF TypeOK, Uncommitted, Batches

LEMMA FreezeScriptType ==
  ASSUME TypeOK, NEW c \in Codes, NEW id \in Nat, FreezeScript(c, id)
  PROVE  /\ active' \in [Codes -> Nat]
         /\ batch' \in [Codes -> Batches]
         /\ epoch' \in [Codes -> Nat]
         /\ dirty' \subseteq Codes
<1>1. CASE batch[c] # NoBatch
  BY <1>1 DEF FreezeScript, TypeOK, redisVars
<1>2. CASE batch[c] = NoBatch /\ active[c] = 0
  BY <1>2 DEF FreezeScript, TypeOK
<1>3. CASE batch[c] = NoBatch /\ active[c] > 0
  <2>1. [id |-> id, delta |-> active[c]] \in Batches
    BY DEF TypeOK, Batches
  <2> QED
    BY <1>3, <2>1 DEF FreezeScript, TypeOK
<1> QED
  BY <1>1, <1>2, <1>3 DEF TypeOK

LEMMA ConfirmScriptType ==
  ASSUME TypeOK, NEW c \in Codes, NEW id \in Nat, ConfirmScript(c, id)
  PROVE  /\ active' \in [Codes -> Nat]
         /\ batch' \in [Codes -> Batches]
         /\ epoch' \in [Codes -> Nat]
         /\ dirty' \subseteq Codes
         /\ discarded' \in [Codes -> Nat]
<1>1. CASE batch[c].id # id
  BY <1>1 DEF ConfirmScript, TypeOK, redisVars
<1>2. CASE batch[c].id = id
  <2>1. Uncommitted(c) \in Nat
    BY DEF Uncommitted, TypeOK, Batches
  <2> QED
    BY <1>2, <2>1, NoBatchType DEF ConfirmScript, TypeOK
<1> QED
  BY <1>1, <1>2

LEMMA ApplyTxType ==
  ASSUME TypeOK, NEW c \in Codes, NEW b \in Batches,
         NEW d, d.id = b.id, d.delta = b.delta, ApplyTx(c, d)
  PROVE  /\ base' \in [Codes -> Nat]
         /\ ledger' \subseteq Entries
         /\ rows' = rows
<1>1. [id |-> d.id, code |-> c, delta |-> d.delta] \in Entries
  BY DEF Entries, Batches
<1> QED
  BY <1>1 DEF ApplyTx, Entry, TypeOK, Batches

LEMMA TypeInit == Init => TypeOK
BY BoundAssumption DEF Init, TypeOK, Busy, NoBatch, Batches, Entries, Calls, States

LEMMA TypeNext == TypeOK /\ [Next]_vars => TypeOK'
<1> SUFFICES ASSUME TypeOK, [Next]_vars PROVE TypeOK'
  OBVIOUS
<1> USE DEF TypeOK, NoBatch, Batches, Entries, Calls, States,
            redisVars, pgVars, workerVars, historyVars
<1>1. ASSUME NEW p \in Pipelines, NEW c \in Codes, Incr(p, c) PROVE TypeOK'
  BY <1>1 DEF Incr, Busy
<1>2. ASSUME NEW p \in Pipelines, SAdd(p) PROVE TypeOK'
  BY <1>2 DEF SAdd, Busy
<1>3. ASSUME NEW p \in Pipelines, CutPipeline(p) PROVE TypeOK'
  BY <1>3 DEF CutPipeline, Fault, Busy
<1>4. ASSUME NEW w \in Workers, DirtyCodes(w) PROVE TypeOK'
  BY <1>4 DEF DirtyCodes, Busy
<1>5. ASSUME NEW w \in Workers, NEW c \in Codes, FreezeBatch(w, c) PROVE TypeOK'
  <2>1. /\ active' \in [Codes -> Nat]
        /\ batch' \in [Codes -> Batches]
        /\ epoch' \in [Codes -> Nat]
        /\ dirty' \subseteq Codes
    BY <1>5, FreezeScriptType DEF FreezeBatch
  <2> QED
    BY <1>5, <2>1 DEF FreezeBatch, Busy
<1>6. ASSUME NEW w \in Workers, ApplyCountBatch(w) PROVE TypeOK'
  <2>1. cur[w] \in Codes /\ held[w] \in Batches
    BY <1>6 DEF ApplyCountBatch, Busy
  <2>2. base' \in [Codes -> Nat] /\ ledger' \subseteq Entries /\ rows' = rows
    BY <1>6, <2>1, ApplyTxType DEF ApplyCountBatch
  <2> QED
    BY <1>6, <2>2 DEF ApplyCountBatch, Busy
<1>7. ASSUME NEW w \in Workers, MarkDirty(w) PROVE TypeOK'
  BY <1>7 DEF MarkDirty, NextCode, Busy
<1>8. ASSUME NEW w \in Workers, ConfirmBatch(w) PROVE TypeOK'
  <2>1. cur[w] \in Codes /\ held[w].id \in Nat
    BY <1>8 DEF ConfirmBatch, Busy
  <2>2. /\ active' \in [Codes -> Nat]
        /\ batch' \in [Codes -> Batches]
        /\ epoch' \in [Codes -> Nat]
        /\ dirty' \subseteq Codes
        /\ discarded' \in [Codes -> Nat]
    BY <1>8, <2>1, ConfirmScriptType DEF ConfirmBatch
  <2> QED
    BY <1>8, <2>2 DEF ConfirmBatch, NextCode, Busy
<1>9. ASSUME NEW w \in Workers, EndRound(w) PROVE TypeOK'
  BY <1>9 DEF EndRound, Busy
<1>10. ASSUME NEW w \in Workers, NEW c \in Codes, FreezeFails(w, c) PROVE TypeOK'
  BY <1>10 DEF FreezeFails, Fault, Busy
<1>11. ASSUME NEW w \in Workers, ApplyFails(w) PROVE TypeOK'
  BY <1>11 DEF ApplyFails, Fault, Busy
<1>12. ASSUME NEW w \in Workers, MarkFails(w) PROVE TypeOK'
  BY <1>12 DEF MarkFails, NextCode, Fault, Busy
<1>13. ASSUME NEW w \in Workers, ConfirmFails(w) PROVE TypeOK'
  BY <1>13 DEF ConfirmFails, NextCode, Fault, Busy
<1>14. ASSUME NEW w \in Workers, RemarkFails(w) PROVE TypeOK'
  BY <1>14 DEF RemarkFails, Fault, Busy
<1>15. ASSUME NEW w \in Workers, Crash(w) PROVE TypeOK'
  BY <1>15 DEF Crash, Fault, Busy
<1>16. ASSUME NEW m \in late, LateFreeze(m) PROVE TypeOK'
  BY <1>16, FreezeScriptType DEF LateFreeze, Busy
<1>17. ASSUME NEW m \in late, LateApply(m) PROVE TypeOK'
  <2>1. [id |-> m.id, delta |-> m.delta] \in Batches
    OBVIOUS
  <2>2. base' \in [Codes -> Nat] /\ ledger' \subseteq Entries /\ rows' = rows
    BY <1>17, <2>1, ApplyTxType DEF LateApply
  <2> QED
    BY <1>17, <2>2 DEF LateApply, Busy
<1>18. ASSUME NEW m \in late, LateConfirm(m) PROVE TypeOK'
  BY <1>18, ConfirmScriptType DEF LateConfirm, Busy
<1>19. ASSUME NEW c \in Codes, RemoveRow(c) PROVE TypeOK'
  BY <1>19 DEF RemoveRow, Busy
<1>20. ASSUME UNCHANGED vars PROVE TypeOK'
  BY <1>20 DEF vars, Busy
<1> QED
  BY <1>1, <1>2, <1>3, <1>4, <1>5, <1>6, <1>7, <1>8, <1>9, <1>10, <1>11, <1>12,
     <1>13, <1>14, <1>15, <1>16, <1>17, <1>18, <1>19, <1>20
  DEF Next, SyncStep, FaultStep, LateStep

(***************************************************************************)
(* Batch identities.                                                       *)
(***************************************************************************)

\* The known batches do not grow, and no freeze is added to the wire.
LEMMA IdShrink ==
  ASSUME TypeOK, IdInv, nextId' \in Nat, nextId <= nextId',
         Mentions' \subseteq Mentions,
         \A m \in late' : m \in late \/ (m.op # "freeze" /\ m.id \in Nat /\ 0 < m.id /\ m.id < nextId)
  PROVE  IdInv'
<1>1. \A m \in late : m.id \in Nat
  BY DEF TypeOK, Calls
<1>2. Mentions \subseteq Entries
  BY DEF Mentions, TypeOK, Entry, Entries, Batches, Calls
<1>3. \A x \in Mentions : x.id \in Nat
  BY <1>2 DEF Entries
<1>4. \A m \in late' : m.op = "freeze" => m \in late
  OBVIOUS
<1>5. \A m \in late' : 0 < m.id /\ m.id < nextId'
  BY <1>1 DEF IdInv, TypeOK
<1>6. \A x \in Mentions' : 0 < x.id /\ x.id < nextId'
  BY <1>3 DEF IdInv, TypeOK
<1> QED
  BY <1>4, <1>5, <1>6 DEF IdInv

\* One batch with a fresh ID becomes known.
LEMMA IdGrow ==
  ASSUME TypeOK, IdInv, nextId' \in Nat, nextId <= nextId',
         NEW x, Mentions' \subseteq Mentions \cup {x},
         x.id \in Nat, 0 < x.id, x.id < nextId',
         \A y \in Mentions : y.id # x.id,
         late' \subseteq late,
         \A m \in late' : m.op = "freeze" => m.id # x.id
  PROVE  IdInv'
<1>1. \A m \in late : m.id \in Nat
  BY DEF TypeOK, Calls
<1>2. Mentions \subseteq Entries
  BY DEF Mentions, TypeOK, Entry, Entries, Batches, Calls
<1>3. \A y \in Mentions : y.id \in Nat
  BY <1>2 DEF Entries
<1>4. \A m \in late' : 0 < m.id /\ m.id < nextId'
  BY <1>1 DEF IdInv, TypeOK
<1>5. \A y \in Mentions' : 0 < y.id /\ y.id < nextId'
  BY <1>3 DEF IdInv, TypeOK
<1>6. \A y, z \in Mentions' : y.id = z.id => y = z
  BY DEF IdInv
<1>7. \A m \in late' : m.op = "freeze" => \A y \in Mentions' : y.id # m.id
  BY DEF IdInv
<1> QED
  BY <1>4, <1>5, <1>6, <1>7 DEF IdInv

(***************************************************************************)
(* What the scripts and the transaction do to the count of a code.         *)
(***************************************************************************)

LEMMA FreezeEffect ==
  ASSUME TypeOK, NEW c \in Codes, NEW id \in Nat, id # 0,
         FreezeScript(c, id), ~Committed(id), ledger' = ledger
  PROVE  /\ \A d \in Codes :
              active'[d] + Uncommitted(d)' = active[d] + Uncommitted(d)
         /\ \A d \in Codes : batch[d] # NoBatch => batch'[d] = batch[d]
         /\ \A d \in Codes : d # c => batch'[d] = batch[d]
         /\ batch'[c] \in {batch[c], [id |-> id, delta |-> active[c]]}
<1>1. CASE batch[c] # NoBatch \/ active[c] = 0
  BY <1>1 DEF FreezeScript, redisVars, Uncommitted, Committed
<1>2. CASE batch[c] = NoBatch /\ active[c] > 0
  <2>1. /\ batch' = [batch EXCEPT ![c] = [id |-> id, delta |-> active[c]]]
        /\ active' = [active EXCEPT ![c] = 0]
    BY <1>2 DEF FreezeScript
  <2>2. Uncommitted(c) = 0
    BY <1>2 DEF Uncommitted, NoBatch
  <2>3. batch'[c].id = id /\ batch'[c].delta = active[c] /\ active'[c] = 0
    BY <2>1 DEF TypeOK
  <2>4. Uncommitted(c)' = active[c]
    BY <2>3 DEF Uncommitted, Committed
  <2>5. \A d \in Codes : d # c => batch'[d] = batch[d] /\ active'[d] = active[d]
    BY <2>1 DEF TypeOK
  <2>6. \A d \in Codes : d # c => Uncommitted(d)' = Uncommitted(d)
    BY <2>5 DEF Uncommitted, Committed
  <2>7. active[c] \in Nat
    BY DEF TypeOK
  <2> QED
    BY <1>2, <2>1, <2>2, <2>3, <2>4, <2>5, <2>6, <2>7 DEF TypeOK
<1> QED
  BY <1>1, <1>2 DEF TypeOK

LEMMA ConfirmEffect ==
  ASSUME TypeOK, NEW c \in Codes, NEW id \in Nat, ConfirmScript(c, id), ledger' = ledger
  PROVE  /\ active' = active
         /\ \A d \in Codes :
              discarded'[d] + Uncommitted(d)' = discarded[d] + Uncommitted(d)
         /\ \A d \in Codes : batch'[d] # batch[d] =>
              d = c /\ batch[c].id = id /\ batch'[c] = NoBatch
         /\ \A d \in Codes : discarded'[d] # discarded[d] => d = c /\ ~Committed(id)
<1>1. CASE batch[c].id # id
  BY <1>1 DEF ConfirmScript, redisVars, Uncommitted, Committed
<1>2. CASE batch[c].id = id
  <2>1. /\ batch' = [batch EXCEPT ![c] = NoBatch]
        /\ discarded' = [discarded EXCEPT ![c] = @ + Uncommitted(c)]
        /\ active' = active
    BY <1>2 DEF ConfirmScript
  <2>2. batch'[c] = NoBatch /\ discarded'[c] = discarded[c] + Uncommitted(c)
    BY <2>1 DEF TypeOK
  <2>3. Uncommitted(c)' = 0
    BY <2>2 DEF Uncommitted, NoBatch
  <2>4. \A d \in Codes : d # c => batch'[d] = batch[d] /\ discarded'[d] = discarded[d]
    BY <2>1 DEF TypeOK
  <2>5. \A d \in Codes : d # c => Uncommitted(d)' = Uncommitted(d)
    BY <2>4 DEF Uncommitted, Committed
  <2>6. Uncommitted(c) \in Nat /\ discarded[c] \in Nat
    BY DEF Uncommitted, TypeOK, Batches
  <2>7. Committed(id) => Uncommitted(c) = 0
    BY <1>2 DEF Uncommitted
  <2> QED
    BY <1>2, <2>1, <2>2, <2>3, <2>4, <2>5, <2>6, <2>7
<1> QED
  BY <1>1, <1>2

LEMMA ApplyEffect ==
  ASSUME TypeOK, IdInv, NEW c \in Codes, NEW b, b.id \in Nat, b.delta \in Nat,
         Entry(c, b) \in Mentions, Accounted(c, b.id, b.delta),
         ApplyTx(c, b), batch' = batch
  PROVE  /\ \A d \in Codes : base'[d] + Uncommitted(d)' = base[d] + Uncommitted(d)
         /\ \A i : Committed(i) => Committed(i)'
         /\ rows' = rows
         /\ Confirmable(c, b.id)'
         /\ ledger' \subseteq ledger \cup {Entry(c, b)}
<1>1. CASE Committed(b.id) \/ c \notin rows
  BY <1>1 DEF ApplyTx, Uncommitted, Committed, Confirmable
<1>2. CASE ~Committed(b.id) /\ c \in rows
  <2>1. /\ ledger' = ledger \cup {Entry(c, b)}
        /\ base' = [base EXCEPT ![c] = @ + b.delta]
        /\ rows' = rows
    BY <1>2 DEF ApplyTx
  <2>2. batch[c].id = b.id /\ batch[c].delta = b.delta
    BY <1>2 DEF Accounted
  <2>3. Entry(c, b).id = b.id
    BY DEF Entry
  <2>4. \A i : Committed(i)' <=> (Committed(i) \/ i = b.id)
    BY <2>1, <2>3 DEF Committed
  <2>5. ASSUME NEW d \in Codes, d # c PROVE Uncommitted(d)' = Uncommitted(d)
    <3>1. CASE batch[d] = NoBatch
      BY <3>1 DEF Uncommitted, NoBatch
    <3>2. CASE batch[d] # NoBatch
      <4>1. Entry(d, batch[d]) \in Mentions
        BY <3>2 DEF Mentions
      <4>2. Entry(d, batch[d]) # Entry(c, b)
        BY <2>5 DEF Entry
      <4>3. batch[d].id # b.id
        BY <4>1, <4>2 DEF IdInv, Entry
      <4> QED
        BY <2>4, <4>3 DEF Uncommitted
    <3> QED
      BY <3>1, <3>2
  <2>6. Uncommitted(c) = b.delta /\ Uncommitted(c)' = 0
    BY <1>2, <2>2, <2>4 DEF Uncommitted
  <2>7. base'[c] = base[c] + b.delta /\ \A d \in Codes : d # c => base'[d] = base[d]
    BY <2>1 DEF TypeOK
  <2>8. base[c] \in Nat
    BY DEF TypeOK
  <2> QED
    BY <2>1, <2>4, <2>5, <2>6, <2>7, <2>8 DEF Confirmable
<1> QED
  BY <1>1, <1>2

\* Batches stay accounted for while registrations only grow, rows only
\* shrink, and a stored batch only goes once it may be confirmed.
LEMMA AccountedStable ==
  ASSUME NEW c \in Codes, NEW id \in Nat, NEW delta \in Nat, id # 0,
         Accounted(c, id, delta),
         \A i : Committed(i) => Committed(i)',
         rows' \subseteq rows,
         batch[c] # NoBatch => batch'[c] = batch[c] \/ Confirmable(c, batch[c].id)
  PROVE  Accounted(c, id, delta)'
BY DEF Accounted, Confirmable, NoBatch

LEMMA ConfirmableStable ==
  ASSUME NEW c, NEW id, Confirmable(c, id),
         \A i : Committed(i) => Committed(i)', rows' \subseteq rows
  PROVE  Confirmable(c, id)'
BY DEF Confirmable

(***************************************************************************)
(* The inductive step, action by action.                                   *)
(***************************************************************************)

LEMMA HeldMentioned ==
  ASSUME TypeOK, IdInv, NEW w \in Workers, Busy(w)
  PROVE  /\ Entry(cur[w], held[w]) \in Mentions
         /\ cur[w] \in Codes /\ held[w] \in Batches
         /\ held[w].id \in Nat /\ held[w].delta \in Nat
         /\ 0 < held[w].id /\ held[w].id < nextId
<1>1. Entry(cur[w], held[w]) \in Mentions
  BY DEF Mentions
<1>2. Entry(cur[w], held[w]).id = held[w].id
  BY DEF Entry
<1> QED
  BY <1>1, <1>2 DEF TypeOK, Batches, IdInv

\* Steps that leave batches, the ledger, the wire and the counts alone: a
\* worker keeps what it holds or drops it.
LEMMA QuietStep ==
  ASSUME IInv, TypeOK',
         UNCHANGED <<batch, ledger, late, base, discarded, nextId>>,
         rows' \subseteq rows,
         \A w \in Workers : Busy(w)' =>
           Busy(w) /\ cur'[w] = cur[w] /\ held'[w] = held[w] /\ pc'[w] = pc[w],
         \A c \in Codes : clicks'[c] + active[c] = clicks[c] + active'[c]
  PROVE  IInv'
<1> USE DEF IInv
<1>1. \A i : Committed(i)' <=> Committed(i)
  BY DEF Committed
<1>2. \A c \in Codes : Uncommitted(c)' = Uncommitted(c)
  BY <1>1 DEF Uncommitted
<1>3. Mentions' \subseteq Mentions
  BY DEF Mentions
<1>4. IdInv'
  BY <1>3, IdShrink DEF TypeOK
<1>5. HolderInv'
  BY <1>1 DEF HolderInv, Accounted, Confirmable, Busy
<1>6. Conservation'
  <2>1. SUFFICES ASSUME NEW c \in Codes
                 PROVE  clicks'[c] = base'[c] + Uncommitted(c)' + active'[c] + discarded'[c]
    BY DEF Conservation
  <2>2. clicks'[c] \in Nat /\ active'[c] \in Nat
    BY DEF TypeOK
  <2>3. clicks[c] = base[c] + Uncommitted(c) + active[c] + discarded[c]
    BY DEF Conservation
  <2> QED
    BY <1>2, <2>2, <2>3, CountTypes
<1>7. NoLossWhileLinked'
  BY DEF NoLossWhileLinked
<1> QED
  BY <1>4, <1>5, <1>6, <1>7

\* freezeBatchScript with a fresh ID, run for a worker or late.
LEMMA FreezeStep ==
  ASSUME IInv, TypeOK', NEW c \in Codes, NEW id \in Nat, id # 0, FreezeScript(c, id),
         UNCHANGED <<base, ledger, rows, discarded, clicks>>,
         nextId <= nextId', batch'[c] # batch[c] => id < nextId',
         \A x \in Mentions : x.id # id,
         late' \subseteq late,
         batch'[c] # batch[c] => \A m \in late' : m.op = "freeze" => m.id # id,
         \A v \in Workers : Busy(v)' =>
           \/ Busy(v) /\ cur'[v] = cur[v] /\ held'[v] = held[v] /\ pc'[v] = pc[v]
           \/ /\ cur'[v] = c /\ held'[v] = batch'[c] /\ batch'[c] # NoBatch
              /\ pc'[v] = "apply"
  PROVE  IInv'
<1> USE DEF IInv
<1>0. nextId' \in Nat
  BY DEF TypeOK
<1>1. ~Committed(id)
  BY DEF Committed, Mentions
<1>2. /\ \A d \in Codes : active'[d] + Uncommitted(d)' = active[d] + Uncommitted(d)
      /\ \A d \in Codes : batch[d] # NoBatch => batch'[d] = batch[d]
      /\ \A d \in Codes : d # c => batch'[d] = batch[d]
      /\ batch'[c] \in {batch[c], [id |-> id, delta |-> active[c]]}
  BY <1>1, FreezeEffect
<1>4. IdInv'
  <2>1. CASE batch'[c] = batch[c]
    <3>1. batch' = batch
      BY <1>2, <2>1 DEF TypeOK
    <3>2. Mentions' \subseteq Mentions
      BY <2>1, <3>1 DEF Mentions, Busy
    <3> QED
      BY <1>0, <3>2, IdShrink
  <2>2. CASE batch'[c] # batch[c]
    <3> DEFINE x == Entry(c, batch'[c])
    <3>1. batch'[c].id = id
      BY <1>2, <2>2
    <3>2. x.id = id
      BY <3>1 DEF Entry
    <3>3. Mentions' \subseteq Mentions \cup {x}
      BY <1>2 DEF Mentions, Busy
    <3>4. \A y \in Mentions : y.id # x.id
      BY <3>2
    <3>5. \A m \in late' : m.op = "freeze" => m.id # x.id
      BY <2>2, <3>2
    <3>6. 0 < x.id /\ x.id < nextId' /\ x.id \in Nat
      BY <2>2, <3>2
    <3> HIDE DEF x
    <3> QED
      BY <1>0, <3>3, <3>4, <3>5, <3>6, IdGrow
  <2> QED
    BY <2>1, <2>2
<1>5. \A i : Committed(i)' <=> Committed(i)
  BY DEF Committed
<1>6. HolderInv'
  <2>1. ASSUME NEW d \in Codes, NEW i \in Nat, i # 0, NEW n \in Nat, Accounted(d, i, n)
        PROVE  Accounted(d, i, n)'
    BY <1>2, <1>5, <2>1, AccountedStable
  <2>2. ASSUME NEW v \in Workers, Busy(v)'
        PROVE  Accounted(cur[v], held[v].id, held[v].delta)'
    <3>1. CASE cur'[v] = c /\ held'[v] = batch'[c]
      <4>1. batch'[c] = [id |-> batch'[c].id, delta |-> batch'[c].delta]
        BY DEF TypeOK, Batches
      <4> QED
        BY <3>1, <4>1 DEF Accounted
    <3>2. CASE Busy(v) /\ cur'[v] = cur[v] /\ held'[v] = held[v]
      <4>1. cur[v] \in Codes /\ held[v].id \in Nat /\ held[v].delta \in Nat /\ held[v].id # 0
        BY <3>2, HeldMentioned
      <4> QED
        BY <2>1, <3>2, <4>1 DEF HolderInv
    <3> QED
      BY <2>2, <3>1, <3>2
  <2>3. ASSUME NEW v \in Workers, pc'[v] = "confirm"
        PROVE  Confirmable(cur[v], held[v].id)'
    BY <1>5, <2>3 DEF HolderInv, Confirmable, Busy
  <2>4. ASSUME NEW m \in late, m.op = "apply" PROVE Accounted(m.code, m.id, m.delta)'
    <3>1. m.code \in Codes /\ m.id \in Nat /\ m.delta \in Nat /\ m.id # 0
      BY DEF IdInv, TypeOK, Calls
    <3> QED
      BY <2>1, <2>4, <3>1 DEF HolderInv
  <2>5. ASSUME NEW m \in late, m.op = "confirm" PROVE Confirmable(m.code, m.id)'
    BY <1>5, <2>5 DEF HolderInv, Confirmable
  <2> QED
    BY <2>2, <2>3, <2>4, <2>5 DEF HolderInv
<1>7. Conservation' /\ NoLossWhileLinked'
  <2>1. ASSUME NEW d \in Codes
        PROVE  clicks'[d] = base'[d] + Uncommitted(d)' + active'[d] + discarded'[d]
    <3>1. clicks[d] = base[d] + Uncommitted(d) + active[d] + discarded[d]
      BY DEF Conservation
    <3>2. active'[d] + Uncommitted(d)' = active[d] + Uncommitted(d)
      BY <1>2
    <3>3. active'[d] \in Nat /\ Uncommitted(d)' \in Nat
      BY DEF TypeOK, Uncommitted, Batches
    <3> QED
      BY <3>1, <3>2, <3>3, CountTypes
  <2> QED
    BY <2>1 DEF Conservation, NoLossWhileLinked
<1> QED
  BY <1>4, <1>6, <1>7

\* ApplyCountBatch's transaction, run for a worker or late.
LEMMA ApplyStep ==
  ASSUME IInv, TypeOK', NEW c \in Codes, NEW b, b.id \in Nat, b.delta \in Nat,
         Entry(c, b) \in Mentions, Accounted(c, b.id, b.delta), ApplyTx(c, b),
         UNCHANGED <<batch, active, discarded, clicks, nextId>>,
         late' \subseteq late,
         \A v \in Workers : Busy(v)' =>
           Busy(v) /\ cur'[v] = cur[v] /\ held'[v] = held[v],
         \A v \in Workers : pc'[v] = "confirm" =>
           pc[v] = "confirm" \/ (cur'[v] = c /\ held'[v].id = b.id)
  PROVE  IInv'
<1> USE DEF IInv
<1>1. /\ \A d \in Codes : base'[d] + Uncommitted(d)' = base[d] + Uncommitted(d)
      /\ \A i : Committed(i) => Committed(i)'
      /\ rows' = rows
      /\ Confirmable(c, b.id)'
      /\ ledger' \subseteq ledger \cup {Entry(c, b)}
  BY ApplyEffect
<1>2. IdInv'
  <2>1. Mentions' \subseteq Mentions
    BY <1>1 DEF Mentions
  <2> QED
    BY <2>1, IdShrink DEF TypeOK
<1>3. HolderInv'
  <2>1. ASSUME NEW v \in Workers, Busy(v)'
        PROVE  Accounted(cur[v], held[v].id, held[v].delta)'
    BY <1>1, <2>1 DEF HolderInv, Accounted
  <2>2. ASSUME NEW v \in Workers, pc'[v] = "confirm"
        PROVE  Confirmable(cur[v], held[v].id)'
    BY <1>1, <2>2 DEF HolderInv, Confirmable, Busy
  <2>3. ASSUME NEW m \in late, m.op = "apply" PROVE Accounted(m.code, m.id, m.delta)'
    BY <1>1, <2>3 DEF HolderInv, Accounted
  <2>4. ASSUME NEW m \in late, m.op = "confirm" PROVE Confirmable(m.code, m.id)'
    BY <1>1, <2>4 DEF HolderInv, Confirmable
  <2> QED
    BY <2>1, <2>2, <2>3, <2>4 DEF HolderInv
<1>4. Conservation'
  <2>1. SUFFICES ASSUME NEW d \in Codes
                 PROVE  clicks'[d] = base'[d] + Uncommitted(d)' + active'[d] + discarded'[d]
    BY DEF Conservation
  <2>2. clicks[d] = base[d] + Uncommitted(d) + active[d] + discarded[d]
    BY DEF Conservation
  <2>3. base'[d] + Uncommitted(d)' = base[d] + Uncommitted(d)
    BY <1>1
  <2>4. base'[d] \in Nat /\ Uncommitted(d)' \in Nat
    BY DEF TypeOK, Uncommitted, Batches
  <2> QED
    BY <2>2, <2>3, <2>4, CountTypes
<1>5. NoLossWhileLinked'
  BY <1>1 DEF NoLossWhileLinked
<1> QED
  BY <1>2, <1>3, <1>4, <1>5

\* confirmBatchScript for a registered or unlinked batch, run for a worker
\* or late.
LEMMA ConfirmStep ==
  ASSUME IInv, TypeOK', NEW c \in Codes, NEW id \in Nat, ConfirmScript(c, id),
         Confirmable(c, id),
         UNCHANGED <<base, ledger, rows, clicks, nextId>>,
         late' \subseteq late,
         \A v \in Workers : Busy(v)' =>
           Busy(v) /\ cur'[v] = cur[v] /\ held'[v] = held[v] /\ pc'[v] = pc[v]
  PROVE  IInv'
<1> USE DEF IInv
<1>1. /\ active' = active
      /\ \A d \in Codes :
           discarded'[d] + Uncommitted(d)' = discarded[d] + Uncommitted(d)
      /\ \A d \in Codes : batch'[d] # batch[d] =>
           d = c /\ batch[c].id = id /\ batch'[c] = NoBatch
      /\ \A d \in Codes : discarded'[d] # discarded[d] => d = c /\ ~Committed(id)
  BY ConfirmEffect
<1>2. IdInv'
  <2>1. Mentions' \subseteq Mentions
    BY <1>1 DEF Mentions
  <2> QED
    BY <2>1, IdShrink DEF TypeOK
<1>3. \A i : Committed(i)' <=> Committed(i)
  BY DEF Committed
<1>4. HolderInv'
  <2>1. ASSUME NEW d \in Codes, NEW i \in Nat, i # 0, NEW n \in Nat, Accounted(d, i, n)
        PROVE  Accounted(d, i, n)'
    BY <1>1, <1>3, <2>1, AccountedStable
  <2>2. ASSUME NEW v \in Workers, Busy(v)'
        PROVE  Accounted(cur[v], held[v].id, held[v].delta)'
    <3>1. cur[v] \in Codes /\ held[v].id \in Nat /\ held[v].delta \in Nat /\ held[v].id # 0
      BY <2>2, HeldMentioned
    <3> QED
      BY <2>1, <2>2, <3>1 DEF HolderInv
  <2>3. ASSUME NEW v \in Workers, pc'[v] = "confirm"
        PROVE  Confirmable(cur[v], held[v].id)'
    BY <1>3, <2>3 DEF HolderInv, Confirmable, Busy
  <2>4. ASSUME NEW m \in late, m.op = "apply" PROVE Accounted(m.code, m.id, m.delta)'
    <3>1. m.code \in Codes /\ m.id \in Nat /\ m.delta \in Nat /\ m.id # 0
      BY DEF IdInv, TypeOK, Calls
    <3> QED
      BY <2>1, <2>4, <3>1 DEF HolderInv
  <2>5. ASSUME NEW m \in late, m.op = "confirm" PROVE Confirmable(m.code, m.id)'
    BY <1>3, <2>5 DEF HolderInv, Confirmable
  <2> QED
    BY <2>2, <2>3, <2>4, <2>5 DEF HolderInv
<1>5. Conservation'
  <2>1. SUFFICES ASSUME NEW d \in Codes
                 PROVE  clicks'[d] = base'[d] + Uncommitted(d)' + active'[d] + discarded'[d]
    BY DEF Conservation
  <2>2. clicks[d] = base[d] + Uncommitted(d) + active[d] + discarded[d]
    BY DEF Conservation
  <2>3. discarded'[d] + Uncommitted(d)' = discarded[d] + Uncommitted(d)
    BY <1>1
  <2>4. discarded'[d] \in Nat /\ Uncommitted(d)' \in Nat
    BY DEF TypeOK, Uncommitted, Batches
  <2> QED
    BY <1>1, <2>2, <2>3, <2>4, CountTypes
<1>6. NoLossWhileLinked'
  BY <1>1 DEF NoLossWhileLinked, Confirmable
<1> QED
  BY <1>2, <1>4, <1>5, <1>6

\* A worker gives up on a call, which stays on the wire.
LEMMA GiveUpStep ==
  ASSUME IInv, TypeOK', NEW m,
         UNCHANGED <<batch, active, ledger, rows, base, discarded, clicks>>,
         late' = late \cup {m},
         \/ m.op = "freeze" /\ m.id = nextId /\ nextId' = nextId + 1
         \/ /\ nextId' = nextId
            /\ \E w \in Workers :
                 /\ Busy(w) /\ m.code = cur[w] /\ m.id = held[w].id
                 /\ \/ m.op = "apply" /\ m.delta = held[w].delta
                    \/ m.op = "confirm" /\ pc[w] = "confirm",
         \A v \in Workers : Busy(v)' =>
           Busy(v) /\ cur'[v] = cur[v] /\ held'[v] = held[v],
         \A v \in Workers : pc'[v] = "confirm" => pc[v] = "confirm"
  PROVE  IInv'
<1> USE DEF IInv
<1>1. \A i : Committed(i)' <=> Committed(i)
  BY DEF Committed
<1>2. \A c \in Codes : Uncommitted(c)' = Uncommitted(c)
  BY <1>1 DEF Uncommitted
<1>3. nextId \in Nat /\ nextId # 0 /\ nextId' \in Nat
  BY DEF TypeOK
<1>4. CASE m.op = "freeze" /\ m.id = nextId /\ nextId' = nextId + 1
  <2>1. Mentions' \subseteq Mentions
    BY <1>4 DEF Mentions
  <2>2. \A x \in Mentions : x.id < nextId /\ 0 < x.id
    BY DEF IdInv
  <2>3. \A k \in late : k.id < nextId /\ 0 < k.id /\ k.id \in Nat
    BY DEF IdInv, TypeOK, Calls
  <2>4. \A x \in Mentions : x.id \in Nat
    BY DEF Mentions, Entry, TypeOK, Entries, Batches, Calls
  <2>5. \A x \in Mentions' : 0 < x.id /\ x.id < nextId'
    BY <1>3, <1>4, <2>1, <2>2, <2>4
  <2>6. \A k \in late' : 0 < k.id /\ k.id < nextId'
    BY <1>3, <1>4, <2>3
  <2>7. \A k \in late' : k.op = "freeze" =>
          /\ \A x \in Mentions' : x.id # k.id
          /\ \A j \in late' : j.op = "freeze" /\ j.id = k.id => j = k
    <3>1. \A x \in Mentions : x.id # nextId
      BY <1>3, <2>2, <2>4
    <3>2. \A k \in late : k.id # nextId
      BY <1>3, <2>3
    <3> QED
      BY <1>4, <2>1, <3>1, <3>2 DEF IdInv
  <2>8. \A x, y \in Mentions' : x.id = y.id => x = y
    BY <2>1 DEF IdInv
  <2>9. IdInv'
    BY <2>5, <2>6, <2>7, <2>8 DEF IdInv
  <2>10. HolderInv'
    BY <1>1, <1>4 DEF HolderInv, Accounted, Confirmable, Busy
  <2> QED
    BY <1>2, <2>9, <2>10 DEF Conservation, NoLossWhileLinked
<1>5. ASSUME nextId' = nextId, NEW w \in Workers,
             Busy(w), m.code = cur[w], m.id = held[w].id,
             \/ m.op = "apply" /\ m.delta = held[w].delta
             \/ m.op = "confirm" /\ pc[w] = "confirm"
      PROVE  IInv'
  <2>1. /\ Entry(cur[w], held[w]) \in Mentions
        /\ m.id \in Nat /\ 0 < m.id /\ m.id < nextId
    BY <1>5, HeldMentioned
  <2>2. m.op = "apply" => Entry(m.code, m) = Entry(cur[w], held[w])
    BY <1>5 DEF Entry
  <2>3. Mentions' \subseteq Mentions
    BY <2>1, <2>2 DEF Mentions
  <2>4. IdInv'
    BY <1>3, <1>5, <2>1, <2>3, IdShrink
  <2>5. HolderInv'
    BY <1>1, <1>5 DEF HolderInv, Accounted, Confirmable, Busy
  <2> QED
    BY <1>2, <2>4, <2>5 DEF Conservation, NoLossWhileLinked
<1> QED
  BY <1>4, <1>5

LEMMA IInvInit == Init => IInv
<1> SUFFICES ASSUME Init PROVE IInv
  OBVIOUS
<1>1. TypeOK
  BY TypeInit
<1>2. Mentions = {}
  BY DEF Init, Mentions, Busy
<1>3. \A c \in Codes : Uncommitted(c) = 0
  BY DEF Init, Uncommitted, NoBatch
<1> QED
  BY <1>1, <1>2, <1>3
  DEF Init, IInv, IdInv, HolderInv, Busy, Conservation, NoLossWhileLinked

LEMMA IInvNext == IInv /\ [Next]_vars => IInv'
<1> SUFFICES ASSUME IInv, [Next]_vars PROVE IInv'
  OBVIOUS
<1>0. TypeOK /\ TypeOK'
  BY TypeNext DEF IInv
<1> USE DEF redisVars, pgVars, workerVars, historyVars
<1>1. ASSUME NEW p \in Pipelines, NEW c \in Codes, Incr(p, c) PROVE IInv'
  <2>1. \A d \in Codes : clicks'[d] + active[d] = clicks[d] + active'[d]
    BY <1>0, <1>1 DEF Incr, TypeOK
  <2> QED
    BY <1>0, <1>1, <2>1, QuietStep DEF Incr, Busy
<1>2. ASSUME NEW p \in Pipelines, SAdd(p) PROVE IInv'
  BY <1>0, <1>2, QuietStep DEF SAdd, Busy
<1>3. ASSUME NEW p \in Pipelines, CutPipeline(p) PROVE IInv'
  BY <1>0, <1>3, QuietStep DEF CutPipeline, Busy
<1>4. ASSUME NEW w \in Workers, DirtyCodes(w) PROVE IInv'
  BY <1>0, <1>4, QuietStep DEF DirtyCodes, Busy, TypeOK
<1>5. ASSUME NEW w \in Workers, NEW c \in Codes, FreezeBatch(w, c) PROVE IInv'
  <2>1. /\ nextId \in Nat /\ nextId # 0 /\ nextId <= nextId'
        /\ FreezeScript(c, nextId) /\ late' = late
        /\ UNCHANGED <<base, ledger, rows, discarded, clicks>>
    BY <1>0, <1>5 DEF FreezeBatch, TypeOK
  <2>2. batch'[c] # batch[c] => nextId < nextId'
    <3>1. batch'[c] # batch[c] => epoch'[c] = nextId
      BY <1>0, <1>5 DEF FreezeBatch, FreezeScript, TypeOK
    <3> QED
      BY <1>5, <2>1, <3>1 DEF FreezeBatch
  <2>3. \A x \in Mentions : x.id # nextId
    BY <2>1 DEF IInv, IdInv
  <2>4. \A m \in late : m.id # nextId
    BY <2>1 DEF IInv, IdInv
  <2>5. \A v \in Workers : Busy(v)' =>
           \/ Busy(v) /\ cur'[v] = cur[v] /\ held'[v] = held[v] /\ pc'[v] = pc[v]
           \/ /\ cur'[v] = c /\ held'[v] = batch'[c] /\ batch'[c] # NoBatch
              /\ pc'[v] = "apply"
    BY <1>0, <1>5 DEF FreezeBatch, TypeOK, Busy
  <2> QED
    BY <1>0, <2>1, <2>2, <2>3, <2>4, <2>5, FreezeStep
<1>6. ASSUME NEW w \in Workers, ApplyCountBatch(w) PROVE IInv'
  <2>1. Busy(w)
    BY <1>6 DEF ApplyCountBatch, Busy
  <2>2. /\ Entry(cur[w], held[w]) \in Mentions /\ cur[w] \in Codes
        /\ held[w].id \in Nat /\ held[w].delta \in Nat
    BY <1>0, <2>1, HeldMentioned DEF IInv
  <2>3. Accounted(cur[w], held[w].id, held[w].delta)
    BY <2>1 DEF IInv, HolderInv
  <2>4. /\ ApplyTx(cur[w], held[w]) /\ late' = late
        /\ UNCHANGED <<batch, active, discarded, clicks, nextId>>
    BY <1>6 DEF ApplyCountBatch
  <2>5. /\ \A v \in Workers : Busy(v)' =>
             Busy(v) /\ cur'[v] = cur[v] /\ held'[v] = held[v]
        /\ \A v \in Workers : pc'[v] = "confirm" =>
             pc[v] = "confirm" \/ (cur'[v] = cur[w] /\ held'[v].id = held[w].id)
    BY <1>0, <1>6, <2>1 DEF ApplyCountBatch, Busy, TypeOK
  <2> QED
    BY <1>0, <2>2, <2>3, <2>4, <2>5, ApplyStep
<1>7. ASSUME NEW w \in Workers, MarkDirty(w) PROVE IInv'
  BY <1>0, <1>7, QuietStep DEF MarkDirty, NextCode, Busy, TypeOK
<1>8. ASSUME NEW w \in Workers, ConfirmBatch(w) PROVE IInv'
  <2>1. Busy(w) /\ pc[w] = "confirm"
    BY <1>8 DEF ConfirmBatch, Busy
  <2>2. cur[w] \in Codes /\ held[w].id \in Nat /\ Confirmable(cur[w], held[w].id)
    BY <1>0, <2>1, HeldMentioned DEF IInv, HolderInv
  <2>3. /\ ConfirmScript(cur[w], held[w].id) /\ late' = late
        /\ UNCHANGED <<base, ledger, rows, clicks, nextId>>
    BY <1>8 DEF ConfirmBatch
  <2>4. \A v \in Workers : Busy(v)' =>
          Busy(v) /\ cur'[v] = cur[v] /\ held'[v] = held[v] /\ pc'[v] = pc[v]
    BY <1>0, <1>8 DEF ConfirmBatch, NextCode, Busy, TypeOK
  <2> QED
    BY <1>0, <2>2, <2>3, <2>4, ConfirmStep
<1>9. ASSUME NEW w \in Workers, EndRound(w) PROVE IInv'
  BY <1>0, <1>9, QuietStep DEF EndRound, Busy, TypeOK
<1>10. ASSUME NEW w \in Workers, NEW c \in Codes, FreezeFails(w, c) PROVE IInv'
  <2> DEFINE m == [op |-> "freeze", code |-> c, id |-> nextId, delta |-> 0]
  <2>1. late' = late \cup {m} /\ nextId' = nextId + 1
    BY <1>10 DEF FreezeFails
  <2>2. m.op = "freeze" /\ m.id = nextId
    OBVIOUS
  <2>3. UNCHANGED <<batch, active, ledger, rows, base, discarded, clicks, pc, cur, held>>
    BY <1>10 DEF FreezeFails
  <2> HIDE DEF m
  <2> QED
    BY <1>0, <2>1, <2>2, <2>3, GiveUpStep DEF Busy
<1>11. ASSUME NEW w \in Workers, ApplyFails(w) PROVE IInv'
  <2> DEFINE m == [op |-> "apply", code |-> cur[w], id |-> held[w].id, delta |-> held[w].delta]
  <2>1. late' = late \cup {m} /\ nextId' = nextId
    BY <1>11 DEF ApplyFails
  <2>2. /\ Busy(w) /\ m.code = cur[w] /\ m.id = held[w].id
        /\ m.op = "apply" /\ m.delta = held[w].delta
    BY <1>11 DEF ApplyFails, Busy
  <2>3. UNCHANGED <<batch, active, ledger, rows, base, discarded, clicks, cur, held>>
    BY <1>11 DEF ApplyFails
  <2>4. /\ \A v \in Workers : Busy(v)' => Busy(v)
        /\ \A v \in Workers : pc'[v] = "confirm" => pc[v] = "confirm"
    BY <1>0, <1>11 DEF ApplyFails, Busy, TypeOK
  <2> HIDE DEF m
  <2> QED
    BY <1>0, <2>1, <2>2, <2>3, <2>4, GiveUpStep
<1>12. ASSUME NEW w \in Workers, MarkFails(w) PROVE IInv'
  BY <1>0, <1>12, QuietStep DEF MarkFails, NextCode, Busy, TypeOK
<1>13. ASSUME NEW w \in Workers, ConfirmFails(w) PROVE IInv'
  <2> DEFINE m == [op |-> "confirm", code |-> cur[w], id |-> held[w].id, delta |-> 0]
  <2>1. late' = late \cup {m} /\ nextId' = nextId
    BY <1>13 DEF ConfirmFails
  <2>2. /\ Busy(w) /\ m.code = cur[w] /\ m.id = held[w].id
        /\ m.op = "confirm" /\ pc[w] = "confirm"
    BY <1>13 DEF ConfirmFails, Busy
  <2>3. UNCHANGED <<batch, active, ledger, rows, base, discarded, clicks>>
    BY <1>13 DEF ConfirmFails
  <2>4. \A v \in Workers : Busy(v)' =>
          Busy(v) /\ cur'[v] = cur[v] /\ held'[v] = held[v] /\ pc'[v] = pc[v]
    BY <1>0, <1>13 DEF ConfirmFails, NextCode, Busy, TypeOK
  <2> HIDE DEF m
  <2> QED
    BY <1>0, <2>1, <2>2, <2>3, <2>4, GiveUpStep DEF Busy
<1>14. ASSUME NEW w \in Workers, RemarkFails(w) PROVE IInv'
  BY <1>0, <1>14, QuietStep DEF RemarkFails, Busy, TypeOK
<1>15. ASSUME NEW w \in Workers, Crash(w) PROVE IInv'
  BY <1>0, <1>15, QuietStep DEF Crash, Busy, TypeOK
<1>16. ASSUME NEW m \in late, LateFreeze(m) PROVE IInv'
  <2>1. /\ m.code \in Codes /\ m.id \in Nat /\ nextId \in Nat
        /\ 0 < m.id /\ m.id < nextId /\ m.op = "freeze"
    BY <1>0, <1>16 DEF LateFreeze, IInv, IdInv, TypeOK, Calls
  <2>2. /\ FreezeScript(m.code, m.id) /\ late' = late \ {m} /\ nextId' = nextId
        /\ UNCHANGED <<base, ledger, rows, discarded, clicks, pc, cur, held>>
    BY <1>16 DEF LateFreeze
  <2>3. /\ \A x \in Mentions : x.id # m.id
        /\ \A k \in late' : k.op = "freeze" => k.id # m.id
    BY <2>1, <2>2 DEF IInv, IdInv
  <2> QED
    BY <1>0, <2>1, <2>2, <2>3, FreezeStep DEF Busy
<1>17. ASSUME NEW m \in late, LateApply(m) PROVE IInv'
  <2> DEFINE b == [id |-> m.id, delta |-> m.delta]
  <2>1. /\ m.code \in Codes /\ b.id \in Nat /\ b.delta \in Nat
        /\ b.id = m.id /\ b.delta = m.delta
    BY <1>0 DEF TypeOK, Calls
  <2>2. /\ m.op = "apply" /\ ApplyTx(m.code, b) /\ late' = late \ {m}
        /\ UNCHANGED <<batch, active, discarded, clicks, nextId, pc, cur, held>>
    BY <1>17 DEF LateApply
  <2>3. Entry(m.code, b) \in Mentions
    <3>1. Entry(m.code, b) = Entry(m.code, m)
      BY DEF Entry
    <3> QED
      BY <2>2, <3>1 DEF Mentions
  <2>4. Accounted(m.code, b.id, b.delta)
    BY <2>2 DEF IInv, HolderInv
  <2> HIDE DEF b
  <2> QED
    BY <1>0, <2>1, <2>2, <2>3, <2>4, ApplyStep DEF Busy
<1>18. ASSUME NEW m \in late, LateConfirm(m) PROVE IInv'
  <2>1. m.code \in Codes /\ m.id \in Nat
    BY <1>0 DEF TypeOK, Calls
  <2>2. /\ m.op = "confirm" /\ ConfirmScript(m.code, m.id) /\ late' = late \ {m}
        /\ UNCHANGED <<base, ledger, rows, clicks, nextId, pc, cur, held>>
    BY <1>18 DEF LateConfirm
  <2>3. Confirmable(m.code, m.id)
    BY <2>2 DEF IInv, HolderInv
  <2> QED
    BY <1>0, <2>1, <2>2, <2>3, ConfirmStep DEF Busy
<1>19. ASSUME NEW c \in Codes, RemoveRow(c) PROVE IInv'
  BY <1>0, <1>19, QuietStep DEF RemoveRow, Busy
<1>20. ASSUME UNCHANGED vars PROVE IInv'
  BY <1>0, <1>20, QuietStep DEF vars, Busy
<1> QED
  BY <1>1, <1>2, <1>3, <1>4, <1>5, <1>6, <1>7, <1>8, <1>9, <1>10, <1>11, <1>12,
     <1>13, <1>14, <1>15, <1>16, <1>17, <1>18, <1>19, <1>20
  DEF Next, SyncStep, FaultStep, LateStep

(***************************************************************************)
(* Theorems.                                                               *)
(***************************************************************************)

\* Every reachable state satisfies the inductive invariant.
THEOREM Invariance == Spec => []IInv
BY IInvInit, IInvNext, PTL DEF Spec

\* The types hold for any number of codes, workers, pipelines and faults.
THEOREM TypeSafety == Spec => []TypeOK
<1>1. IInv => TypeOK
  BY DEF IInv
<1> QED
  BY Invariance, <1>1, PTL

\* No executed INCR is lost or counted twice, whatever calls fail, are
\* repeated or arrive late.
THEOREM ClicksConserved == Spec => []Conservation
<1>1. IInv => Conservation
  BY DEF IInv
<1> QED
  BY Invariance, <1>1, PTL

\* Clicks are only discarded for codes without a row.
THEOREM NothingDiscardedWhileLinked == Spec => []NoLossWhileLinked
<1>1. IInv => NoLossWhileLinked
  BY DEF IInv
<1> QED
  BY Invariance, <1>1, PTL

\* Two holders of one batch ID agree on its code and delta.
THEOREM NoConflict == Spec => []NoIdentityConflict
<1>1. IInv => NoIdentityConflict
  <2> SUFFICES ASSUME IInv, NEW w \in Workers, pc[w] = "apply"
               PROVE  ApplyReply(cur[w], held[w]) # "conflict"
    BY DEF NoIdentityConflict
  <2>1. Entry(cur[w], held[w]) \in Mentions
    BY HeldMentioned DEF IInv, Busy
  <2>2. ASSUME NEW e \in ledger, e.id = held[w].id PROVE e = Entry(cur[w], held[w])
    <3>1. e \in Mentions
      BY DEF Mentions
    <3>2. Entry(cur[w], held[w]).id = held[w].id
      BY DEF Entry
    <3> QED
      BY <2>1, <2>2, <3>1, <3>2 DEF IInv, IdInv
  <2> QED
    BY <2>2 DEF ApplyReply, Committed
<1> QED
  BY Invariance, <1>1, PTL

-----------------------------------------------------------------------------

(***************************************************************************)
(* Nothing is forgotten.                                                   *)
(***************************************************************************)

\* Code c has clicks to transfer; somebody will find it, or its SADD was cut.
Waiting(c) == active[c] > 0 \/ batch[c] # NoBatch
Marked(c)  == c \in dirty \cup orphan \/ \E p \in Pipelines : pend[p] = c

LEMMA ForgottenKept ==
  ASSUME NothingForgotten,
         \A c \in Codes : Waiting(c)' => Waiting(c) \/ Marked(c)',
         \A c \in Codes : Waiting(c)' /\ Marked(c) => Marked(c)'
  PROVE  NothingForgotten'
BY DEF NothingForgotten, Waiting, Marked

\* A freeze takes a code off the dirty set only if it has nothing.
LEMMA FreezeMarks ==
  ASSUME TypeOK, NothingForgotten, NEW c \in Codes, NEW id \in Nat,
         FreezeScript(c, id), UNCHANGED <<pend, orphan>>
  PROVE  NothingForgotten'
<1>1. \A d \in Codes : Waiting(d)' => Waiting(d)
  BY DEF FreezeScript, Waiting, TypeOK, redisVars
<1>2. \A d \in Codes : Waiting(d)' /\ Marked(d) => Marked(d)'
  BY DEF FreezeScript, Waiting, Marked, TypeOK, redisVars
<1> QED
  BY <1>1, <1>2, ForgottenKept

LEMMA ConfirmMarks ==
  ASSUME TypeOK, NothingForgotten, NEW c \in Codes, NEW id \in Nat,
         ConfirmScript(c, id), UNCHANGED <<pend, orphan>>
  PROVE  NothingForgotten'
<1>1. \A d \in Codes : Waiting(d)' => Waiting(d)
  BY DEF ConfirmScript, Waiting, TypeOK, redisVars
<1>2. \A d \in Codes : Waiting(d)' /\ Marked(d) => Marked(d)'
  BY DEF ConfirmScript, Waiting, Marked, TypeOK, redisVars
<1> QED
  BY <1>1, <1>2, ForgottenKept

\* The dirty set does not shrink, and nothing new waits.
LEMMA MoreMarks ==
  ASSUME NothingForgotten, UNCHANGED <<active, batch, pend>>,
         dirty \subseteq dirty', orphan' = orphan
  PROVE  NothingForgotten'
BY DEF NothingForgotten

LEMMA ForgottenNext ==
  ASSUME TypeOK, NothingForgotten, [Next]_vars
  PROVE  NothingForgotten'
<1> USE DEF redisVars, pgVars, workerVars, historyVars
<1>1. ASSUME NEW p \in Pipelines, NEW c \in Codes, Incr(p, c) PROVE NothingForgotten'
  <2>1. \A d \in Codes : Waiting(d)' => Waiting(d) \/ Marked(d)'
    BY <1>1 DEF Incr, Waiting, Marked, TypeOK
  <2>2. \A d \in Codes : Marked(d) => Marked(d)'
    BY <1>1, NoneAssumption DEF Incr, Marked, TypeOK
  <2> QED
    BY <2>1, <2>2, ForgottenKept
<1>2. ASSUME NEW p \in Pipelines, SAdd(p) PROVE NothingForgotten'
  <2>1. \A d \in Codes : Waiting(d)' => Waiting(d)
    BY <1>2 DEF SAdd, Waiting
  <2>2. \A d \in Codes : Marked(d) => Marked(d)'
    BY <1>2 DEF SAdd, Marked, TypeOK
  <2> QED
    BY <2>1, <2>2, ForgottenKept
<1>3. ASSUME NEW p \in Pipelines, CutPipeline(p) PROVE NothingForgotten'
  <2>1. \A d \in Codes : Waiting(d)' => Waiting(d)
    BY <1>3 DEF CutPipeline, Waiting
  <2>2. \A d \in Codes : Marked(d) => Marked(d)'
    BY <1>3 DEF CutPipeline, Marked, TypeOK
  <2> QED
    BY <2>1, <2>2, ForgottenKept
<1>4. ASSUME NEW w \in Workers, DirtyCodes(w) PROVE NothingForgotten'
  BY <1>4, MoreMarks DEF DirtyCodes
<1>5. ASSUME NEW w \in Workers, NEW c \in Codes, FreezeBatch(w, c) PROVE NothingForgotten'
  BY <1>5, FreezeMarks DEF FreezeBatch, TypeOK
<1>6. ASSUME NEW w \in Workers, ApplyCountBatch(w) PROVE NothingForgotten'
  BY <1>6, MoreMarks DEF ApplyCountBatch
<1>7. ASSUME NEW w \in Workers, MarkDirty(w) PROVE NothingForgotten'
  BY <1>7, MoreMarks DEF MarkDirty
<1>8. ASSUME NEW w \in Workers, ConfirmBatch(w) PROVE NothingForgotten'
  <2>1. cur[w] \in Codes /\ held[w].id \in Nat
    BY <1>8 DEF ConfirmBatch, TypeOK, Busy, Batches
  <2> QED
    BY <1>8, <2>1, ConfirmMarks DEF ConfirmBatch
<1>9. ASSUME NEW w \in Workers, EndRound(w) PROVE NothingForgotten'
  BY <1>9, MoreMarks DEF EndRound
<1>10. ASSUME NEW w \in Workers, FaultStep(w) PROVE NothingForgotten'
  BY <1>10, MoreMarks
  DEF FaultStep, FreezeFails, ApplyFails, MarkFails, ConfirmFails, RemarkFails, Crash
<1>11. ASSUME NEW m \in late, LateFreeze(m) PROVE NothingForgotten'
  <2>1. m.code \in Codes /\ m.id \in Nat
    BY DEF TypeOK, Calls
  <2> QED
    BY <1>11, <2>1, FreezeMarks DEF LateFreeze
<1>12. ASSUME NEW m \in late, LateApply(m) PROVE NothingForgotten'
  BY <1>12, MoreMarks DEF LateApply
<1>13. ASSUME NEW m \in late, LateConfirm(m) PROVE NothingForgotten'
  <2>1. m.code \in Codes /\ m.id \in Nat
    BY DEF TypeOK, Calls
  <2> QED
    BY <1>13, <2>1, ConfirmMarks DEF LateConfirm
<1>14. ASSUME NEW c \in Codes, RemoveRow(c) PROVE NothingForgotten'
  BY <1>14, MoreMarks DEF RemoveRow
<1>15. ASSUME UNCHANGED vars PROVE NothingForgotten'
  BY <1>15, MoreMarks DEF vars
<1> QED
  BY <1>1, <1>2, <1>3, <1>4, <1>5, <1>6, <1>7, <1>8, <1>9, <1>10, <1>11, <1>12,
     <1>13, <1>14, <1>15
  DEF Next, SyncStep, LateStep

\* Every code with clicks to transfer is found by the next round, unless its
\* SADD is on the wire or was cut.
THEOREM EverythingIsFound == Spec => []NothingForgotten
<1>1. Init => NothingForgotten
  BY DEF Init, NothingForgotten
<1>2. TypeOK /\ NothingForgotten /\ [Next]_vars => NothingForgotten'
  BY ForgottenNext
<1> QED
  BY <1>1, <1>2, TypeSafety, PTL DEF Spec

(***************************************************************************)
(* Only the stored batch is credited.                                      *)
(***************************************************************************)

\* What a step may do to click_count.
CreditStep ==
  \A c \in Codes : base'[c] # base[c] =>
    /\ batch[c] # NoBatch
    /\ ~Committed(batch[c].id)
    /\ base'[c] = base[c] + batch[c].delta

LEMMA TxCredits ==
  ASSUME TypeOK, NEW c \in Codes, NEW b, b.id \in Nat, b.id # 0, b.delta \in Nat,
         Accounted(c, b.id, b.delta), ApplyTx(c, b)
  PROVE  CreditStep
<1>1. CASE Committed(b.id) \/ c \notin rows
  BY <1>1 DEF ApplyTx, CreditStep
<1>2. CASE ~Committed(b.id) /\ c \in rows
  <2>1. base' = [base EXCEPT ![c] = @ + b.delta]
    BY <1>2 DEF ApplyTx
  <2>2. batch[c] = [id |-> b.id, delta |-> b.delta]
    BY <1>2 DEF Accounted
  <2>3. batch[c].id = b.id /\ batch[c].delta = b.delta /\ batch[c] # NoBatch
    BY <2>2 DEF NoBatch
  <2> QED
    BY <1>2, <2>1, <2>3 DEF CreditStep, TypeOK
<1> QED
  BY <1>1, <1>2

LEMMA CreditNext ==
  ASSUME IInv, [Next]_vars
  PROVE  CreditStep
<1> USE DEF redisVars, pgVars, workerVars, historyVars
<1>0. TypeOK
  BY DEF IInv
<1>1. ASSUME base' = base PROVE CreditStep
  BY <1>1 DEF CreditStep
<1>2. ASSUME NEW w \in Workers, ApplyCountBatch(w) PROVE CreditStep
  <2>1. Busy(w)
    BY <1>2 DEF ApplyCountBatch, Busy
  <2>2. /\ cur[w] \in Codes /\ held[w].id \in Nat /\ held[w].delta \in Nat
        /\ 0 < held[w].id
    BY <1>0, <2>1, HeldMentioned DEF IInv
  <2>3. Accounted(cur[w], held[w].id, held[w].delta)
    BY <2>1 DEF IInv, HolderInv
  <2> QED
    BY <1>0, <1>2, <2>2, <2>3, TxCredits DEF ApplyCountBatch
<1>3. ASSUME NEW m \in late, LateApply(m) PROVE CreditStep
  <2> DEFINE b == [id |-> m.id, delta |-> m.delta]
  <2>1. m.code \in Codes /\ b.id \in Nat /\ b.delta \in Nat /\ 0 < b.id
    BY <1>0 DEF TypeOK, Calls, IInv, IdInv
  <2>2. ApplyTx(m.code, b) /\ Accounted(m.code, b.id, b.delta)
    BY <1>3 DEF LateApply, IInv, HolderInv
  <2> HIDE DEF b
  <2> QED
    BY <1>0, <2>1, <2>2, TxCredits
<1>4. ASSUME NEW w \in Workers, FaultStep(w) PROVE base' = base
  BY <1>4
  DEF FaultStep, FreezeFails, ApplyFails, MarkFails, ConfirmFails, RemarkFails, Crash
<1>5. ASSUME NEW w \in Workers, SyncStep(w), ~ApplyCountBatch(w) PROVE base' = base
  BY <1>5 DEF SyncStep, DirtyCodes, FreezeBatch, MarkDirty, ConfirmBatch, EndRound
<1>6. ASSUME NEW p \in Pipelines,
             SAdd(p) \/ CutPipeline(p) \/ \E c \in Codes : Incr(p, c)
      PROVE  base' = base
  BY <1>6 DEF SAdd, CutPipeline, Incr
<1>7. ASSUME NEW m \in late, LateFreeze(m) \/ LateConfirm(m) PROVE base' = base
  BY <1>7 DEF LateFreeze, LateConfirm
<1>8. ASSUME NEW c \in Codes, RemoveRow(c) PROVE base' = base
  BY <1>8 DEF RemoveRow
<1>9. ASSUME UNCHANGED vars PROVE base' = base
  BY <1>9 DEF vars
<1> QED
  BY <1>1, <1>2, <1>3, <1>4, <1>5, <1>6, <1>7, <1>8, <1>9 DEF Next, LateStep

\* A late or repeated transaction never credits anything but the whole batch that
\* Redis holds and PostgreSQL has not registered.
THEOREM CreditsAreBatches == Spec => CreditsStoredBatch
<1>1. IInv /\ [Next]_vars => [CreditStep]_vars
  BY CreditNext
<1> QED
  BY Invariance, <1>1, PTL DEF Spec, CreditsStoredBatch, CreditStep

(***************************************************************************)
(* CountSync implements ClickAccounting.                                   *)
(***************************************************************************)

\* Conservation makes what is pending a matter of three counts.
PendingLeft ==
  \A c \in Codes :
    Pending[c] \in Nat /\ clicks[c] = base[c] + discarded[c] + Pending[c]

LEMMA PendingIs == IInv => PendingLeft
BY CountTypes DEF IInv, Conservation, Pending, PendingLeft

LEMMA PendingPrimed == IInv' => PendingLeft'
BY PendingIs, PTL

LEMMA CountsTyped ==
  ASSUME IInv, IInv', NEW c \in Codes
  PROVE  /\ clicks[c] \in Nat /\ base[c] \in Nat /\ discarded[c] \in Nat
         /\ Pending[c] \in Nat /\ Pending'[c] \in Nat
         /\ clicks[c] = base[c] + discarded[c] + Pending[c]
         /\ clicks'[c] = base'[c] + discarded'[c] + Pending'[c]
BY PendingIs, PendingPrimed, CountTypes DEF IInv, PendingLeft

LEMMA PendingFunction ==
  /\ Pending  = [c \in Codes |-> Pending[c]]
  /\ Pending' = [c \in Codes |-> Pending'[c]]
BY DEF Pending

\* A step that moves no count and removes no row is none of ClickAccounting.
LEMMA StutterStep ==
  ASSUME IInv, IInv', UNCHANGED <<clicks, base, discarded, rows>>
  PROVE  UNCHANGED Accounting!vars
<1>1. \A c \in Codes : Pending'[c] = Pending[c]
  BY CountsTyped
<1>2. Pending' = Pending
  BY <1>1, PendingFunction
<1> QED
  BY <1>2 DEF Accounting!vars

\* An executed INCR is a Click.
LEMMA ClickStep ==
  ASSUME IInv, IInv', NEW c \in Codes, clicks' = [clicks EXCEPT ![c] = @ + 1],
         UNCHANGED <<base, discarded, rows>>
  PROVE  Accounting!Click(c)
<1>1. clicks'[c] = clicks[c] + 1 /\ \A d \in Codes : d # c => clicks'[d] = clicks[d]
  BY DEF IInv, TypeOK
<1>2. Pending'[c] = Pending[c] + 1 /\ \A d \in Codes : d # c => Pending'[d] = Pending[d]
  BY <1>1, CountsTyped
<1>3. Pending' = [Pending EXCEPT ![c] = @ + 1]
  BY <1>2, PendingFunction
<1> QED
  BY <1>3 DEF Accounting!Click

\* A transaction is a Credit of its whole batch, or nothing.
LEMMA TxStep ==
  ASSUME IInv, IInv', NEW c \in Codes, NEW n \in Nat,
         base' = base \/ (c \in rows /\ base' = [base EXCEPT ![c] = @ + n]),
         UNCHANGED <<clicks, discarded, rows>>
  PROVE  [Accounting!Next]_(Accounting!vars)
<1>1. CASE base' = base
  BY <1>1, StutterStep
<1>2. CASE base' # base
  <2>1. c \in rows /\ base' = [base EXCEPT ![c] = @ + n]
    BY <1>2
  <2>2. base'[c] = base[c] + n /\ \A d \in Codes : d # c => base'[d] = base[d]
    BY <2>1 DEF IInv, TypeOK
  <2>3. n # 0
    BY <1>2, <2>1 DEF IInv, TypeOK
  <2>4. /\ Pending'[c] = Pending[c] - n
        /\ n \in 1..Pending[c]
        /\ \A d \in Codes : d # c => Pending'[d] = Pending[d]
    <3>1. /\ base[c] \in Nat /\ base'[c] \in Nat /\ discarded[c] \in Nat
          /\ Pending[c] \in Nat /\ Pending'[c] \in Nat
          /\ clicks[c] = base[c] + discarded[c] + Pending[c]
          /\ clicks[c] = base'[c] + discarded[c] + Pending'[c]
      BY <2>2, CountsTyped
    <3>2. Pending[c] = n + Pending'[c]
      <4>1. base'[c] = base[c] + n
        BY <2>2
      <4>2. clicks[c] = (base[c] + n) + discarded[c] + Pending'[c]
        BY <3>1, <4>1
      <4>3. \A k, b, d, p, q, m \in Nat :
              k = b + d + p /\ k = (b + m) + d + q => p = m + q
        OBVIOUS
      <4> QED
        BY <3>1, <4>2, <4>3, CountTypes DEF IInv
    <3>3. ASSUME NEW d \in Codes, d # c PROVE Pending'[d] = Pending[d]
      BY <2>2, <3>3, CountsTyped
    <3> QED
      BY <2>3, <3>1, <3>2, <3>3
  <2>5. Pending' = [Pending EXCEPT ![c] = @ - n]
    BY <2>4, PendingFunction
  <2>6. Accounting!Credit(c, n)
    BY <2>1, <2>5 DEF Accounting!Credit
  <2> QED
    BY <2>4, <2>6 DEF Accounting!Next
<1> QED
  BY <1>1, <1>2

\* A confirm is a Drop of a batch without a row, or nothing.
LEMMA DropStep ==
  ASSUME IInv, IInv', NEW c \in Codes, NEW id, ConfirmScript(c, id),
         UNCHANGED <<clicks, base, rows>>
  PROVE  [Accounting!Next]_(Accounting!vars)
<1> DEFINE n == Uncommitted(c)
<1>0. n \in Nat
  BY CountTypes DEF IInv
<1> HIDE DEF n
<1>1. CASE discarded' = discarded
  BY <1>1, StutterStep
<1>2. CASE discarded' # discarded
  <2>1. discarded' = [discarded EXCEPT ![c] = @ + n]
    BY <1>2 DEF ConfirmScript, n
  <2>2. discarded'[c] = discarded[c] + n /\ \A d \in Codes : d # c => discarded'[d] = discarded[d]
    BY <2>1 DEF IInv, TypeOK
  <2>3. n # 0
    BY <1>2, <2>1 DEF IInv, TypeOK
  <2>4. discarded'[c] > 0
    BY <1>0, <2>2, <2>3, CountsTyped
  <2>5. c \notin rows
    BY <2>4 DEF IInv, NoLossWhileLinked
  <2>6. /\ Pending'[c] = Pending[c] - n
        /\ n \in 1..Pending[c]
        /\ \A d \in Codes : d # c => Pending'[d] = Pending[d]
    BY <1>0, <2>2, <2>3, CountsTyped
  <2>7. Pending' = [Pending EXCEPT ![c] = @ - n]
    BY <2>6, PendingFunction
  <2>8. Accounting!Drop(c, n)
    BY <2>1, <2>5, <2>7 DEF Accounting!Drop
  <2> QED
    BY <2>6, <2>8 DEF Accounting!Next
<1> QED
  BY <1>1, <1>2

LEMMA StepRefines ==
  ASSUME IInv, IInv', [Next]_vars
  PROVE  [Accounting!Next]_(Accounting!vars)
<1> USE DEF redisVars, pgVars, workerVars, historyVars
<1>0. TypeOK
  BY DEF IInv
<1>1. ASSUME UNCHANGED <<clicks, base, discarded, rows>>
      PROVE  [Accounting!Next]_(Accounting!vars)
  BY <1>1, StutterStep
<1>2. ASSUME NEW p \in Pipelines, NEW c \in Codes, Incr(p, c)
      PROVE  [Accounting!Next]_(Accounting!vars)
  <2>1. Accounting!Click(c)
    BY <1>2, ClickStep DEF Incr
  <2> QED
    BY <2>1 DEF Accounting!Next
<1>3. ASSUME NEW w \in Workers, ApplyCountBatch(w)
      PROVE  [Accounting!Next]_(Accounting!vars)
  <2>1. cur[w] \in Codes /\ held[w].delta \in Nat
    BY <1>0, <1>3 DEF ApplyCountBatch, TypeOK, Busy, Batches
  <2>2. /\ base' = base \/ (cur[w] \in rows /\ base' = [base EXCEPT ![cur[w]] = @ + held[w].delta])
        /\ UNCHANGED <<clicks, discarded, rows>>
    BY <1>3 DEF ApplyCountBatch, ApplyTx
  <2> QED
    BY <2>1, <2>2, TxStep
<1>4. ASSUME NEW m \in late, LateApply(m)
      PROVE  [Accounting!Next]_(Accounting!vars)
  <2>1. m.code \in Codes /\ m.delta \in Nat
    BY <1>0 DEF TypeOK, Calls
  <2>2. /\ base' = base \/ (m.code \in rows /\ base' = [base EXCEPT ![m.code] = @ + m.delta])
        /\ UNCHANGED <<clicks, discarded, rows>>
    BY <1>4 DEF LateApply, ApplyTx
  <2> QED
    BY <2>1, <2>2, TxStep
<1>5. ASSUME NEW w \in Workers, ConfirmBatch(w)
      PROVE  [Accounting!Next]_(Accounting!vars)
  <2>1. cur[w] \in Codes
    BY <1>0, <1>5 DEF ConfirmBatch, TypeOK, Busy
  <2> QED
    BY <1>5, <2>1, DropStep DEF ConfirmBatch
<1>6. ASSUME NEW m \in late, LateConfirm(m)
      PROVE  [Accounting!Next]_(Accounting!vars)
  <2>1. m.code \in Codes
    BY <1>0 DEF TypeOK, Calls
  <2> QED
    BY <1>6, <2>1, DropStep DEF LateConfirm
<1>7. ASSUME NEW c \in Codes, RemoveRow(c)
      PROVE  [Accounting!Next]_(Accounting!vars)
  <2>0. UNCHANGED <<clicks, base, discarded>>
    BY <1>7 DEF RemoveRow
  <2>1. \A d \in Codes : Pending'[d] = Pending[d]
    BY <2>0, CountsTyped
  <2>2. Pending' = Pending
    BY <2>1, PendingFunction
  <2> QED
    BY <1>7, <2>2 DEF RemoveRow, Accounting!Unlink, Accounting!Next
<1>8. ASSUME NEW w \in Workers, FaultStep(w)
      PROVE  UNCHANGED <<clicks, base, discarded, rows>>
  BY <1>8
  DEF FaultStep, FreezeFails, ApplyFails, MarkFails, ConfirmFails, RemarkFails, Crash
<1>9. ASSUME NEW w \in Workers, SyncStep(w), ~ApplyCountBatch(w), ~ConfirmBatch(w)
      PROVE  UNCHANGED <<clicks, base, discarded, rows>>
  BY <1>9 DEF SyncStep, DirtyCodes, FreezeBatch, MarkDirty, EndRound
<1>10. ASSUME NEW p \in Pipelines, SAdd(p) \/ CutPipeline(p)
       PROVE  UNCHANGED <<clicks, base, discarded, rows>>
  BY <1>10 DEF SAdd, CutPipeline
<1>11. ASSUME NEW m \in late, LateFreeze(m)
       PROVE  UNCHANGED <<clicks, base, discarded, rows>>
  BY <1>11 DEF LateFreeze
<1>12. ASSUME UNCHANGED vars
       PROVE  UNCHANGED <<clicks, base, discarded, rows>>
  BY <1>12 DEF vars
<1> QED
  BY <1>1, <1>2, <1>3, <1>4, <1>5, <1>6, <1>7, <1>8, <1>9, <1>10, <1>11, <1>12
  DEF Next, LateStep

\* Every behaviour of the transfer is one of ClickAccounting: a click is pending
\* until it is counted once, or dropped because its link has no row.
THEOREM TransferImplementsAccounting == Spec => Implements
<1>1. Init => Accounting!Init
  <2> SUFFICES ASSUME Init PROVE Accounting!Init
    OBVIOUS
  <2>1. Pending = [c \in Codes |-> 0]
    BY DEF Init, Pending, Uncommitted, NoBatch
  <2> QED
    BY <2>1 DEF Init, Accounting!Init
<1>2. IInv /\ IInv' /\ [Next]_vars => [Accounting!Next]_(Accounting!vars)
  BY StepRefines
<1> QED
  BY Invariance, <1>1, <1>2, PTL DEF Spec, Implements, Accounting!Spec

(***************************************************************************)
(* Theorems about the totals a page shows, for any number of codes,        *)
(* workers, pipelines, clicks and faults of the transfer under it.         *)
(*                                                                         *)
(* The argument is about identities, not about counts.  A freeze gives a   *)
(* code an epoch it never had; so two snapshots with the same epoch and    *)
(* the same batch have no freeze and no confirm between them, and the only *)
(* thing that can have happened to the batch is its registration, which    *)
(* moves its clicks inside PostgreSQL.                                     *)
(***************************************************************************)

\* IDs a freeze may still give to a batch.
FreshId(i) == i >= nextId \/ \E m \in late : m.op = "freeze" /\ m.id = i

EpochInv == \A c \in Codes : ~FreshId(epoch[c])

\* What PostgreSQL has of c, and what it will get from c's batch.
Settling(c) == base[c] + Uncommitted(c)

(***************************************************************************)
(* One step of the transfer, as the reader sees it.                        *)
(***************************************************************************)

\* Fresh IDs are used up; a code keeps its epoch or takes a fresh one; while it
\* keeps it, its batch stays, or goes for good.
Calm ==
  /\ rows' \subseteq rows
  /\ \A c \in Codes : clicks[c] <= clicks'[c]
  /\ \A i \in Nat : FreshId(i)' => FreshId(i)
  /\ \A c \in Codes :
       epoch'[c] = epoch[c] =>
         \/ batch'[c] = batch[c] /\ Settling(c)' = Settling(c)
         \/ batch[c] # NoBatch /\ batch'[c] = NoBatch
  /\ \A c \in Codes :
       epoch'[c] # epoch[c] => FreshId(epoch'[c]) /\ ~FreshId(epoch[c])'

LEMMA QuietCalm ==
  ASSUME TypeOK, TypeOK', UNCHANGED <<batch, epoch, base, ledger>>, rows' \subseteq rows,
         \A c \in Codes : clicks[c] <= clicks'[c],
         \A i \in Nat : FreshId(i)' => FreshId(i)
  PROVE  Calm
<1>1. \A c \in Codes : Settling(c)' = Settling(c)
  BY DEF Settling, Uncommitted, Committed
<1> QED
  BY <1>1 DEF Calm

LEMMA FreezeCalm ==
  ASSUME IInv, EpochInv, NEW c \in Codes, NEW id \in Nat, FreshId(id), FreezeScript(c, id),
         UNCHANGED <<base, ledger, rows, clicks>>,
         \A i \in Nat : FreshId(i)' => FreshId(i),
         epoch' # epoch => ~FreshId(id)'
  PROVE  Calm
<1>0. TypeOK
  BY DEF IInv
<1>1. \A d \in Codes : batch'[d] = batch[d] => Settling(d)' = Settling(d)
  BY DEF Settling, Uncommitted, Committed
<1>2. CASE batch' = batch /\ epoch' = epoch
  BY <1>0, <1>1, <1>2 DEF Calm, TypeOK
<1>3. CASE epoch' = [epoch EXCEPT ![c] = id] /\ batch' = [batch EXCEPT ![c] = [id |-> id, delta |-> active[c]]]
  <2>1. epoch'[c] = id /\ \A d \in Codes : d # c => epoch'[d] = epoch[d] /\ batch'[d] = batch[d]
    BY <1>0, <1>3 DEF TypeOK
  <2>2. id # epoch[c]
    BY DEF EpochInv
  <2>3. ~FreshId(id)'
    BY <2>1, <2>2
  <2>4. \A d \in Codes : epoch'[d] # epoch[d] => FreshId(epoch'[d]) /\ ~FreshId(epoch[d])'
    <3> SUFFICES ASSUME NEW d \in Codes, epoch'[d] # epoch[d]
                 PROVE  FreshId(epoch'[d]) /\ ~FreshId(epoch[d])'
      OBVIOUS
    <3>1. epoch'[d] = id
      BY <2>1
    <3> QED
      BY <2>3, <3>1 DEF FreshId
  <2>5. \A d \in Codes : clicks[d] <= clicks'[d]
    BY <1>0 DEF TypeOK
  <2> QED
    BY <1>1, <2>1, <2>2, <2>4, <2>5 DEF Calm
<1> QED
  BY <1>2, <1>3 DEF FreezeScript, redisVars

LEMMA ConfirmCalm ==
  ASSUME IInv, NEW c \in Codes, NEW id \in Nat, ConfirmScript(c, id),
         UNCHANGED <<base, ledger, rows, clicks>>,
         \A i \in Nat : FreshId(i)' => FreshId(i)
  PROVE  Calm
<1>0. TypeOK
  BY DEF IInv
<1>1. \A d \in Codes : batch'[d] = batch[d] => Settling(d)' = Settling(d)
  BY DEF Settling, Uncommitted, Committed
<1>2. epoch' = epoch
  BY DEF ConfirmScript, redisVars
<1>3. \A d \in Codes : batch'[d] # batch[d] => batch'[d] = NoBatch /\ batch[d] # NoBatch
  BY <1>0, ConfirmEffect
<1>4. \A d \in Codes : clicks[d] <= clicks'[d]
  BY <1>0 DEF TypeOK
<1> QED
  BY <1>1, <1>2, <1>3, <1>4 DEF Calm

LEMMA ApplyCalm ==
  ASSUME IInv, NEW c \in Codes, NEW b, b.id \in Nat, b.delta \in Nat,
         Entry(c, b) \in Mentions, Accounted(c, b.id, b.delta), ApplyTx(c, b),
         UNCHANGED <<batch, epoch, clicks>>,
         \A i \in Nat : FreshId(i)' => FreshId(i)
  PROVE  Calm
<1>0. TypeOK /\ IdInv
  BY DEF IInv
<1>1. /\ \A d \in Codes : base'[d] + Uncommitted(d)' = base[d] + Uncommitted(d)
      /\ rows' = rows
  BY <1>0, ApplyEffect
<1>2. \A d \in Codes : clicks[d] <= clicks'[d]
  BY <1>0 DEF TypeOK
<1> QED
  BY <1>1, <1>2 DEF Calm, Settling

LEMMA CalmNext ==
  ASSUME IInv, TypeOK', EpochInv, [Next]_vars
  PROVE  Calm
<1> USE DEF redisVars, pgVars, workerVars, historyVars
<1>0. TypeOK /\ nextId \in Nat
  BY DEF IInv, TypeOK
<1>1. ASSUME UNCHANGED <<batch, epoch, base, ledger, clicks, late, nextId>>, rows' \subseteq rows
      PROVE  Calm
  BY <1>0, <1>1, QuietCalm DEF FreshId, TypeOK
<1>2. ASSUME NEW p \in Pipelines, NEW c \in Codes, Incr(p, c) PROVE Calm
  <2>1. \A d \in Codes : clicks[d] <= clicks'[d]
    BY <1>0, <1>2 DEF Incr, TypeOK
  <2> QED
    BY <1>0, <1>2, <2>1, QuietCalm DEF Incr, FreshId
<1>3. ASSUME NEW p \in Pipelines, SAdd(p) \/ CutPipeline(p) PROVE Calm
  BY <1>1, <1>3 DEF SAdd, CutPipeline
<1>4. ASSUME NEW w \in Workers, DirtyCodes(w) \/ MarkDirty(w) \/ EndRound(w) PROVE Calm
  BY <1>1, <1>4 DEF DirtyCodes, MarkDirty, EndRound
<1>5. ASSUME NEW w \in Workers, NEW c \in Codes, FreezeBatch(w, c) PROVE Calm
  <2>0. PICK id \in Nat : id = nextId
    BY <1>0
  <2>1. /\ FreezeScript(c, id) /\ late' = late
        /\ nextId' = IF epoch'[c] = id THEN id + 1 ELSE nextId
        /\ UNCHANGED <<base, ledger, rows, clicks>>
    BY <1>5, <2>0 DEF FreezeBatch
  <2>2. FreshId(id) /\ \A i \in Nat : FreshId(i)' => FreshId(i)
    BY <1>0, <2>0, <2>1 DEF FreshId
  <2>3. epoch' # epoch => ~FreshId(id)'
    <3> SUFFICES ASSUME epoch' # epoch PROVE ~FreshId(id)'
      OBVIOUS
    <3>1. epoch' = [epoch EXCEPT ![c] = id]
      BY <2>1 DEF FreezeScript
    <3>2. epoch'[c] = id
      BY <1>0, <3>1 DEF TypeOK
    <3>3. nextId' = id + 1
      BY <2>1, <3>2
    <3>4. \A m \in late : m.id \in Nat /\ m.id < id
      BY <1>0, <2>0 DEF IInv, IdInv, TypeOK, Calls
    <3> QED
      BY <2>1, <3>3, <3>4 DEF FreshId
  <2> QED
    BY <2>1, <2>2, <2>3, FreezeCalm
<1>6. ASSUME NEW w \in Workers, ApplyCountBatch(w) PROVE Calm
  <2>1. /\ Entry(cur[w], held[w]) \in Mentions /\ cur[w] \in Codes
        /\ held[w].id \in Nat /\ held[w].delta \in Nat
    BY <1>0, <1>6, HeldMentioned DEF IInv, ApplyCountBatch, Busy
  <2>2. Accounted(cur[w], held[w].id, held[w].delta)
    BY <1>6 DEF IInv, HolderInv, ApplyCountBatch, Busy
  <2>3. UNCHANGED <<batch, epoch, clicks>> /\ ApplyTx(cur[w], held[w])
    BY <1>6 DEF ApplyCountBatch
  <2>4. \A i \in Nat : FreshId(i)' => FreshId(i)
    BY <1>6 DEF ApplyCountBatch, FreshId
  <2> QED
    BY <2>1, <2>2, <2>3, <2>4, ApplyCalm
<1>7. ASSUME NEW w \in Workers, ConfirmBatch(w) PROVE Calm
  <2>1. cur[w] \in Codes /\ held[w].id \in Nat
    BY <1>0, <1>7 DEF ConfirmBatch, TypeOK, Busy, Batches
  <2> QED
    BY <1>7, <2>1, ConfirmCalm DEF ConfirmBatch, FreshId
<1>8. ASSUME NEW w \in Workers, FaultStep(w) PROVE Calm
  <2>1. CASE \E c \in Codes : FreezeFails(w, c)
    <3>1. UNCHANGED <<batch, epoch, base, ledger, clicks, rows>>
      BY <2>1 DEF FreezeFails
    <3>2. \A i \in Nat : FreshId(i)' => FreshId(i)
      BY <1>0, <2>1 DEF FreezeFails, FreshId
    <3> QED
      BY <1>0, <3>1, <3>2, QuietCalm DEF TypeOK
  <2>2. CASE ApplyFails(w) \/ ConfirmFails(w)
    <3>1. UNCHANGED <<batch, epoch, base, ledger, clicks, rows>>
      BY <2>2 DEF ApplyFails, ConfirmFails
    <3>2. \A i \in Nat : FreshId(i)' => FreshId(i)
      BY <1>0, <2>2 DEF ApplyFails, ConfirmFails, FreshId
    <3> QED
      BY <1>0, <3>1, <3>2, QuietCalm DEF TypeOK
  <2>3. CASE MarkFails(w) \/ RemarkFails(w) \/ Crash(w)
    BY <1>1, <2>3 DEF MarkFails, RemarkFails, Crash
  <2> QED
    BY <1>8, <2>1, <2>2, <2>3 DEF FaultStep
<1>9. ASSUME NEW m \in late, LateFreeze(m) PROVE Calm
  <2>1. /\ m.op = "freeze" /\ FreezeScript(m.code, m.id) /\ late' = late \ {m}
        /\ UNCHANGED <<base, ledger, rows, clicks, nextId>>
    BY <1>9 DEF LateFreeze
  <2>2. m.code \in Codes /\ m.id \in Nat /\ m.id < nextId
    BY <1>0 DEF TypeOK, Calls, IInv, IdInv
  <2>3. FreshId(m.id) /\ \A i \in Nat : FreshId(i)' => FreshId(i)
    BY <2>1 DEF FreshId
  <2>4. ~FreshId(m.id)'
    <3>1. ~(m.id >= nextId)
      BY <1>0, <2>2
    <3>2. \A k \in late : k.op = "freeze" /\ k.id = m.id => k = m
      BY <2>1 DEF IInv, IdInv
    <3> QED
      BY <2>1, <3>1, <3>2 DEF FreshId
  <2> QED
    BY <2>1, <2>2, <2>3, <2>4, FreezeCalm
<1>10. ASSUME NEW m \in late, LateApply(m) PROVE Calm
  <2> DEFINE b == [id |-> m.id, delta |-> m.delta]
  <2>1. /\ m.code \in Codes /\ b.id \in Nat /\ b.delta \in Nat
        /\ b.id = m.id /\ b.delta = m.delta
    BY <1>0 DEF TypeOK, Calls
  <2>2. /\ m.op = "apply" /\ ApplyTx(m.code, b) /\ late' = late \ {m}
        /\ UNCHANGED <<batch, epoch, clicks, nextId>>
    BY <1>10 DEF LateApply
  <2>3. Entry(m.code, b) \in Mentions
    <3>1. Entry(m.code, b) = Entry(m.code, m)
      BY DEF Entry
    <3> QED
      BY <2>2, <3>1 DEF Mentions
  <2>4. Accounted(m.code, b.id, b.delta)
    BY <2>2 DEF IInv, HolderInv
  <2>5. \A i \in Nat : FreshId(i)' => FreshId(i)
    BY <2>2 DEF FreshId
  <2> HIDE DEF b
  <2> QED
    BY <2>1, <2>2, <2>3, <2>4, <2>5, ApplyCalm
<1>11. ASSUME NEW m \in late, LateConfirm(m) PROVE Calm
  <2>1. m.code \in Codes /\ m.id \in Nat
    BY <1>0 DEF TypeOK, Calls
  <2>2. /\ ConfirmScript(m.code, m.id) /\ late' = late \ {m}
        /\ UNCHANGED <<base, ledger, rows, clicks, nextId>>
    BY <1>11 DEF LateConfirm
  <2>3. \A i \in Nat : FreshId(i)' => FreshId(i)
    BY <2>2 DEF FreshId
  <2> QED
    BY <2>1, <2>2, <2>3, ConfirmCalm
<1>12. ASSUME NEW c \in Codes, RemoveRow(c) PROVE Calm
  BY <1>1, <1>12 DEF RemoveRow
<1>13. ASSUME UNCHANGED vars PROVE Calm
  BY <1>1, <1>13 DEF vars
<1> QED
  BY <1>2, <1>3, <1>4, <1>5, <1>6, <1>7, <1>8, <1>9, <1>10, <1>11, <1>12, <1>13
  DEF Next, SyncStep, LateStep

(***************************************************************************)
(* The reader.                                                             *)
(***************************************************************************)

\* No freeze and no confirm of c since the first snapshot.
Unmoved(c) == epoch[c] = before[c].epoch /\ batch[c] = before[c].batch

\* What the first snapshot says of the present.
SeenInv ==
  rpc \in {"baselines", "after"} =>
    \A c \in Codes :
      /\ ~FreshId(before[c].epoch)
      /\ before[c].active <= clicks[c] /\ truth[c] <= clicks[c]
      /\ epoch[c] = before[c].epoch => batch[c] \in {before[c].batch, NoBatch}
      /\ Unmoved(c) => Settling(c) + before[c].active = truth[c]

\* What the query has found is right wherever the second snapshot will agree.
FoundInv ==
  rpc = "after" =>
    /\ rows \subseteq DOMAIN counts
    /\ \A c \in DOMAIN counts : Unmoved(c) => counts[c] + before[c].active = truth[c]

ReaderInv ==
  /\ TotalsTypeOK
  /\ EpochInv
  /\ SeenInv
  /\ FoundInv
  /\ outcome # "none" => rpc = "done"
  /\ ExactAtSnapshot
  /\ NeverOverstates

\* A step of the transfer takes nothing from what the reader knows.
LEMMA TransferStep ==
  ASSUME IInv, IInv', ReaderInv, Calm, UNCHANGED readerVars
  PROVE  ReaderInv'
<1> USE DEF readerVars
<1>0. TypeOK /\ TypeOK'
  BY DEF IInv
<1>1. TotalsTypeOK'
  BY DEF ReaderInv, TotalsTypeOK
<1>2. \A c \in Codes : epoch'[c] \in Nat /\ epoch[c] \in Nat /\ before[c].epoch \in Nat
  BY <1>0 DEF TypeOK, ReaderInv, TotalsTypeOK, Snapshots
<1>3. EpochInv'
  <2> SUFFICES ASSUME NEW c \in Codes PROVE ~FreshId(epoch[c])'
    BY DEF EpochInv
  <2>1. CASE epoch'[c] # epoch[c]
    BY <2>1 DEF Calm
  <2>2. CASE epoch'[c] = epoch[c]
    <3>1. PICK i \in Nat : i = epoch[c]
      BY <1>2
    <3>2. ~FreshId(i)'
      BY <3>1 DEF Calm, ReaderInv, EpochInv
    <3> QED
      BY <2>2, <3>1, <3>2 DEF FreshId
  <2> QED
    BY <2>1, <2>2
<1>4. ASSUME rpc \in {"baselines", "after"}, NEW c \in Codes
      PROVE  /\ ~FreshId(before[c].epoch)'
             /\ before[c].active <= clicks'[c] /\ truth[c] <= clicks'[c]
             /\ epoch'[c] = before[c].epoch => batch'[c] \in {before[c].batch, NoBatch}
             /\ Unmoved(c)' => Unmoved(c) /\ Settling(c)' = Settling(c)
  <2>1. /\ ~FreshId(before[c].epoch)
        /\ before[c].active <= clicks[c] /\ truth[c] <= clicks[c]
        /\ epoch[c] = before[c].epoch => batch[c] \in {before[c].batch, NoBatch}
    BY <1>4 DEF ReaderInv, SeenInv
  <2>2. ~FreshId(before[c].epoch)'
    <3>1. PICK i \in Nat : i = before[c].epoch
      BY <1>2
    <3>2. ~FreshId(i)'
      BY <2>1, <3>1 DEF Calm
    <3> QED
      BY <3>1, <3>2 DEF FreshId
  <2>3. before[c].active <= clicks'[c] /\ truth[c] <= clicks'[c]
    <3>1. /\ before[c].active \in Nat /\ truth[c] \in Nat
          /\ clicks[c] \in Nat /\ clicks'[c] \in Nat /\ clicks[c] <= clicks'[c]
      BY <1>0 DEF TypeOK, ReaderInv, TotalsTypeOK, Snapshots, Calm
    <3> QED
      BY <2>1, <3>1
  <2>4. epoch'[c] = before[c].epoch => epoch[c] = before[c].epoch
    BY <2>1 DEF Calm
  <2>5. epoch'[c] = epoch[c] =>
          \/ batch'[c] = batch[c] /\ Settling(c)' = Settling(c)
          \/ batch[c] # NoBatch /\ batch'[c] = NoBatch
    BY DEF Calm
  <2>6. Unmoved(c)' => Unmoved(c) /\ Settling(c)' = Settling(c)
    <3> SUFFICES ASSUME epoch'[c] = before[c].epoch, batch'[c] = before[c].batch
                 PROVE  Unmoved(c) /\ Settling(c)' = Settling(c)
      BY DEF Unmoved
    <3>1. epoch[c] = before[c].epoch /\ epoch'[c] = epoch[c]
      BY <2>4
    <3>2. batch'[c] = batch[c] /\ Settling(c)' = Settling(c)
      BY <2>1, <2>5, <3>1
    <3> QED
      BY <3>1, <3>2 DEF Unmoved
  <2> QED
    BY <2>1, <2>2, <2>3, <2>4, <2>5, <2>6
<1>5. SeenInv'
  BY <1>4 DEF ReaderInv, SeenInv
<1>6. FoundInv'
  BY <1>4 DEF ReaderInv, FoundInv, Calm, TotalsTypeOK
<1>7. ExactAtSnapshot'
  BY DEF ReaderInv, ExactAtSnapshot, Calm
<1>8. NeverOverstates'
  <2> SUFFICES ASSUME outcome \in {"exact", "baseline"}, NEW c \in DOMAIN counts
               PROVE  counts[c] <= clicks'[c]
    BY DEF NeverOverstates
  <2>1. /\ c \in Codes /\ counts[c] \in Nat /\ counts[c] <= clicks[c]
    BY DEF ReaderInv, NeverOverstates, TotalsTypeOK
  <2>2. clicks[c] \in Nat /\ clicks'[c] \in Nat /\ clicks[c] <= clicks'[c]
    BY <1>0, <2>1 DEF TypeOK, Calm
  <2> QED
    BY <2>1, <2>2
<1> QED
  BY <1>1, <1>3, <1>5, <1>6, <1>7, <1>8 DEF ReaderInv

\* A step of the reader leaves the transfer alone.
LEMMA EpochKept == ASSUME EpochInv, UNCHANGED vars PROVE EpochInv'
BY DEF EpochInv, FreshId, vars, redisVars, historyVars

LEMMA TakeBeforeStep ==
  ASSUME IInv, ReaderInv, TakeBefore
  PROVE  ReaderInv'
<1>0. TypeOK /\ EpochInv /\ TotalsTypeOK /\ outcome = "none"
  BY DEF IInv, ReaderInv, TakeBefore
<1>1. /\ rpc' = "baselines" /\ UNCHANGED <<round, counts, outcome>> /\ UNCHANGED vars
      /\ before' = [c \in Codes |-> [active |-> active[c], batch |-> batch[c], epoch |-> epoch[c]]]
      /\ truth' = [c \in Codes |-> base[c] + Uncommitted(c) + active[c]]
  BY DEF TakeBefore, CountSnapshots
<1>2. UNCHANGED <<active, batch, epoch, base, ledger, clicks, rows, late, nextId>>
  BY <1>1 DEF vars, redisVars, pgVars, historyVars
<1>3. \A c \in Codes :
        /\ before'[c].active = active[c] /\ before'[c].batch = batch[c]
        /\ before'[c].epoch = epoch[c] /\ truth'[c] = Settling(c) + active[c]
        /\ before'[c] \in Snapshots
  BY <1>0, <1>1 DEF Settling, TypeOK, Snapshots
<1>4. \A c \in Codes :
        /\ clicks[c] \in Nat /\ base[c] \in Nat /\ active[c] \in Nat
        /\ discarded[c] \in Nat /\ Uncommitted(c) \in Nat
        /\ clicks[c] = base[c] + Uncommitted(c) + active[c] + discarded[c]
  BY <1>0, CountTypes DEF IInv, Conservation
<1>5. \A c \in Codes : truth'[c] \in Nat /\ truth'[c] <= clicks[c] /\ active[c] <= clicks[c]
  BY <1>1, <1>4
<1>6. TotalsTypeOK'
  <2>1. before' \in [Codes -> Snapshots] /\ truth' \in [Codes -> Nat]
    BY <1>1, <1>3, <1>5
  <2> QED
    BY <1>0, <1>1, <2>1 DEF TotalsTypeOK
<1>7. SeenInv'
  <2> SUFFICES ASSUME NEW c \in Codes
               PROVE  /\ ~FreshId(before[c].epoch)'
                      /\ before'[c].active <= clicks'[c] /\ truth'[c] <= clicks'[c]
                      /\ epoch'[c] = before'[c].epoch => batch'[c] \in {before'[c].batch, NoBatch}
                      /\ Unmoved(c)' => Settling(c)' + before'[c].active = truth'[c]
    BY DEF SeenInv
  <2>1. ~FreshId(before[c].epoch)'
    BY <1>0, <1>2, <1>3 DEF EpochInv, FreshId
  <2>2. Settling(c)' = Settling(c)
    BY <1>2 DEF Settling, Uncommitted, Committed
  <2> QED
    BY <1>2, <1>3, <1>5, <2>1, <2>2
<1>8. FoundInv' /\ ExactAtSnapshot' /\ NeverOverstates'
  BY <1>0, <1>1 DEF FoundInv, ExactAtSnapshot, NeverOverstates
<1> QED
  BY <1>0, <1>1, <1>6, <1>7, <1>8, EpochKept DEF ReaderInv

LEMMA ReadBaselinesStep ==
  ASSUME IInv, ReaderInv, ReadBaselines
  PROVE  ReaderInv'
<1>0. TypeOK /\ EpochInv /\ TotalsTypeOK /\ SeenInv /\ outcome = "none" /\ rpc = "baselines"
  BY DEF IInv, ReaderInv, ReadBaselines
<1>1. /\ rpc' = "after" /\ UNCHANGED <<round, before, outcome, truth>> /\ UNCHANGED vars
      /\ counts' = [c \in rows |-> base[c] + IF Committed(before[c].batch.id)
                                              THEN 0 ELSE before[c].batch.delta]
  BY DEF ReadBaselines, CountBaselines
<1>2. UNCHANGED <<active, batch, epoch, base, ledger, clicks, rows, late, nextId>>
  BY <1>1 DEF vars, redisVars, pgVars, historyVars
<1>3. rows \subseteq Codes
  BY <1>0 DEF TypeOK
<1>4. \A c \in rows : counts'[c] \in Nat
  BY <1>0, <1>1, <1>3 DEF TypeOK, TotalsTypeOK, Snapshots, Batches
<1>5. TotalsTypeOK'
  BY <1>0, <1>1, <1>3, <1>4 DEF TotalsTypeOK
<1>6. \A c \in Codes : /\ Settling(c)' = Settling(c) /\ (Unmoved(c)' <=> Unmoved(c))
                       /\ ~FreshId(before[c].epoch) => ~FreshId(before[c].epoch)'
  BY <1>1, <1>2 DEF Settling, Uncommitted, Committed, Unmoved, FreshId
<1>7. SeenInv'
  BY <1>0, <1>1, <1>2, <1>6 DEF SeenInv
<1>8. FoundInv'
  <2>1. ASSUME NEW c \in rows, Unmoved(c) PROVE counts'[c] + before[c].active = truth[c]
    <3>1. counts'[c] = Settling(c)
      BY <1>1, <2>1 DEF Settling, Uncommitted, Unmoved
    <3> QED
      BY <1>0, <1>3, <2>1, <3>1 DEF SeenInv
  <2> QED
    BY <1>1, <1>2, <1>3, <1>6, <2>1 DEF FoundInv
<1>9. ExactAtSnapshot' /\ NeverOverstates'
  BY <1>0, <1>1 DEF ExactAtSnapshot, NeverOverstates
<1> QED
  BY <1>0, <1>1, <1>5, <1>7, <1>8, <1>9, EpochKept DEF ReaderInv

LEMMA ExactAnswer ==
  ASSUME IInv, ReaderInv, rpc = "after", Stable(CountSnapshots),
         counts' = AddActive(counts), outcome' = "exact", rpc' = "done",
         UNCHANGED vars, UNCHANGED <<before, truth, round>>
  PROVE  ReaderInv'
<1>0. TypeOK /\ EpochInv /\ TotalsTypeOK /\ SeenInv /\ FoundInv
  BY DEF IInv, ReaderInv
<1>1. \A c \in Codes : Unmoved(c)
  BY DEF Stable, CountSnapshots, Unmoved
<1>2. counts' = [c \in Codes |-> before[c].active + IF c \in DOMAIN counts THEN counts[c] ELSE 0]
  BY DEF AddActive
<1>3. rows' = rows /\ clicks' = clicks
  BY DEF vars, pgVars, historyVars
<1>4. \A c \in Codes :
        /\ before[c].active \in Nat /\ before[c].active <= clicks[c] /\ truth[c] <= clicks[c]
        /\ c \in DOMAIN counts => counts[c] \in Nat /\ counts[c] + before[c].active = truth[c]
        /\ truth[c] \in Nat /\ clicks[c] \in Nat
  BY <1>0, <1>1 DEF SeenInv, FoundInv, TotalsTypeOK, Snapshots, TypeOK
<1>5. \A c \in Codes :
        /\ counts'[c] \in Nat /\ counts'[c] <= clicks[c]
        /\ c \in DOMAIN counts => counts'[c] = truth[c]
  <2> SUFFICES ASSUME NEW c \in Codes
               PROVE  /\ counts'[c] \in Nat /\ counts'[c] <= clicks[c]
                      /\ c \in DOMAIN counts => counts'[c] = truth[c]
    OBVIOUS
  <2>1. CASE c \in DOMAIN counts
    <3>1. counts'[c] = before[c].active + counts[c]
      BY <1>2, <2>1
    <3> QED
      BY <1>4, <2>1, <3>1
  <2>2. CASE c \notin DOMAIN counts
    <3>1. counts'[c] = before[c].active + 0
      BY <1>2, <2>2
    <3> QED
      BY <1>4, <2>2, <3>1
  <2> QED
    BY <2>1, <2>2
<1>6. TotalsTypeOK'
  BY <1>0, <1>2, <1>5 DEF TotalsTypeOK
<1>7. ExactAtSnapshot' /\ NeverOverstates'
  BY <1>0, <1>2, <1>3, <1>5 DEF ExactAtSnapshot, NeverOverstates, FoundInv, TypeOK
<1> QED
  BY <1>0, <1>6, <1>7, EpochKept DEF ReaderInv, SeenInv, FoundInv

\* Without an agreement there is no exact answer.
LEMMA NoAnswer ==
  ASSUME ReaderInv, UNCHANGED vars, UNCHANGED <<before, truth, counts>>, rpc # "done",
         round' \in 1..3,
         \/ rpc' \in {"before", "fallback"} /\ outcome' = outcome
         \/ rpc' = "done" /\ outcome' = "error"
  PROVE  ReaderInv'
<1>1. outcome = "none"
  BY DEF ReaderInv
<1>2. TotalsTypeOK'
  BY <1>1 DEF ReaderInv, TotalsTypeOK
<1> QED
  BY <1>1, <1>2, EpochKept DEF ReaderInv, SeenInv, FoundInv, ExactAtSnapshot, NeverOverstates

LEMMA FallbackStep ==
  ASSUME IInv, ReaderInv, Fallback
  PROVE  ReaderInv'
<1>0. TypeOK /\ EpochInv /\ TotalsTypeOK
  BY DEF IInv, ReaderInv
<1>1. /\ rpc' = "done" /\ outcome' = "baseline" /\ UNCHANGED <<round, before, truth>>
      /\ UNCHANGED vars
      /\ counts' = CountBaselines([c \in Codes |-> NoSnapshot])
  BY DEF Fallback
<1>2. rows \subseteq Codes /\ rows' = rows /\ clicks' = clicks
  BY <1>0, <1>1 DEF TypeOK, vars, pgVars, historyVars
<1>3. DOMAIN counts' = rows /\ \A c \in rows : counts'[c] = base[c]
  <2>1. counts' = [c \in rows |-> base[c] + IF Committed(NoBatch.id) THEN 0 ELSE NoBatch.delta]
    BY <1>1, <1>2 DEF CountBaselines, NoSnapshot
  <2> QED
    BY <1>0, <1>2, <2>1 DEF NoBatch, TypeOK
<1>4. \A c \in Codes : base[c] \in Nat /\ base[c] <= clicks[c]
  <2> SUFFICES ASSUME NEW c \in Codes PROVE base[c] \in Nat /\ base[c] <= clicks[c]
    OBVIOUS
  <2>1. /\ clicks[c] \in Nat /\ base[c] \in Nat /\ active[c] \in Nat
        /\ discarded[c] \in Nat /\ Uncommitted(c) \in Nat
        /\ clicks[c] = base[c] + Uncommitted(c) + active[c] + discarded[c]
    BY <1>0, CountTypes DEF IInv, Conservation
  <2> QED
    BY <2>1
<1>5. TotalsTypeOK'
  BY <1>0, <1>1, <1>2, <1>3, <1>4 DEF TotalsTypeOK
<1>6. ExactAtSnapshot' /\ NeverOverstates'
  BY <1>1, <1>2, <1>3, <1>4 DEF ExactAtSnapshot, NeverOverstates
<1> QED
  BY <1>0, <1>1, <1>5, <1>6, EpochKept DEF ReaderInv, SeenInv, FoundInv

LEMMA ReaderNext ==
  ASSUME IInv, ReaderInv, ReaderStep
  PROVE  ReaderInv'
<1>0. round \in 1..3
  BY DEF ReaderInv, TotalsTypeOK
<1>1. CASE TakeBefore
  BY <1>1, TakeBeforeStep
<1>2. CASE ReadBaselines
  BY <1>2, ReadBaselinesStep
<1>3. CASE TakeAfter
  <2>1. CASE Stable(CountSnapshots)
    BY <1>3, <2>1, ExactAnswer DEF TakeAfter
  <2>2. CASE ~Stable(CountSnapshots)
    <3>1. /\ UNCHANGED vars /\ UNCHANGED <<before, truth, counts, outcome>>
          /\ rpc = "after" /\ rpc' \in {"before", "fallback"}
          /\ round' = round \/ (round < 3 /\ round' = round + 1)
      BY <1>3, <2>2 DEF TakeAfter, Rounds
    <3>2. round' \in 1..3
      BY <1>0, <3>1
    <3> QED
      BY <3>1, <3>2, NoAnswer
  <2> QED
    BY <2>1, <2>2
<1>4. CASE SnapshotFails \/ BaselinesFail
  BY <1>0, <1>4, NoAnswer DEF SnapshotFails, BaselinesFail
<1>5. CASE Fallback
  BY <1>5, FallbackStep
<1> QED
  BY <1>1, <1>2, <1>3, <1>4, <1>5 DEF ReaderStep

(***************************************************************************)
(* The theorems.                                                           *)
(***************************************************************************)

LEMMA ReaderStart == TotalsInit => ReaderInv
<1> SUFFICES ASSUME TotalsInit PROVE ReaderInv
  OBVIOUS
<1>1. /\ rpc = "idle" /\ round = 1 /\ outcome = "none"
      /\ before = [c \in Codes |-> NoSnapshot]
      /\ counts = [c \in {} |-> 0] /\ truth = [c \in Codes |-> 0]
      /\ nextId = 1 /\ late = {} /\ epoch = [c \in Codes |-> 0]
  BY DEF TotalsInit, Init
<1>2. NoSnapshot \in Snapshots
  BY DEF NoSnapshot, Snapshots, NoBatch, Batches
<1>3. TotalsTypeOK
  BY <1>1, <1>2 DEF TotalsTypeOK
<1>4. EpochInv
  BY <1>1 DEF EpochInv, FreshId
<1> QED
  BY <1>1, <1>3, <1>4 DEF ReaderInv, SeenInv, FoundInv, ExactAtSnapshot, NeverOverstates

\* Below the reader, the transfer is the one of CountSync.
THEOREM TotalsKeepTheTransfer == TotalsSpec => Spec
<1>1. TotalsInit => Init
  BY DEF TotalsInit
<1>2. [TotalsNext]_totalsVars => [Next]_vars
  BY DEF TotalsNext, totalsVars, ReaderStep, TakeBefore, ReadBaselines, TakeAfter,
     SnapshotFails, Fallback, BaselinesFail
<1> QED
  BY <1>1, <1>2, PTL DEF TotalsSpec, Spec

LEMMA TotalsStep ==
  ASSUME IInv, IInv', ReaderInv, [TotalsNext]_totalsVars
  PROVE  ReaderInv'
<1>1. CASE [Next]_vars /\ UNCHANGED readerVars
  <2>1. Calm
    BY <1>1, CalmNext DEF IInv, ReaderInv
  <2> QED
    BY <1>1, <2>1, TransferStep
<1>2. CASE ReaderStep
  BY <1>2, ReaderNext
<1> QED
  BY <1>1, <1>2 DEF TotalsNext, totalsVars

LEMMA TotalsInvariance == TotalsSpec => []ReaderInv
<1>1. IInv /\ IInv' /\ ReaderInv /\ [TotalsNext]_totalsVars => ReaderInv'
  BY TotalsStep
<1> QED
  BY ReaderStart, <1>1, TotalsKeepTheTransfer, Invariance, PTL DEF TotalsSpec

\* The types of the reader.
THEOREM ReaderTypes == TotalsSpec => []TotalsTypeOK
<1>1. ReaderInv => TotalsTypeOK
  BY DEF ReaderInv
<1> QED
  BY TotalsInvariance, <1>1, PTL

\* Two agreeing snapshots mean that the answer is the true total at the first of
\* them, although two stores were read one after the other.
THEOREM AnswersAreExact == TotalsSpec => []ExactAtSnapshot
<1>1. ReaderInv => ExactAtSnapshot
  BY DEF ReaderInv
<1> QED
  BY TotalsInvariance, <1>1, PTL

\* No page shows more clicks than there were.
THEOREM AnswersNeverOverstate == TotalsSpec => []NeverOverstates
<1>1. ReaderInv => NeverOverstates
  BY DEF ReaderInv
<1> QED
  BY TotalsInvariance, <1>1, PTL

============================================================================
