----------------------------- MODULE CountSync -----------------------------
(***************************************************************************)
(* The transfer of click counts from Redis to PostgreSQL.                  *)
(*                                                                         *)
(* API processes add clicks to a Redis counter and register the code in a  *)
(* dirty set; count-sync workers freeze a counter into a batch with a      *)
(* fresh ID (Lua), register the batch and add it to links.click_count in   *)
(* one PostgreSQL transaction, and confirm the batch by ID (Lua).          *)
(*                                                                         *)
(* Every Lua script and every transaction is one atomic step.  A call that *)
(* fails for its caller stays on the wire (`late`): it may be executed at  *)
(* any later time, or never.  Failing before, during and after execution   *)
(* are thus one action, FreezeFails, ApplyFails or ConfirmFails, followed  *)
(* or not by the matching Late action.                                     *)
(***************************************************************************)
EXTENDS Naturals, FiniteSets

CONSTANTS
  Codes,          \* short codes (links.short_code is globally unique)
  Workers,        \* count-sync loops, one per worker process
  Pipelines,      \* Record pipelines that can be on the wire at once
  None,           \* no code
  DirtyBatchSize, \* dirtyBatchSize: codes sampled per round
  MaxClicks,      \* bound: INCRs executed per code
  MaxFaults       \* bound: failed calls, cut pipelines and crashes

ASSUME NoneAssumption  == None \notin Codes
ASSUME BoundAssumption == /\ DirtyBatchSize \in Nat \ {0}
                          /\ MaxClicks \in Nat
                          /\ MaxFaults \in Nat

VARIABLES
  \* Redis
  active,    \* clicks:cnt:{code}
  batch,     \* clicks:batch:v2:{code}: [id, delta], NoBatch when absent
  epoch,     \* clicks:epoch:v2:{code}: ID of the last batch frozen
  dirty,     \* clicks:dirty
  \* PostgreSQL
  rows,      \* codes that have a row in links
  base,      \* links.click_count
  ledger,    \* click_count_batches
  \* the network and the processes
  late,      \* calls their caller gave up on and the server may still run
  pend,      \* pend[p]: code whose INCR ran and whose SADD is still to run
  pc, todo, cur, held, retry,   \* syncCounts, per worker
  \* history
  nextId,    \* next UUIDv7
  clicks,    \* INCRs executed
  discarded, \* clicks dropped with a batch no row was left for
  orphan,    \* codes whose pipeline was cut between INCR and SADD
  faults     \* faults so far

redisVars   == <<active, batch, epoch, dirty>>
pgVars      == <<rows, base, ledger>>
workerVars  == <<pc, todo, cur, held, retry>>
historyVars == <<nextId, clicks, discarded, orphan, faults>>
vars == <<redisVars, pgVars, late, pend, workerVars, historyVars>>

NoBatch == [id |-> 0, delta |-> 0]
Batches == [id : Nat, delta : Nat]
Entries == [id : Nat, code : Codes, delta : Nat]
Calls   == [op : {"freeze", "apply", "confirm"},
            code : Codes, id : Nat, delta : Nat]
States  == {"idle", "freeze", "apply", "mark", "confirm"}

Init ==
  /\ active    = [c \in Codes |-> 0]
  /\ batch     = [c \in Codes |-> NoBatch]
  /\ epoch     = [c \in Codes |-> 0]
  /\ dirty     = {}
  /\ rows      = Codes
  /\ base      = [c \in Codes |-> 0]
  /\ ledger    = {}
  /\ late      = {}
  /\ pend      = [p \in Pipelines |-> None]
  /\ pc        = [w \in Workers |-> "idle"]
  /\ todo      = [w \in Workers |-> {}]
  /\ cur       = [w \in Workers |-> None]
  /\ held      = [w \in Workers |-> NoBatch]
  /\ retry     = [w \in Workers |-> {}]
  /\ nextId    = 1
  /\ clicks    = [c \in Codes |-> 0]
  /\ discarded = [c \in Codes |-> 0]
  /\ orphan    = {}
  /\ faults    = 0

(***************************************************************************)
(* What the servers execute atomically.                                    *)
(***************************************************************************)

\* The row of click_count_batches for batch b of code c.
Entry(c, b) == [id |-> b.id, code |-> c, delta |-> b.delta]

Committed(id) == \E e \in ledger : e.id = id

\* The part of c's frozen batch that PostgreSQL has not counted yet.
Uncommitted(c) == IF Committed(batch[c].id) THEN 0 ELSE batch[c].delta

\* freezeBatchScript: a stored batch is returned again; a counter at zero
\* leaves the dirty set; otherwise the counter moves into batch `id`.
FreezeScript_Refreeze(c, id) ==
  \/ /\ active[c] = 0
     /\ dirty' = dirty \ {c}
     /\ UNCHANGED <<active, batch, epoch>>
  \/ /\ active[c] > 0
     /\ batch'  = [batch  EXCEPT ![c] = [id |-> id, delta |-> active[c]]]
     /\ epoch'  = [epoch  EXCEPT ![c] = id]
     /\ active' = [active EXCEPT ![c] = 0]
     /\ UNCHANGED dirty

FreezeScript_GrowStored(c, id) ==
  \/ /\ batch[c] # NoBatch
     /\ batch'  = [batch  EXCEPT ![c].delta = @ + active[c]]
     /\ active' = [active EXCEPT ![c] = 0]
     /\ UNCHANGED <<epoch, dirty>>
  \/ /\ batch[c] = NoBatch
     /\ FreezeScript_Refreeze(c, id)

FreezeScript(c, id) ==
  \/ /\ batch[c] # NoBatch
     /\ UNCHANGED redisVars
  \/ /\ batch[c] = NoBatch
     /\ active[c] = 0
     /\ dirty' = dirty \ {c}
     /\ UNCHANGED <<active, batch, epoch>>
  \/ /\ batch[c] = NoBatch
     /\ active[c] > 0
     /\ batch'  = [batch  EXCEPT ![c] = [id |-> id, delta |-> active[c]]]
     /\ epoch'  = [epoch  EXCEPT ![c] = id]
     /\ active' = [active EXCEPT ![c] = 0]
     /\ UNCHANGED dirty

\* confirmBatchScript: only the batch with this ID is deleted, and the code
\* leaves the dirty set only when no new click is waiting.
ConfirmScript_NoIdCheck(c, id) ==
  /\ batch'     = [batch EXCEPT ![c] = NoBatch]
  /\ dirty'     = IF active[c] = 0 THEN dirty \ {c} ELSE dirty
  /\ discarded' = [discarded EXCEPT ![c] = @ + Uncommitted(c)]
  /\ UNCHANGED <<active, epoch>>

ConfirmScript_AlwaysClean(c, id) ==
  \/ /\ batch[c].id # id
     /\ UNCHANGED <<redisVars, discarded>>
  \/ /\ batch[c].id = id
     /\ batch'     = [batch EXCEPT ![c] = NoBatch]
     /\ dirty'     = dirty \ {c}
     /\ discarded' = [discarded EXCEPT ![c] = @ + Uncommitted(c)]
     /\ UNCHANGED <<active, epoch>>

ConfirmScript(c, id) ==
  \/ /\ batch[c].id # id
     /\ UNCHANGED <<redisVars, discarded>>
  \/ /\ batch[c].id = id
     /\ batch'     = [batch EXCEPT ![c] = NoBatch]
     /\ dirty'     = IF active[c] = 0 THEN dirty \ {c} ELSE dirty
     /\ discarded' = [discarded EXCEPT ![c] = @ + Uncommitted(c)]
     /\ UNCHANGED <<active, epoch>>

\* ApplyCountBatch's transaction: register the batch and add its delta, or
\* leave everything as it was (already registered, or no row: rollback).
ApplyTx_NoLedgerCheck(c, b) ==
  /\ IF c \in rows
       THEN /\ ledger' = ledger \cup {Entry(c, b)}
            /\ base'   = [base EXCEPT ![c] = @ + b.delta]
       ELSE UNCHANGED <<ledger, base>>
  /\ UNCHANGED rows

ApplyTx(c, b) ==
  /\ IF Committed(b.id) \/ c \notin rows
       THEN UNCHANGED <<ledger, base>>
       ELSE /\ ledger' = ledger \cup {Entry(c, b)}
            /\ base'   = [base EXCEPT ![c] = @ + b.delta]
  /\ UNCHANGED rows

\* What ApplyCountBatch returns to a caller that gets an answer.
ApplyReply(c, b) ==
  IF Committed(b.id)
    THEN IF Entry(c, b) \in ledger
           THEN "ok" ELSE "conflict"
    ELSE IF c \in rows THEN "ok" ELSE "notfound"

(***************************************************************************)
(* Recording a click (Recorder.Record): INCR, then SADD, in one pipeline   *)
(* that is not a transaction.                                              *)
(***************************************************************************)

Fault == faults < MaxFaults /\ faults' = faults + 1

Incr(p, c) ==
  /\ pend[p] = None
  /\ clicks[c] < MaxClicks
  /\ active' = [active EXCEPT ![c] = @ + 1]
  /\ clicks' = [clicks EXCEPT ![c] = @ + 1]
  /\ pend'   = [pend   EXCEPT ![p] = c]
  /\ UNCHANGED <<batch, epoch, dirty, pgVars, late, workerVars,
                 nextId, discarded, orphan, faults>>

SAdd(p) ==
  /\ pend[p] # None
  /\ dirty'  = dirty \cup {pend[p]}
  /\ orphan' = orphan \ {pend[p]}
  /\ pend'   = [pend EXCEPT ![p] = None]
  /\ UNCHANGED <<active, batch, epoch, pgVars, late, workerVars,
                 nextId, clicks, discarded, faults>>

\* The connection breaks after the INCR: the SADD is never executed.
CutPipeline(p) ==
  /\ pend[p] # None
  /\ Fault
  /\ orphan' = orphan \cup {pend[p]}
  /\ pend'   = [pend EXCEPT ![p] = None]
  /\ UNCHANGED <<redisVars, pgVars, late, workerVars, nextId, clicks, discarded>>

(***************************************************************************)
(* One round of syncCounts.                                                *)
(***************************************************************************)

\* DirtyCodes: SRANDMEMBER returns up to DirtyBatchSize distinct codes.
DirtyCodes(w) ==
  /\ pc[w] = "idle"
  /\ \E S \in SUBSET dirty :
       /\ S # {}
       /\ \/ S = dirty /\ Cardinality(S) <= DirtyBatchSize
          \/ Cardinality(S) = DirtyBatchSize
       /\ todo' = [todo EXCEPT ![w] = S]
  /\ pc' = [pc EXCEPT ![w] = "freeze"]
  /\ UNCHANGED <<redisVars, pgVars, late, pend, cur, held, retry, historyVars>>

\* FreezeBatch answers.  An empty answer ends the code's turn: ConfirmBatch
\* does nothing for a batch without ID.
FreezeBatch(w, c) ==
  /\ pc[w] = "freeze"
  /\ c \in todo[w]
  /\ FreezeScript(c, nextId)
  /\ nextId' = IF epoch'[c] = nextId THEN nextId + 1 ELSE nextId
  /\ todo'   = [todo EXCEPT ![w] = @ \ {c}]
  /\ held'   = [held EXCEPT ![w] = batch'[c]]
  /\ cur'    = [cur EXCEPT ![w] = IF batch'[c] = NoBatch THEN None ELSE c]
  /\ pc'     = [pc EXCEPT ![w] = IF batch'[c] = NoBatch THEN "freeze" ELSE "apply"]
  /\ UNCHANGED <<pgVars, late, pend, retry, clicks, discarded, orphan, faults>>

FreezeFails(w, c) ==
  /\ pc[w] = "freeze"
  /\ c \in todo[w]
  /\ Fault
  /\ late'   = late \cup {[op |-> "freeze", code |-> c, id |-> nextId, delta |-> 0]}
  /\ nextId' = nextId + 1
  /\ todo'   = [todo  EXCEPT ![w] = @ \ {c}]
  /\ retry'  = [retry EXCEPT ![w] = @ \cup {c}]
  /\ UNCHANGED <<redisVars, pgVars, pend, pc, cur, held, clicks, discarded, orphan>>

\* ApplyCountBatch answers: success and "link not found" go on to confirm,
\* any other error only marks the code dirty again.
ApplyCountBatch_KeepUnlinked(w) ==
  /\ pc[w] = "apply"
  /\ ApplyTx(cur[w], held[w])
  /\ pc' = [pc EXCEPT ![w] =
              IF ApplyReply(cur[w], held[w]) = "ok" THEN "confirm" ELSE "mark"]
  /\ UNCHANGED <<redisVars, late, pend, todo, cur, held, retry, historyVars>>

ApplyCountBatch(w) ==
  /\ pc[w] = "apply"
  /\ ApplyTx(cur[w], held[w])
  /\ pc' = [pc EXCEPT ![w] =
              IF ApplyReply(cur[w], held[w]) = "conflict" THEN "mark" ELSE "confirm"]
  /\ UNCHANGED <<redisVars, late, pend, todo, cur, held, retry, historyVars>>

ApplyFails_ConfirmAnyway(w) ==
  /\ pc[w] = "apply"
  /\ Fault
  /\ late' = late \cup {[op |-> "apply", code |-> cur[w],
                         id |-> held[w].id, delta |-> held[w].delta]}
  /\ pc'   = [pc EXCEPT ![w] = "confirm"]
  /\ UNCHANGED <<redisVars, pgVars, pend, todo, cur, held, retry,
                 nextId, clicks, discarded, orphan>>

ApplyFails(w) ==
  /\ pc[w] = "apply"
  /\ Fault
  /\ late' = late \cup {[op |-> "apply", code |-> cur[w],
                         id |-> held[w].id, delta |-> held[w].delta]}
  /\ pc'   = [pc EXCEPT ![w] = "mark"]
  /\ UNCHANGED <<redisVars, pgVars, pend, todo, cur, held, retry,
                 nextId, clicks, discarded, orphan>>

\* The code's turn is over.
NextCode(w) ==
  /\ pc'   = [pc   EXCEPT ![w] = "freeze"]
  /\ cur'  = [cur  EXCEPT ![w] = None]
  /\ held' = [held EXCEPT ![w] = NoBatch]

MarkDirty(w) ==
  /\ pc[w] = "mark"
  /\ dirty' = dirty \cup {cur[w]}
  /\ NextCode(w)
  /\ UNCHANGED <<active, batch, epoch, pgVars, late, pend, todo, retry, historyVars>>

\* MarkDirty failed: logged only.
MarkFails(w) ==
  /\ pc[w] = "mark"
  /\ Fault
  /\ NextCode(w)
  /\ UNCHANGED <<redisVars, pgVars, late, pend, todo, retry,
                 nextId, clicks, discarded, orphan>>

ConfirmBatch(w) ==
  /\ pc[w] = "confirm"
  /\ ConfirmScript(cur[w], held[w].id)
  /\ NextCode(w)
  /\ UNCHANGED <<pgVars, late, pend, todo, retry, nextId, clicks, orphan, faults>>

ConfirmFails(w) ==
  /\ pc[w] = "confirm"
  /\ Fault
  /\ late' = late \cup {[op |-> "confirm", code |-> cur[w],
                         id |-> held[w].id, delta |-> 0]}
  /\ NextCode(w)
  /\ UNCHANGED <<redisVars, pgVars, pend, todo, retry,
                 nextId, clicks, discarded, orphan>>

\* The loop is over: codes whose freeze failed are marked again.
EndRound(w) ==
  /\ pc[w] = "freeze"
  /\ todo[w] = {}
  /\ dirty' = dirty \cup retry[w]
  /\ retry' = [retry EXCEPT ![w] = {}]
  /\ pc'    = [pc    EXCEPT ![w] = "idle"]
  /\ UNCHANGED <<active, batch, epoch, pgVars, late, pend, todo, cur, held, historyVars>>

RemarkFails(w) ==
  /\ pc[w] = "freeze"
  /\ todo[w] = {}
  /\ retry[w] # {}
  /\ Fault
  /\ retry' = [retry EXCEPT ![w] = {}]
  /\ pc'    = [pc    EXCEPT ![w] = "idle"]
  /\ UNCHANGED <<redisVars, pgVars, late, pend, todo, cur, held,
                 nextId, clicks, discarded, orphan>>

\* The worker process dies and is started again: the round is forgotten.
Crash(w) ==
  /\ pc[w] # "idle"
  /\ Fault
  /\ pc'    = [pc    EXCEPT ![w] = "idle"]
  /\ todo'  = [todo  EXCEPT ![w] = {}]
  /\ cur'   = [cur   EXCEPT ![w] = None]
  /\ held'  = [held  EXCEPT ![w] = NoBatch]
  /\ retry' = [retry EXCEPT ![w] = {}]
  /\ UNCHANGED <<redisVars, pgVars, late, pend, nextId, clicks, discarded, orphan>>

(***************************************************************************)
(* The network runs a call its caller gave up on.                          *)
(***************************************************************************)

LateFreeze(m) ==
  /\ m.op = "freeze"
  /\ late' = late \ {m}
  /\ FreezeScript(m.code, m.id)
  /\ UNCHANGED <<pgVars, pend, workerVars, historyVars>>

LateApply(m) ==
  /\ m.op = "apply"
  /\ late' = late \ {m}
  /\ ApplyTx(m.code, [id |-> m.id, delta |-> m.delta])
  /\ UNCHANGED <<redisVars, pend, workerVars, historyVars>>

LateConfirm(m) ==
  /\ m.op = "confirm"
  /\ late' = late \ {m}
  /\ ConfirmScript(m.code, m.id)
  /\ UNCHANGED <<pgVars, pend, workerVars, nextId, clicks, orphan, faults>>

\* Code outside the service deletes a link's row; codes are never reused.
RemoveRow(c) ==
  /\ c \in rows
  /\ rows' = rows \ {c}
  /\ UNCHANGED <<redisVars, base, ledger, late, pend, workerVars, historyVars>>

(***************************************************************************)
(* The specification.                                                      *)
(***************************************************************************)

\* What a worker does when its calls succeed.
SyncStep(w) ==
  \/ DirtyCodes(w)
  \/ \E c \in Codes : FreezeBatch(w, c)
  \/ ApplyCountBatch(w)
  \/ MarkDirty(w)
  \/ ConfirmBatch(w)
  \/ EndRound(w)

FaultStep(w) ==
  \/ \E c \in Codes : FreezeFails(w, c)
  \/ ApplyFails(w)
  \/ MarkFails(w)
  \/ ConfirmFails(w)
  \/ RemarkFails(w)
  \/ Crash(w)

LateStep == \E m \in late : LateFreeze(m) \/ LateApply(m) \/ LateConfirm(m)

Next ==
  \/ \E p \in Pipelines : SAdd(p) \/ CutPipeline(p) \/ \E c \in Codes : Incr(p, c)
  \/ \E w \in Workers : SyncStep(w) \/ FaultStep(w)
  \/ LateStep
  \/ \E c \in Codes : RemoveRow(c)

Spec == Init /\ [][Next]_vars

\* A worker whose calls return goes on (everyFixed ticks for ever, opCtx
\* bounds every call), and a pipeline on the wire is executed to its end.
\* Nothing makes the network run a call its caller gave up on.
FairSpec ==
  /\ Spec
  /\ \A w \in Workers   : WF_vars(SyncStep(w))
  /\ \A p \in Pipelines : WF_vars(SAdd(p))

(***************************************************************************)
(* Properties.                                                             *)
(***************************************************************************)

\* Worker w holds a batch.
Busy(w) == pc[w] \in {"apply", "mark", "confirm"}

\* Every variable has its type, and a worker with a batch has its code.
TypeOK ==
  /\ active    \in [Codes -> Nat]
  /\ batch     \in [Codes -> Batches]
  /\ epoch     \in [Codes -> Nat]
  /\ dirty     \subseteq Codes
  /\ rows      \subseteq Codes
  /\ base      \in [Codes -> Nat]
  /\ ledger    \subseteq Entries
  /\ late      \subseteq Calls
  /\ pend      \in [Pipelines -> Codes \cup {None}]
  /\ pc        \in [Workers -> States]
  /\ todo      \in [Workers -> SUBSET Codes]
  /\ cur       \in [Workers -> Codes \cup {None}]
  /\ held      \in [Workers -> Batches]
  /\ \A w \in Workers : Busy(w) => cur[w] \in Codes
  /\ retry     \in [Workers -> SUBSET Codes]
  /\ nextId    \in Nat \ {0}
  /\ clicks    \in [Codes -> Nat]
  /\ discarded \in [Codes -> Nat]
  /\ orphan    \subseteq Codes
  /\ faults    \in Nat

\* No click is lost or counted twice, whatever calls fail, arrive late or
\* are repeated and whichever workers share a batch: each executed INCR is
\* in click_count, in the frozen batch, in the counter, or was discarded.
Conservation ==
  \A c \in Codes :
    clicks[c] = base[c] + Uncommitted(c) + active[c] + discarded[c]

\* syncCounts discards a batch only when its link has no row: a stale or
\* repeated confirm never deletes a batch that still has to be applied.
NoLossWhileLinked == \A c \in Codes : discarded[c] > 0 => c \notin rows

\* "count batch identity conflict" is unreachable: two workers that hold
\* the same ID hold the same code and delta.
NoIdentityConflict ==
  \A w \in Workers :
    pc[w] = "apply" => ApplyReply(cur[w], held[w]) # "conflict"

\* A code with clicks to transfer is found by the next DirtyCodes, unless
\* its SADD is still on the wire or was cut off.
NothingForgotten ==
  \A c \in Codes :
    active[c] > 0 \/ batch[c] # NoBatch =>
      \/ c \in dirty \cup orphan
      \/ \E p \in Pipelines : pend[p] = c

\* click_count only ever grows by the whole of the batch that Redis holds
\* at that moment: a late or repeated transaction of an older batch is void.
CreditsStoredBatch ==
  [][\A c \in Codes : base'[c] # base[c] =>
       /\ batch[c] # NoBatch
       /\ ~Committed(batch[c].id)
       /\ base'[c] = base[c] + batch[c].delta]_vars

\* The transfer keeps the promise of ClickAccounting: a click is pending
\* while it is in the counter or in a batch that is not registered.
Pending == [c \in Codes |-> active[c] + Uncommitted(c)]

Accounting == INSTANCE ClickAccounting
                WITH pending <- Pending, counted <- base,
                     dropped <- discarded, linked <- rows

Implements == Accounting!Spec

\* Once clicks and faults end, everything recorded reaches click_count (or
\* is discarded with its row), except for codes whose SADD was cut off.
Settles ==
  \A c \in Codes :
    <>[](c \in orphan \/ clicks[c] = base[c] + discarded[c])

(***************************************************************************)
(* The inductive invariant behind Conservation and NoLossWhileLinked.      *)
(***************************************************************************)

\* Every batch, with its code, that some part of the system knows of.
Mentions ==
  ledger
    \cup {Entry(c, batch[c]) : c \in {d \in Codes : batch[d] # NoBatch}}
    \cup {Entry(cur[w], held[w]) : w \in {v \in Workers : Busy(v)}}
    \cup {Entry(m.code, m) : m \in {k \in late : k.op = "apply"}}

\* IDs are fresh, and one ID means one code and one delta.
IdInv ==
  /\ \A x \in Mentions : 0 < x.id /\ x.id < nextId
  /\ \A x, y \in Mentions : x.id = y.id => x = y
  /\ \A m \in late : 0 < m.id /\ m.id < nextId
  /\ \A m \in late : m.op = "freeze" =>
       /\ \A x \in Mentions : x.id # m.id
       /\ \A k \in late : k.op = "freeze" /\ k.id = m.id => k = m

\* A batch somebody may still apply is stored, registered, or has no row.
Accounted(c, id, delta) ==
  \/ Committed(id)
  \/ c \notin rows
  \/ batch[c] = [id |-> id, delta |-> delta]

\* A batch somebody may still confirm is registered or has no row.
Confirmable(c, id) == Committed(id) \/ c \notin rows

HolderInv ==
  /\ \A w \in Workers : Busy(w) => Accounted(cur[w], held[w].id, held[w].delta)
  /\ \A w \in Workers : pc[w] = "confirm" => Confirmable(cur[w], held[w].id)
  /\ \A m \in late : m.op = "apply"   => Accounted(m.code, m.id, m.delta)
  /\ \A m \in late : m.op = "confirm" => Confirmable(m.code, m.id)

IInv == TypeOK /\ IdInv /\ HolderInv /\ Conservation /\ NoLossWhileLinked

============================================================================
