------------------------------ MODULE Totals -------------------------------
(***************************************************************************)
(* The click totals a page shows (Totals.TotalCounts) while the transfer   *)
(* of CountSync goes on: a Redis snapshot, one PostgreSQL query that knows *)
(* which batches are registered, and a second snapshot that must agree     *)
(* with the first in epoch and batch.  After three rounds, or when Redis   *)
(* fails, the answer is the database baseline.                             *)
(***************************************************************************)
EXTENDS CountSync

VARIABLES
  rpc,     \* where the request is
  round,   \* the `for range 3` loop
  before,  \* first snapshot of the round
  counts,  \* the map under construction, then the answer
  outcome, \* how the request ended
  truth    \* history: every code's true total when `before` was taken

readerVars == <<rpc, round, before, counts, outcome, truth>>
totalsVars == <<vars, readerVars>>

Snapshots == [active : Nat, batch : Batches, epoch : Nat]

NoSnapshot == [active |-> 0, batch |-> NoBatch, epoch |-> 0]

TotalsInit ==
  /\ Init
  /\ rpc     = "idle"
  /\ round   = 1
  /\ before  = [c \in Codes |-> NoSnapshot]
  /\ counts  = [c \in {} |-> 0]
  /\ outcome = "none"
  /\ truth   = [c \in Codes |-> 0]

\* The rounds of TotalCounts: `for range 3`.
Rounds_OneMore == 4

Rounds == 3

\* snapshotsScript reads all codes in one step.
CountSnapshots ==
  [c \in Codes |-> [active |-> active[c], batch |-> batch[c], epoch |-> epoch[c]]]

\* CountBaselines: click_count plus the frozen batch unless it is
\* registered, in one SQL snapshot; codes without row are absent.
CountBaselines_NoLedger(snap) ==
  [c \in rows |-> base[c] + snap[c].batch.delta]

CountBaselines(snap) ==
  [c \in rows |-> base[c] + IF Committed(snap[c].batch.id)
                              THEN 0 ELSE snap[c].batch.delta]

\* No freeze and no confirm happened between the two snapshots.
Stable_NoEpoch(snap) ==
  \A c \in Codes : before[c].batch = snap[c].batch

Stable(snap) ==
  \A c \in Codes : before[c].epoch = snap[c].epoch /\ before[c].batch = snap[c].batch

\* counts[code] += snap.Active, where a missing entry counts as zero.
AddActive(map) ==
  [c \in Codes |-> before[c].active + IF c \in DOMAIN map THEN map[c] ELSE 0]

TakeBefore ==
  /\ rpc \in {"idle", "before"}
  /\ before' = CountSnapshots
  /\ truth'  = [c \in Codes |-> base[c] + Uncommitted(c) + active[c]]
  /\ rpc'    = "baselines"
  /\ UNCHANGED <<vars, round, counts, outcome>>

ReadBaselines ==
  /\ rpc = "baselines"
  /\ counts' = CountBaselines(before)
  /\ rpc'    = "after"
  /\ UNCHANGED <<vars, round, before, outcome, truth>>

TakeAfter ==
  /\ rpc = "after"
  /\ \/ /\ Stable(CountSnapshots)
        /\ counts'  = AddActive(counts)
        /\ outcome' = "exact"
        /\ rpc'     = "done"
        /\ UNCHANGED round
     \/ /\ ~Stable(CountSnapshots)
        /\ round < Rounds
        /\ round' = round + 1
        /\ rpc'   = "before"
        /\ UNCHANGED <<counts, outcome>>
     \/ /\ ~Stable(CountSnapshots)
        /\ round = Rounds
        /\ rpc' = "fallback"
        /\ UNCHANGED <<round, counts, outcome>>
  /\ UNCHANGED <<vars, before, truth>>

\* A snapshot cannot be read: the loop ends.
SnapshotFails ==
  /\ rpc \in {"idle", "before", "after"}
  /\ rpc' = "fallback"
  /\ UNCHANGED <<vars, round, before, counts, outcome, truth>>

Fallback ==
  /\ rpc = "fallback"
  /\ counts'  = CountBaselines([c \in Codes |-> NoSnapshot])
  /\ outcome' = "baseline"
  /\ rpc'     = "done"
  /\ UNCHANGED <<vars, round, before, truth>>

\* PostgreSQL fails: the request returns the error.
BaselinesFail ==
  /\ rpc \in {"baselines", "fallback"}
  /\ outcome' = "error"
  /\ rpc'     = "done"
  /\ UNCHANGED <<vars, round, before, counts, truth>>

ReaderStep ==
  \/ TakeBefore \/ ReadBaselines \/ TakeAfter
  \/ SnapshotFails \/ Fallback \/ BaselinesFail

TotalsNext ==
  \/ Next /\ UNCHANGED readerVars
  \/ ReaderStep

TotalsSpec == TotalsInit /\ [][TotalsNext]_totalsVars

(***************************************************************************)
(* Properties.                                                             *)
(***************************************************************************)

\* The reader's variables have their types.
TotalsTypeOK ==
  /\ rpc     \in {"idle", "before", "baselines", "after", "fallback", "done"}
  /\ round   \in 1..3
  /\ before  \in [Codes -> Snapshots]
  /\ DOMAIN counts \subseteq Codes
  /\ \A c \in DOMAIN counts : counts[c] \in Nat
  /\ outcome \in {"none", "exact", "baseline", "error"}
  /\ truth   \in [Codes -> Nat]

\* An answer given for two agreeing snapshots is every link's true total at
\* the first of them, although Redis and PostgreSQL are read one after the
\* other while batches are frozen, registered, repeated and confirmed.
ExactAtSnapshot ==
  outcome = "exact" => \A c \in rows : counts[c] = truth[c]

\* No answer, the fallback included, exceeds the clicks recorded so far.
NeverOverstates ==
  outcome \in {"exact", "baseline"} =>
    \A c \in DOMAIN counts : counts[c] <= clicks[c]

============================================================================
