# Verification of AshenCourier

AshenCourier shortens links: an API process redirects visitors and manages
links, a worker process moves click statistics from Redis to PostgreSQL. This
directory holds TLA+ models of the parts whose correctness depends on the order
of things: what two processes do to the same key, what a crash or a lost reply
leaves behind, what a shutdown has to wait for. Paths below are relative to
`src/backend/`.

- [1. The system](#1-the-system)
- [2. Modules](#2-modules)
- [3. Runs, bounds and fairness](#3-runs-bounds-and-fairness)
- [4. Proofs](#4-proofs)
- [5. Disagreements with the documentation](#5-disagreements-with-the-documentation)
- [6. What is not modelled](#6-what-is-not-modelled)
- [7. Plan](#7-plan)

## 1. The system

```
 visitor ──GET /{code}──> API process(es) ──MGET/SET/DEL──> Redis ── link cache
                             │    │                           │
 owner ───/api/links──────> │    └──bounded queue, writer───> │ ── counters, dirty set, batches
                             │                                │ ── click stream, consumer group
                             └──SELECT/INSERT/UPDATE──> PostgreSQL
                                                              ▲ │
                             worker process(es): five loops ──┴─┘
```

| Component | State it keeps | Operations | Talks to | What is hard | What makes it correct |
|---|---|---|---|---|---|
| Click recording and count transfer (`store/redis/cache.go`, `store/redis/batches.go`, `store/postgres/batches.go`, `worker/clicks.go`) | per code a counter, a frozen batch, an epoch, the dirty set; `links.click_count`, `click_count_batches` | `Record`, `DirtyCodes`, `FreezeBatch`, `ApplyCountBatch`, `ConfirmBatch`, `MarkDirty` | Redis scripts, one PostgreSQL transaction | lost replies, late execution, crashes, two workers on one batch, a pipeline that is no transaction | each click counted exactly once; nothing discarded while the link exists; nothing forgotten |
| Click totals (`service/totals.go`) | none; reads both stores | `TotalCounts` | both stores, three rounds | two stores read one after the other | exact when the snapshots agree, never too high |
| Click event stream (`store/redis/stream.go`, `store/postgres/click.go`, `worker/clicks.go`) | stream, last-delivered ID, pending list with idle times and delivery counts; `click_events` | `ReadClicks`, `AutoClaim`, `handleBatch`, `Ack`, `ReapDeadLetters` | three loops per worker, one group | redelivery, claim of work in progress, poison rows, failures between insert and acknowledge | stored at most once, never lost unstored, dropped only if it cannot be stored, the pending list drains |
| Click queue and API shutdown (`service/shortener.go`, `httpx/server.go`, `cmd/api/main.go`) | channel, writer state, drop and failure counters | `RecordClick`, `write`, `drain`, `Server.run`, shutdown in `main` | handlers → writer → Redis | full queue, shutdown order, two timeouts | each click written or counted as lost; the process ends |
| Link cache and resolution (`service/shortener.go`, `store/redis/cache.go`) | positive and negative entry per domain and code; one singleflight fetch per process | `Resolve`, `resolveFromDB`, `putCache`, `putMissing`, `evict` | Redis, PostgreSQL | write-back that overtakes an eviction, eviction that fails | staleness has a bound and a reason; it heals |
| Link lifecycle (`service/shortener.go`, `store/postgres/link.go`, `handler/link.go`, `expireLinks`) | the `links` row: status, owner, key, expiry | `Create`, `Update`, `Delete`, `Claim`, `ExpireDue` | PostgreSQL, then the cache | checked in one statement, written in another | one owner for ever, only the owner writes, a deletion lasts except for what was decided before it, every expired link gets disabled |
| Start-up and shutdown (`startup/retry.go`, both `main.go`) | back-off, deadline, open stores, worker loops | `Retry`, `run` and its deferred calls, `Worker.Stop` | both stores, queue, loops | window arithmetic, a signal at any moment, the order of closing | the window is used and never overrun; nothing is closed under its user; a signal ends the process |
| Custom domains (`service/shortener.go`, `service/domain.go`, `store/postgres/domain.go`) | atomic pointer to a snapshot, refresh flag; `domains` | `snapshot`, `Resolve`, `Create`, `ShortURL` | PostgreSQL | cold start, concurrent and failing refresh, stale snapshot at a write | never an older snapshot after a newer; one refresh at a time; a link answers on its own host |
| Rate limiting (`store/redis/limiter.go`, `httpx/ratelimit.go`) | one counter with expiry per key | `Allow`, the middleware | Redis | fallback after a lost reply, degraded mode, keys of rules | at most `limit` per window; refusals have a reason; a window ends |
| Access passwords (`service/unlock.go`, `handler/redirect.go`) | password version in row and cache entry, signed cookie | `unlock`, `unlocked`, `VerifiedPassword` | cache and PostgreSQL | credential, row and cached version out of step | an old credential stops working, an unlocked visitor gets through |
| Accounts and tokens (`service/auth.go`, `store/postgres/user.go`, `httpx/middleware.go`) | `users`; tokens held by clients | `Register`, `Login`, `ParseToken`, both auth middlewares | PostgreSQL | concurrent registrations, lost answers, clocks that differ | one account per address; sessions only for its owner; a token works on every server |
| Listing and paging (`store/postgres/link.go`, `store/postgres/click.go`, `service/clicks.go`) | cursor held by the client | `ListByOwner`, `ListByLink` | PostgreSQL | inserts and deletions between pages, equal times | rows that stay are seen once |
| Dead-letter scan (`store/redis/stream.go`) | start of the next page, what it collected | `ReapDeadLetters` | Redis | pages that are closed intervals, entries that come and go | it advances, finds what is due, drops nothing else |
| Link statistics (`service/stats.go`, `store/postgres/click.go`) | none | `Stats.ForLink`, five queries | PostgreSQL | queries without a common snapshot, midnight, time zones | the curve is exact for its days |
| HTTP answers (`httpx/`, `store/errors.go`, `store/postgres/store.go`) | per response: status, body, what a wrapper holds back | error classes, `WriteError`, middlewares | – | which error passes by itself; who writes the header first | a retry is advised where it helps; one JSON answer under `/api`; the log is true |
| Health probe (`cmd/api/main.go`) | none | `Report`, `probeHealth` | both stores | a dependency that hangs | the right one is blamed, in time |
| Codecs and validators (`internal/pkg`, `service/tags.go`) | none | `base62`, `IsPrivateHost`, tags, … | – | overflow, notations, normal forms | agreement with a definition |
| Rendering, GeoIP, configuration, smoke test, web front end, migrations | none that a property here is about | – | – | – | – |

How the parts interact: `Resolve` answers a redirect from the cache or the
database; after the response the handler puts a click into the queue; the writer
sends it to Redis as one pipeline (counter, dirty set, stream); the worker's
count loop moves counters into `click_count`, its stream loops move events into
`click_events`, its expiry loop disables links and evicts them. Pages that show
a total add what is still in Redis to what PostgreSQL has. The models cut the
system at these interfaces: a click handed over by one model (an executed
`INCR`, an executed `XADD`, a call of `RecordClick`) is where the next begins.

The hazards of each part, at their lines and with the properties that watch
over them, are in `PROJECT.json`.

## 2. Modules

Conventions. One action is one atomic step of a server (a Lua script, a
transaction, a Redis command) or one step of a goroutine between two of them.
Actions, variables and constants carry the names of the code where it has one.
A call that fails is bounded by `MaxFaults` and is always allowed to have run;
history variables exist only for properties and never guard an action that
stands for code (fault actions consult the fault budget). A definition named
`X_Something` next to `X` is a variant with a plausible mistake, used to confirm
that the properties can fail; it is not part of any specification.

### CountSync – the transfer of counts

Redis (`active`, `batch`, `epoch`, `dirty`), PostgreSQL (`rows`, `base`,
`ledger`), the network and the worker loops are separate variables.
`FreezeScript` and `ConfirmScript` are the two Lua scripts, `ApplyTx` with
`ApplyReply` the transaction and the answer of `ApplyCountBatch`; `Incr` and
`SAdd` are the two halves of `Record`'s pipeline; `DirtyCodes` … `EndRound` are
one round of `syncCounts`, including the second marking of codes whose freeze
failed. A call its caller gave up on stays in `late` and may be executed at any
later moment, even after a new batch of the same code exists, or never: this
one mechanism covers failure before, during and after execution. `Crash` forgets
a worker's round, `RemoveRow` stands for a row deleted outside the service.

`ClickAccounting` is the promise in twenty lines: a click is pending until it is
counted once or dropped because its link has no row. `CountSync` implements it
(`Implements`) with `pending` mapped to the counter plus the batch that
PostgreSQL has not registered.

Properties: `Conservation`, `NoIdentityConflict`, `NothingForgotten` (what has
clicks is dirty, unless its `SADD` is still to run or was cut),
`CreditsStoredBatch` (action property), `Implements`, `Settles` (liveness).
`IInv` is the inductive invariant of section 4; `NoLossWhileLinked`, a part of
it, says as an invariant what `Implements` says of the step that drops.

### Totals – reading across the two stores

Extends `CountSync` with one reader in `TotalCounts`: snapshot, baselines,
second snapshot, up to three rounds, fallback. `truth` remembers each code's
true total when the first snapshot was taken; `ExactAtSnapshot` and
`NeverOverstates` compare the answer with it. The epoch matters: without it a
batch that was frozen, registered and confirmed between two snapshots goes
unnoticed (variant `Stable_NoEpoch`).

### ClickStream – the consumer group

Messages are positions in the stream and have one of three kinds: `good`,
`poison` (PostgreSQL rejects the row) and `malformed` (cannot be parsed).
`ReadClicks`, `AutoClaim`, `InsertBatch`, `Ack`, `AckMalformed` and the
dead-letter pair `FindDeadLetters` / `AckDeadLetters` are the calls of the
loops; `Begin` decides as `handleBatch` does what comes next. `Tick` lets
unattended entries become idle; an entry in a handler's hand becomes idle only
by `Stall`, a fault, because its calls are bounded by timeouts of a few seconds
and `DefaultClaimMinIdle` is far longer. An insert that fails may have left
nothing or a prefix of its rows: the code comments on it as a non-transaction,
the driver runs it as an implicit one, and the model allows both.

`ClickDelivery` is the promise of all the loops together: a message is open from
the moment it is published; it is settled when its row is stored or it cannot be
parsed, given up after `MaxAttempts` deliveries, forgotten when `MaxLen` newer
messages displaced it; its row is stored once. `ClickStream` implements it
(`ImplementsDelivery`) with `open` mapped to what the group has not read and what
is pending.

Properties: `NothingLost`, `DropsAreEarned`, `ImplementsDelivery`, `Drains`
(liveness); `OnlyPoisonDropped` is section 5. `StoredOnce` is part of the
promise and of the inductive invariant.

### ClickQueue and ApiProcess – from the start of a process to its end

`ClickQueue` has requests, `Server.run`, `main`'s shutdown and the writer
goroutine. The queue is its length. `ShutdownTimeout` and `ListenFails` are the
two ways `run` returns with handlers still alive; `DrainTimeout` may come at any
moment of the drain.

`ApiProcess` extends it with what lies around: `Retry` opens PostgreSQL, then
Redis (`BootTick` is the clock, `OpenFails` / `TryAgain` / `PauseAborted` the
three outcomes of its loop); then the process is an API, an API with embedded
worker, or a worker (`role`); `Return`, `Join` and `CloseStore` are the
deferred calls of `run` in their order. `loops` stands for the five worker loops
together: they end when a signal cancels their context, and only then.

Properties: `EveryClickCounted`, `GracefulExitCountsAll`, `BootInv` (types, and
`UsesItsWindow`), `ClosesLast`, `EndsOnSignal` (liveness);
`DrainWaitsForRequests` and `CancelledBeforeStop` are section 5.

### LinkCache – cache-aside

One code of one domain. The row is the number of its version (0: none); an entry
holds a version and the ticks it has left, an expiration of 0 being Redis's
"never". Each process has at most one fetch: `StartFlight`, `ReadRow`, `Fill`
(or `FillFails`, `Abandon`). A fetch may start at any time, because the lookup
that sent it there may have been answered a moment ago or not at all. Writes are
`Commit` then `EvictAfter`; the fault actions are a commit whose caller sees an
error and an eviction that fails. `Create`, `Update`, `Delete`, `Claim` and
`expireLinks` differ in the row they write but not in this order, so they are
one action here. `answer` remembers how outdated the last answer to a visitor
was.

`RecentLink` is the promise: a link that is written, and answers that show a
version it has or had, whose end may lie back no longer than a lag - one for
what is found, one for what is missing. It has no cache, no process and no
eviction, and it promises no order: of two answers the later one may be the older
version. `LinkCache` implements it (`ShowsRecent`) with a lag of one fetch and
one lifetime of an entry, positive or negative. The timeout of a fetch is part
of the bargain: without it (variant `Tick_NoTimeout`) a row that was read long
ago is written back with a full lifetime.

Properties: `StaleIsBounded`, `StaleForAReason`, `ShowsRecent`, `SelfHeals` (liveness);
`CreatedMeansConsistent` is section 5.

### LinkLifecycle – the rows and who may change them

`row` is the table: status, owner, whether a manage key's hash is stored, expiry.
A request goes through `pc`: `BeginCreate`, `BeginUpdate`, `BeginDelete` and
`BeginClaim` are the handler's read and its checks (`loadAuthorized`,
`buildPatch`, `Authorize`), the following action is the statement that writes,
which finds the row by its short code alone; `Claim`'s statement also asks for a
missing owner, and `Reread` computes the loser's answer. A custom code that
exists is a conflict, a generated one is drawn again up to `MaxAttempts`.
`Select` and `Disable` are the two halves of `ExpireDue`'s one statement: under
`READ COMMITTED` the update meets the newest version of a row and checks the
short code only, since `LIMIT` keeps the other conditions inside the sub-select.
The history variable `stale` holds who read a row before its last change; it is
what lets the properties separate "allowed when it was checked" from "never
checked". A request that fails or whose client leaves simply takes no further
step; a sweep that fails is repeated.

Properties: `OwnershipIsFinal`, `OwnerOnly`, `DeletedForGood`, `EnabledIsLive`,
`ExpiredGetsDisabled` (liveness); `ExpiresOnlyDue` is section 5. `IInv` is the
inductive invariant of section 4.

Not a property, because it fails: a claimer that loses to a deletion is answered
"conflict" instead of "not found" if an edit that was checked before the deletion
revives the link between the claim's two statements. The link is then unowned
and the claimer may try again.

### The services around the core

Ten smaller modules. They share no variable with each other, so `MCServices`
puts them side by side and lets its first state choose which `part` runs; a
product would only multiply interleavings that no property tells apart. Each
has one invariant, a conjunction of a type invariant and named parts. Every part
of it was tried against a changed definition that breaks it alone; the one listed
in `PROJECT.json` is an example.

**RateLimiter** (`RateInv`). `Enter` is the middleware: the address behind the
proxy, the key of the rule. A round trip to Redis is refused, lost before it
ran, or run with its answer lost; INCREX that fails falls back to the script,
which counts again. The history `hits` says in which windows a request was
counted. *QuotaIsKept*: no window admits more than its limit, whatever is lost.
*RefusedForAReason*: nobody is refused because of another visitor, rule or
window. *WaitIsEnough*: `Retry-After` leads out of the window. *EveryCounterEnds*.

**DomainSnapshot** (`SnapInv`, `SnapSteps`). Loading the pointer, the
compare-and-swap, the query, the store and the release are five steps of a
lookup; an operator registers and removes domains between them. *OneRefresh*,
*ServedAtHome*, *NoOrphanLink*, *ShortURLOpens* hold in every state; a step never
answers at once with domains older than TTL and one refresh, never forgets
domains it had, never stores an older reading.

**Accounts** (`AuthInv`). Registration is hash, then insert; login is read, then
compare; the insert's answer may be lost. Servers' clocks are up to the leeway
of a token apart. *OneAccount*, *OnlyTheOwner*, *RightCredentialsWork*,
*WorksEverywhere*.

**PasswordGate** (`GateInv`) extends `LinkCache`: each version of the link is
active or not and has a password or none, an entry of the cache knows the status,
that there is a password and its version, the browser holds a cookie for a
version. Writes, fetches and failing evictions are those of `LinkCache`;
`Redirectable` is checked before the password, by a visit on what the cache gave
it and by an unlock on the row. *ShutOutInTime* transfers the bound of
`StaleIsBounded` to everybody a change shuts out: all visitors when the link is
disabled or deleted, those without the new password when it is changed.
*CookieOpensItsPassword* holds although versions without a password lie between;
*RightPasswordOpens*.

**Paging** (`PagingInv`). The one keyset query behind both lists, a page per
step, between arbitrary changes of the table and of the page size.
*NoRowTwice*, *NoRowSkipped*, *NextPageIsThere*.

**DeadLetterScan** (`ScanInv`). `ReapDeadLetters` page by page while other
workers deliver, acknowledge and claim. *LooksOnlyAhead* is why the loop ends;
*FindsAllDue*, *DropsOnlyDue*. `ClickStream` uses its result as one step.

**LinkStats** (`StatsInv`). Window, curve and breakdowns as queries of their own.
Time is in half days so that a session in another time zone would put a click on
another day. *CurveIsExact*, *TodayIsIn*, *BreakdownCoversCurve*.

**HttpAnswer** (`AnswerInv`). Half of it follows an error of the driver through
its class, the service and `WriteError` to a status; the other half follows the
handler's calls through the response writers of the middlewares.
*RetryOnlyIfItHelps*, *ApiErrorsAreJSON*, *LogIsTrue*.

**HealthProbe** (`ProbeInv`). Four calls in sequence, each under its own limit,
dependencies that change while they are asked. *BlamesTheRightOne*,
*ReportsInTime*.

**Codecs** (`CodecInv`). Pure algorithms against definitions by arithmetic:
base 62 with its overflow guard (`Encode` and `Decode`; the service draws random
codes and does not call them), the notations of IPv4 addresses that browsers accept,
tags. *EncodeIsInverted*, *DecodeNeverWraps*, *SpellingsAgree*, *TagsAreFound*. A
text is a sequence of digits. Sizes are parameters, so that a word of 32
values and bytes of 2 overflow within five digits.

## 3. Runs, bounds and fairness

| Run | Question | Bounds | States |
|---|---|---|---|
| `count` | Is each click counted exactly once, as `ClickAccounting` promises, and is a displayed total right meanwhile? | 1 code, 2 workers, 1 pipeline, 2 clicks, 1 fault, symmetry | 1,649,660 |
| `count_live` | Does everything recorded arrive? | 2 codes in one round, 2 workers, 1 pipeline, 1 click each, 2 faults (a second marking fails after a failed freeze) | 1,333,724 |
| `stream` | Is a click stored once and never lost, as `ClickDelivery` promises, and does the pending list drain? | 1 reader, 2 claimers, 3 messages of every kind, batch of 2, 2 attempts, `MaxLen` 2, 1 fault | 255,200 |
| `stream_poison` | Are only rejected messages dropped? (violated) | 2 messages, 5 attempts as in the code, no fault | – |
| `queue_early` | Does the drain wait for handlers? (violated) | 2 requests | – |
| `process` | Is each click accounted for, does a process use its start-up window, close in order and end? | 4 requests, queue of 2, 3 roles, back-off 1, 2, 4, window 12, an attempt of 0 or 1 tick | 559,200 |
| `process_hang` | Are the loops always told to stop before `Stop` waits? (violated) | 1 request | – |
| `cache` | How stale can an answer be, as `RecentLink` promises, why, and does the cache heal? | 2 processes, 2 writes, TTL 2, negative TTL 0 or 1, fetch 1, 1 fault | 100,311 |
| `cache_create` | Is the cache right after a create? (violated) | 1 write, no fault | – |
| `lifecycle` | Who owns a link, who may write it, what revives or enables it, is it disabled when it expires? | 2 codes, 2 users, 3 requests, 1 sweeping worker, batch of 1, 2 attempts, instants 0–2, expiry at 1 or never | 390,918 |
| `lifecycle_sweep` | Does the sweep disable due links only? (violated) | 1 code, 2 requests | – |
| `services` | Do the ten services keep what they promise? | per part, see `Services.cfg` and below | 1,292,846 |

Why the bounds are enough. *Counts*: codes do not interact except through the
dirty set and a worker's round, so one code with two workers and two clicks has
the collisions that matter (two batches of one code in succession, the first
confirmed late, both workers on each; a total read in three rounds across them);
two codes appear where the round matters. For more clicks, pipelines and
faults there are the proofs of section 4. *Stream*: three messages with batches of two
give batches that overlap, a bad message before and after a good one, and
trimming of a pending message; two attempts separate "failed once" from "failed
often enough". *Process*: four requests overfill a queue of two while the writer
holds a third click; the window of 12 is no sum of pauses 1, 2, 4, 4, with or
without attempts that take a tick. *Cache*: the versions 0, 1 and 2 give
an entry two versions old; two processes give write-backs that overtake each
other; a TTL of two ticks and a fetch of one make the bound of `StaleIsBounded`
attainable. The negative TTL 0 is "disabled". *Lifecycle*: a create and two
requests on its link give each pair of operations in each order, with the sweep
and the clock between them; a sweep of one row and two expired links make the
sweep choose; two codes and two attempts make a generated code collide. All
links that expire do so at instant 1, so that the order of the sweep is not
varied; any order reaches every link because a disabled one is not due again.
*Services*: two callers against a limit of one, with the window longer than a
second so that rounding shows; two lookups, one refreshing and one in its way;
two sessions and two spellings of an address; a page of two or three over four
rows of two times; stream IDs that differ in either half; two clicks on both
sides of midnight; each error class and each order of a handler's calls; words and
bytes so small that everything overflows.

Fairness, and what in the code justifies it. The count and stream loops tick for
ever (`everyFixed`, `consumeLoop`) and each call is bounded by `opCtx`: weak
fairness of a worker's next step. A pipeline on the wire runs to its end unless
cut: weak fairness of `SAdd`. Nothing makes a late call run, a group be created
again (`EnsureGroup` is tried once), a handler return, a signal arrive or an
eviction succeed, so none of these is fair; `Drains` is stated for messages of a
group that exists, and `EndsOnSignal` for a process that was signalled. Timers
run: `ShutdownTimeout` is part of `ServerStep`; an attempt to open a store and a
pause end (`BootTick`, `MainStep`); the loops end when their context is cancelled
(`LoopsEnd`), since each of their calls has a deadline; a store that opens is
never needed (`Opened` is not fair). For the cache, time passes and a fetch ends within
`resolveTimeout`; for the lifecycle, the sweep ticks for ever while clients may
vanish at any step. Fault budgets are finite, which says: failures eventually
stop for long enough. The services have no liveness property: what ends
there ends by a bound that an invariant states.

Deadlock is not checked where the bounded counters let the system come to rest,
or the process has ended (`CHECK_DEADLOCK FALSE` in all configurations but the
two of the cache); the cache never rests.

## 4. Proofs

`CountSyncProofs` proves, for any sets of codes, workers and pipelines and any
number of clicks and faults:

| Theorem | Statement |
|---|---|
| `Invariance` | `Spec => []IInv` |
| `TypeSafety` | `Spec => []TypeOK` |
| `ClicksConserved` | `Spec => []Conservation` |
| `NothingDiscardedWhileLinked` | `Spec => []NoLossWhileLinked` |
| `NoConflict` | `Spec => []NoIdentityConflict` |

They rest on the module's named assumptions only: `None` is not a code, and the
bounds are natural numbers.

`Conservation` alone is not inductive: it says nothing of the batches that
workers and the network still hold. The strengthening `IInv` adds

- `IdInv`: IDs are fresh and one ID means one code and one delta, wherever the
  batch is mentioned (ledger, Redis, a worker's hand, a late transaction). A
  late freeze carries an ID nobody else mentions.
- `HolderInv`: a batch somebody may still *apply* is stored in Redis, already
  registered, or its row is gone; a batch somebody may still *confirm* is
  registered or its row is gone.

With them a late or repeated transaction is void or moves exactly the stored
batch (lemma `ApplyEffect`), a confirm deletes only what was counted or has no
row (`ConfirmEffect`), and a freeze only moves clicks from counter to batch
(`FreezeEffect`). One lemma per kind of step (`QuietStep`, `FreezeStep`,
`ApplyStep`, `ConfirmStep`, `GiveUpStep`) lifts this to `IInv`; the step theorem
goes through the actions one by one.

`LinkLifecycleProofs` proves all safety properties of `lifecycle`, for any sets of
codes, users and workers and any number of requests:

| Theorem | Statement |
|---|---|
| `LifecycleInvariance` | `Spec => []IInv` |
| `LifecycleTypes` | `Spec => []TypeOK` |
| `OwnersKeepTheirLinks` | `Spec => []OwnershipIsFinal` |
| `OnlyOwnersWrite` | `Spec => OwnerOnly` |
| `DeletionsLast` | `Spec => DeletedForGood` |
| `EnablingIsChecked` | `Spec => EnabledIsLive` |

They assume that `None` is neither a user nor a code, that workers are not
requests, that limits are positive and bounds natural numbers. The invariant adds
to the properties what a request still knows when it writes: `ReqInv` (its code
has a row, a claimer is a user, a create has an expiry), `RowInv` (an owned link
has no manage key), and the heart, `FreshInv` and `PickInv`: what was checked
when the row was read is true as long as the reader is not in `stale`. Every
action either writes no row (`RequestMoves`), or writes one and makes everybody
else who read it stale (`RequestWrites`), or is a half of the sweep
(`SelectStep`, `DisableStep`). The three action properties follow from the
invariant and one step (`ByOwnerStep`, `RevivedStep`, `EnabledStep`).

`CountSyncProofs` draws three more results from the same invariant:

| Theorem | Statement |
|---|---|
| `EverythingIsFound` | `Spec => []NothingForgotten` |
| `CreditsAreBatches` | `Spec => CreditsStoredBatch` |
| `TransferImplementsAccounting` | `Spec => Implements` |

The refinement is shown step by step: `Conservation` turns the mapped `pending`
into what was clicked, less what was counted and dropped (`PendingIs`), so that
a step of the transfer that credits, drops or records is the step of
`ClickAccounting` of that name, and every other step a stutter.

Its last part is about `Totals` and proves both guarantees of a displayed total:

| Theorem | Statement |
|---|---|
| `TotalsKeepTheTransfer` | `TotalsSpec => Spec` |
| `ReaderTypes` | `TotalsSpec => []TotalsTypeOK` |
| `AnswersAreExact` | `TotalsSpec => []ExactAtSnapshot` |
| `AnswersNeverOverstate` | `TotalsSpec => []NeverOverstates` |

The argument is about identities. A freeze gives a code an epoch that no code has
or had (`EpochInv`: no current epoch is still free to be given). So every step of
the transfer is `Calm`: where the epoch stays, the batch stays or goes for good, and a
batch that stays can only be registered, which moves its clicks inside
PostgreSQL. `SeenInv` and `FoundInv` say what the first snapshot and the query
know of the present where nothing has moved; two equal snapshots are that case.

`ClickStreamProofs`, for any number of loops, messages, attempts and faults:

| Theorem | Statement |
|---|---|
| `StreamTypes` | `Spec => []TypeOK` |
| `MessagesAreKept` | `Spec => []NothingLost` |
| `MessagesAreStoredOnce` | `Spec => []StoredOnce` |
| `DropsHaveReasons` | `Spec => []DropsAreEarned` |
| `StreamImplementsDelivery` | `Spec => ImplementsDelivery` |

`IInv` adds that a read leaves no gap (`OrderInv`), that what a handler is about
to acknowledge is stored (`WorkInv`), and that each delivery of a pending
message has either gone wrong or is the one in somebody's hand, who has not let
it become idle (`TriesInv`, `DropsInv`). The last one is why a dropped message
has failed all its deliveries but perhaps the last.

For the refinement `TriedInv` adds three facts: what a handler holds was delivered,
what the dead-letter loop is about to drop was delivered `MaxAttempts` times (its
list may be old, but tries never fall), and what was trimmed has `MaxLen` newer
messages. Reading leaves `open` as it is, because a read has no gap; an
acknowledgement closes what is stored or unreadable (`AckSettles`), also when the
handler was overtaken by another; the dead-letter loop gives up (`DropGivesUp`);
and an insert stores, of what it inserts, the messages without a row
(`InsertStores`).

`ApiProcessProofs`, for any number of requests, any queue and any retry window
(`BootSpec` is a process without fairness):

| Theorem | Statement |
|---|---|
| `ClicksAreCounted` | `Spec => []EveryClickCounted` (of `ClickQueue`) |
| `GracefulExits` | `Spec => []GracefulExitCountsAll` (of `ClickQueue`) |
| `QueueIsTyped` | `Spec => []TypeOK` (of `ClickQueue`) |
| `ProcessHasTheQueue` | `BootSpec => Spec` |
| `StoresCloseLast` | `BootSpec => []ClosesLast` |
| `WindowIsUsed` | `BootSpec => []UsesItsWindow` |
| `ProcessIsTyped` | `BootSpec => []BootInv` |
| `ProbeIsFair` | `ProbeTimeout + 3 * RedisTimeout < CheckLimit` gives `ProbeSpec => []ProbeInv` |

The queue's invariant orders the shutdown (`OrderInv`: the writer drains only
after `run` returned) and says that after a graceful return nobody records
(`GracefulInv`); the process adds which stores are open at which stage
(`OpenInv`) and who has ended when they close (`CloseInv`). By
`ProcessHasTheQueue` the theorems about the queue hold of every process.

That no counter of the queue exceeds the number of requests takes two more facts
(`BoundInv`): the clicks handed over and the requests that may still hand over
one are together no more than all requests; and the queue never gets shorter
than `drain` left it, so that what was counted as left over is still in it.

The probe's invariant `ProbeStrong` knows for each call the latest moment at
which it begins, the sum of the limits before it. Without the hypothesis of
`ProbeIsFair` the conclusion is false, for the container's check gives up first;
the code's limits satisfy it: 3 s for PostgreSQL and three Redis calls of 0.2 s by
default (`cmd/api/main.go`, configuration) against the 4 s of the check.

`LinkCacheProofs`, for any number of processes and writes and any lifetimes:

| Theorem | Statement |
|---|---|
| `AnswersAreFresh` | `Spec => []StaleIsBounded` |
| `StaleEntriesHaveReasons` | `Spec => []StaleForAReason` |
| `CacheIsTyped` | `Spec => []TypeOK` |
| `CacheShowsRecent` | `Spec => ShowsRecent` |
| `GateKeepsTheCache` | `GateSpec => Spec` |
| `GateIsSafe` | `GateSpec => []GateInv` |

`AgeInv` is the strengthening: how long ago an entry's or a fetch's version was
replaced and how long it may still live add up to no more than the bound. Time
takes from the one what it adds to the other; a fetch that fills an entry trades
what is left of its own time for one lifetime.

The refinement maps the row to the version of `RecentLink` and needs both
invariants: `AgeInv` bounds what a lookup or the end of a fetch shows, and
`CacheMore` says that nothing shown is from the future. Commits are writes, ticks
are ticks, and the steps a visitor does not notice - a fetch that begins, reads
or is abandoned, an eviction that runs or fails - are stutters (`RecentStep`).

The password gate runs on the cache, and so do its proofs: each of its steps is
one of the cache or leaves the cache alone, so the cache's invariant holds below
it; `CacheMore` adds that no entry is newer than the row and that older versions were replaced
earlier (`AgesFall`). On top of them `GateStrong` says that a password version
names one password (`VersionNamesPassword`: it grows with the row, and versions
of the link with the same number have the same password) and that every cookie
was signed for an active version whose password its owner knew (`CookieIsEarned`). A
visitor who gets in with an old password, or through a closed link, was let in by an entry, whose age the
cache bounds.

`RequestProofs` is about what happens to one request. The domain snapshot, for any
number of requests, links and domains:

| Theorem | Statement |
|---|---|
| `SnapInvariance` | `SnapSpec => []SnapIInv` |
| `SnapshotsServeWell` | `SnapSpec => []SnapInv` |
| `SnapshotsOnlyGetNewer` | `SnapSpec => SnapSteps` |

The invariant says of each reading of the table, wherever it is held, that it
knows the domain of every link stored before it (`Sound`), and of the one
refresh in progress that it is in time and that what it has read is younger than
what it will replace (`RefreshOf`). `FlagInv` (the flag is up while somebody
refreshes) makes it the only one.

The rate limiter (any callers, rules, visitors, windows and faults), accounts (any
sessions, servers and clocks within the leeway) and answers (any number of
attempts and calls):

| Theorem | Statement |
|---|---|
| `RateInvariant`, `RateIsSafe` | `RateSpec => []RateStrong`, `RateSpec => []RateInv` |
| `AuthInvariant`, `AuthIsSafe` | `AuthSpec => []AuthStrong`, `AuthSpec => []AuthInv` |
| `AnswerInvariant`, `AnswerIsTrue` | `AnswerSpec => []AnswerStrong`, `AnswerSpec => []AnswerInv` |

`RateStrong` relates the counter in Redis to the history it cannot see:
`CountsAreHits` says that the executions recorded for a key in the window of its
counter are exactly as many as the counter says, that the requests this window let
through are no more than that, and that every other window of the key is over.
The lemma `BothCount` makes `INCREX` and the script two ways to take one such
step. A request is let through only while the counter is within the limit, at
which moment those let through before it are fewer still (`Decisions`).

`AuthStrong` makes every row the trace of one finished registration
(`RowsAreRegistrations`) and follows each request from what it was sent with
(`Stage`) to whose account it is about (`Owner`, `Mine`). Logins only ever compare
with a row that such a registration wrote, which is why a session belongs to who
knew its password. `WorksEverywhere` needs `ClocksAssumption`: two clocks differ
by no more than the leeway that `service/auth.go:185` subtracts from `nbf`.

`AnswerStrong` says of each point of a response whether recorder and connection
agree (`Agree`), and what the client was told of a failure (`ToldOf`): both are
decided at the point of failure, and nothing afterwards may change them. Trying
to prove it showed that the model's table from errors to statuses had
overlapping rows, of which the checker takes the first; the code is a sequence
of `if`s, and so is the table now.

`ReadProofs` is about reading in pieces, for any finite set of stream entries,
rows or clicks and any sizes of page and window:

| Theorem | Statement |
|---|---|
| `ScanInvariant`, `ScanIsSafe` | `ScanSpec => []ScanStrong`, `ScanSpec => []ScanInv` |
| `PagingInvariant`, `PagingIsSafe` | `PagingSpec => []PagingStrong`, `PagingSpec => []PagingInv` |
| `BucketsCoverAll` | the counts of `GROUP BY` add up to the number of rows |
| `StatsInvariant`, `StatsAreTrue` | `StatsSpec => []StatsStrong`, `StatsSpec => []StatsInv` |

The scan and the pages have the same argument: the order of the entries is
strict and total (lemmas on `Earlier` and `Before`), so a finite page has a last
entry, and all that is not behind it is still to come. For the scan, what was
due stays due until it is acknowledged (`StaysDue`) and is found if it lies
before the next page (`FoundSoFar`); for the lists, a row that was shown lies
behind the reader (`ShownIsBehind`) and one that stayed is ahead or was shown
(`KeptIsSeen`). The cursor is compared by its own columns, so that both hold
although the row it was taken from may be gone. For the statistics, clicks are
only added while a report is made, so a later query covers an earlier one.

These proofs need two things that this prover has no induction for: that a
finite ordered set has a last element, and that a fold does not depend on the
order of its steps. Both are shown by the smallest counterexample: the subsets of
a finite set are well-founded under inclusion
(`FS_StrictSubsetOrderingWellFounded`), so a claim that fails has a smallest set
where it fails, and one element less contradicts it.

`CodecProofs` proves `CodecIsRight`, `CodecSpec => []CodecInv`, for any radix, word
and byte size that the codecs are given, and for texts and lists of tags of any
length: `Decode` inverts `Encode`; it gives the number a text spells exactly
when that fits into a word, and refuses everything else; `IsPrivateHost` depends
on the number an address spells and not on its notation; and the tags that are stored are
the ones a filter finds, each once.

All four are recursive, and here too the smallest counterexample does the work.
`RecursionExists` shows once that a recursion which descends in a measure has a
function that obeys it; from it follow the equations of `Power`, `Encode`
(`DigitsIs`) and, by the number of elements, of every fold (`FoldExists`). A
fold over a sequence takes its largest index last (`MaxIs`, `PrefixIs`), so it
is a run through the sequence: `DecodeRuns`, `LoopRuns` and `KeepRuns` name what it
has computed after each prefix, and a first prefix at which the claim fails
contradicts the step. `NumberOf` adds its terms in whatever order; `LargestFirst`
and `SumRuns` make it such a run, which meets the one of `Decode` digit by digit
(`LoopIsNumber`). The guard of
`Decode` tells exactly whether one digit more still fits (`PushFits`), and as
numbers only grow on the way, a text is refused exactly when all of it does not
fit (`DecodeIs`).

All theorems assume nothing but the named assumptions of the modules (and
`ProbeIsFair` its hypothesis): limits are natural numbers, positive where the
code relies on it; a radix fits into its word; sets of requests, callers, rows, entries and clicks are
finite, as those of a running system are; the marks for "none" are not members of
the sets they are set apart from; clocks are within the leeway; and what a click
has in its columns are names the breakdown can order (`VisitsAssumption`).

What is only model-checked:

- liveness (`Settles`, `Drains`, `EndsOnSignal`, `SelfHeals`,
  `ExpiredGetsDisabled`): its proof needs fairness and `ENABLED`, which the
  prover does not support;
- the violations of section 5: a counterexample needs no proof.

## 5. Disagreements with the documentation

Five statements in comments are false of the code; each has a run in which TLC
shows the shortest behaviour. The last one is a bug.

- **Five deliveries tell poison from the rest** (`store/redis/stream.go:29-30`).
  `handleBatch` inserts a batch at once (`worker/clicks.go:447`); `XAUTOCLAIM`
  claims the same messages together again. A good click that was read with a
  rejected one fails with it five times and is dead-lettered without any
  transient failure (`stream_poison`).
- **`run` waits for requests in flight, so the drain is not early**
  (`httpx/server.go:61` and `:92`). When `Shutdown` times out
  (`httpx/server.go:88`), or the listener fails, `run` returns with handlers
  running, and their clicks meet a writer that has drained (`queue_early`).
- **After a create the cache necessarily agrees with the database**
  (`service/shortener.go:330-331`). A fetch that read before the insert
  committed writes its negative entry after the eviction; the new link answers
  404 for `negativeTTL` (`cache_create`). `StaleIsBounded` and `SelfHeals` are
  what does hold.

- **The sweep disables links that are expired and still active**
  (`store/postgres/link.go:363`). The update does not repeat the conditions of
  its sub-select. A link whose owner extends it between the two is answered 200
  with the new expiry and disabled all the same; a link deleted between them
  comes back as disabled, 410 instead of 404 (`lifecycle_sweep`).
  `DeletedForGood` and `OwnershipIsFinal` are what does hold.
- **Before `Stop`, the context given to `Start` is cancelled**
  (`worker/clicks.go:232`). With `WORKER_ENABLED`, `cmd/api` defers `Stop`
  (`cmd/api/main.go:199`) and cancels the context only by a signal; its
  `defer stop()` was registered first and runs last. If the listener fails
  (say, the port is taken), `run` waits in `Stop` for loops nobody has told to end: the
  process neither serves nor exits (`process_hang`).

Smaller ones, met while modelling; the models do what the code does:

- `ShortURL` falls back to the default host when the snapshot lacks the link's
  domain (`service/shortener.go:609`); on that host the code does not resolve.
  The same holds of a cold start, and a request for a custom host
  is resolved as the default domain while there is no snapshot.
- `optionalAuth` answers 401 to a bad token; its comment says that it goes on
  without identity (`httpx/middleware.go:71-72`).
- The limit of `ReapDeadLetters` bounds the entries it drops, not the ones it
  scans (`store/redis/stream.go:144-145`).
- `Stats.ForLink` fails when `TotalCounts` does, although its comment counts on
  a fallback (`service/stats.go:92-93`).
- `Recover` is outside `RequestID` and `AccessLog`: the answer to a panic has no
  request ID and leaves no entry in the access log.

## 6. What is not modelled

- Retries inside client libraries. go-redis may send a pipeline again after
  Redis ran it; in the models a click is an `INCR` that ran.
- Redis losing acknowledged writes when it restarts from its append-only file.
- A Redis command that was sent before its caller's deadline and runs long after
  it, for the cache: `StaleIsBounded` assumes that a `SET` runs within
  `resolveTimeout` of the fetch that sent it.
- Undecodable cache entries (they are lookups that find nothing), the values of
  the links, and the second domain check of `Resolve`: keys contain the domain,
  so one code of one domain is the unit.
- What a record contains: user agents, masked addresses, texts of
  messages; the GeoIP file.
- Referer hosts (a regular expression in SQL), the metrics page, QR codes, the
  password page: functions of one value, rendered.
- Matching of single strings: URL splitting, reserved words, user agents. Host
  names are taken as normalised, `shortHash` as telling paths apart, digests and
  signatures as sound; that both failures of `Login` take equally long is about
  time no model here has.
- Connection pools, environment parsing, JSON encoding, schema migrations; the
  constraints of the schema are used where a statement relies on them.
- The smoke test and the web front end, which are clients.

## 7. Plan

Done: the core (counts, totals, stream, queue, cache, lifecycle) with the
promises of its counts, its stream and its cache as specifications of their own, the
process around it, ten services, and proofs of every safety property the runs
check. `PasswordGate` composes what a write changes with who still sees the old
row; left is the rest of that composition, in which the writes of `LinkLifecycle`
are the ones that evict, so that who was allowed to write is part of the same step.
