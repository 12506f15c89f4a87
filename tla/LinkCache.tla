------------------------------ MODULE LinkCache ------------------------------
(***************************************************************************)
(* The cache-aside path of one short code in one domain: Resolve reads the *)
(* positive and the negative entry with one MGET and falls back to         *)
(* PostgreSQL through the process's singleflight, whose result is written  *)
(* back; every write of the link commits and then deletes both entries.    *)
(*                                                                         *)
(* The link's row is the number of its version, 0 while it does not exist. *)
(* PATCH, DELETE, claim and expiry differ in what they write, not in the   *)
(* order of their commit and their eviction: they are one action.  Rows    *)
(* are never removed, a deleted link is a version as any other.  Time      *)
(* passes in ticks; sets of at most one element stand for what may be      *)
(* absent.                                                                 *)
(***************************************************************************)
EXTENDS Naturals, FiniteSets

CONSTANTS
  Processes,    \* API processes, each with a singleflight group
  TTL,          \* cacheTTL, in ticks
  NegTTLs,      \* values of negativeTTL that occur
  Fetch,        \* resolveTimeout, in ticks
  MaxVersion,   \* bound: writes of the link
  MaxFaults     \* bound: evictions and commits that fail for their caller

ASSUME TimesAssumption  == TTL \in Nat \ {0} /\ Fetch \in Nat /\ NegTTLs \subseteq 0..TTL
ASSUME BoundsAssumption == MaxVersion \in Nat /\ MaxFaults \in Nat

Versions == 0..MaxVersion
MaxAge   == Fetch + TTL + 1

VARIABLES
  negTTL,     \* negativeTTL of this deployment
  row,        \* PostgreSQL: current version of the link
  link,       \* Redis: the positive entry
  miss,       \* Redis: the negative entry
  flight,     \* each process's fetch from the database
  unevicted,  \* versions committed, their eviction still to come
  \* history
  missed,     \* versions whose eviction failed or was never tried
  age,        \* ticks since each version was replaced, up to MaxAge
  answer,     \* last answer to a visitor: found, and how outdated
  faults

redisVars   == <<link, miss>>
historyVars == <<missed, age, answer, faults>>
vars == <<negTTL, row, redisVars, flight, unevicted, historyVars>>

Init ==
  /\ negTTL    \in NegTTLs
  /\ row       = 0
  /\ link      = {}
  /\ miss      = {}
  /\ flight    = [p \in Processes |-> {}]
  /\ unevicted = {}
  /\ missed    = {}
  /\ age       = [v \in Versions |-> 0]
  /\ answer    = [found |-> FALSE, late |-> 0]
  /\ faults    = 0

Fault == faults < MaxFaults /\ faults' = faults + 1

Answer(v) == answer' = [found |-> v > 0, late |-> age[v]]

(***************************************************************************)
(* Redis.  An expiration of 0 is no expiration.                            *)
(***************************************************************************)

\* A new entry; raced: it is out of date when it is written.
Entry(v, ttl) == [ver |-> v, left |-> ttl, raced |-> v # row]

Decay(S) == {IF e.left = 0 THEN e ELSE [e EXCEPT !.left = @ - 1] : e \in {x \in S : x.left # 1}}

Evict_PositiveOnly == link' = {} /\ UNCHANGED miss

Evict == link' = {} /\ miss' = {}

\* putCache: ttlFor is cut to what is left of the link's validity.
PutCache_NoGuard(v) ==
  /\ \E ttl \in 0..TTL : link' = {Entry(v, ttl)}
  /\ UNCHANGED miss

PutCache(v) ==
  /\ \E ttl \in 0..TTL : link' = IF ttl <= 0 THEN link ELSE {Entry(v, ttl)}
  /\ UNCHANGED miss

PutMissing_NoGuard == miss' = {Entry(0, negTTL)} /\ UNCHANGED link

PutMissing ==
  /\ miss' = IF negTTL <= 0 THEN miss ELSE {Entry(0, negTTL)}
  /\ UNCHANGED link

(***************************************************************************)
(* Resolve.                                                                *)
(***************************************************************************)

\* fromCache finds the positive entry ...
Hit_Sliding ==
  /\ \E e \in link : Answer(e.ver) /\ link' = {[e EXCEPT !.left = TTL]}
  /\ UNCHANGED <<negTTL, row, miss, flight, unevicted, missed, age, faults>>

Hit ==
  /\ \E e \in link : Answer(e.ver)
  /\ UNCHANGED <<negTTL, row, redisVars, flight, unevicted, missed, age, faults>>

\* ... or only the negative one.
HitMissing ==
  /\ link = {}
  /\ \E e \in miss : Answer(e.ver)
  /\ UNCHANGED <<negTTL, row, redisVars, flight, unevicted, missed, age, faults>>

\* A request whose lookup found nothing, a moment ago, or whose Redis call
\* failed; while a fetch is under way it only waits for its result.
StartFlight(p) ==
  /\ flight[p] = {}
  /\ flight' = [flight EXCEPT ![p] = {[stage |-> "read", ver |-> 0, left |-> Fetch]}]
  /\ UNCHANGED <<negTTL, row, redisVars, unevicted, historyVars>>

\* GetByCodeInDomain: soft-deleted rows are found too.
ReadRow(p) ==
  /\ \E f \in flight[p] :
       /\ f.stage = "read"
       /\ flight' = [flight EXCEPT ![p] = {[f EXCEPT !.stage = "put", !.ver = row]}]
  /\ UNCHANGED <<negTTL, row, redisVars, unevicted, historyVars>>

EndFlight(p) == flight' = [flight EXCEPT ![p] = {}]

\* The result is written back, whatever was committed or evicted since it
\* was read, and every waiting request gets it.
Fill(p) ==
  /\ \E f \in flight[p] :
       /\ f.stage = "put"
       /\ IF f.ver > 0 THEN PutCache(f.ver) ELSE PutMissing
       /\ Answer(f.ver)
  /\ EndFlight(p)
  /\ UNCHANGED <<negTTL, row, unevicted, missed, age, faults>>

\* Writing back fails: only logged.
FillFails(p) ==
  /\ \E f \in flight[p] : f.stage = "put" /\ Answer(f.ver)
  /\ EndFlight(p)
  /\ UNCHANGED <<negTTL, row, redisVars, unevicted, missed, age, faults>>

\* The query fails or times out, or the process dies.
Abandon(p) ==
  /\ flight[p] # {}
  /\ EndFlight(p)
  /\ UNCHANGED <<negTTL, row, redisVars, unevicted, historyVars>>

(***************************************************************************)
(* Writes of the link: Create, Update, Delete, Claim and expireLinks.      *)
(***************************************************************************)

Commit ==
  /\ row < MaxVersion
  /\ row' = row + 1
  /\ unevicted' = unevicted \cup {row'}
  /\ UNCHANGED <<negTTL, redisVars, flight, historyVars>>

\* The commit answers with an error (timeout, visitor gone): no eviction.
CommitUnseen ==
  /\ row < MaxVersion
  /\ Fault
  /\ row' = row + 1
  /\ missed' = missed \cup {row'}
  /\ UNCHANGED <<negTTL, redisVars, flight, unevicted, age, answer>>

EvictAfter(v) ==
  /\ v \in unevicted
  /\ Evict
  /\ unevicted' = unevicted \ {v}
  /\ UNCHANGED <<negTTL, row, flight, historyVars>>

\* The eviction fails, executed or not, or its process dies: only logged.
EvictFails(v) ==
  /\ v \in unevicted
  /\ Fault
  /\ Evict \/ UNCHANGED redisVars
  /\ unevicted' = unevicted \ {v}
  /\ missed'    = missed \cup {v}
  /\ UNCHANGED <<negTTL, row, flight, age, answer>>

(***************************************************************************)
(* The specification.                                                      *)
(***************************************************************************)

Tick_NoTimeout ==
  /\ link'   = Decay(link)
  /\ miss'   = Decay(miss)
  /\ flight' = [p \in Processes |-> {[f EXCEPT !.left = IF @ = 0 THEN 0 ELSE @ - 1] : f \in flight[p]}]
  /\ age'    = [v \in Versions |-> IF v < row /\ age[v] < MaxAge THEN age[v] + 1 ELSE age[v]]
  /\ UNCHANGED <<negTTL, row, unevicted, missed, answer, faults>>

\* A fetch that has used up its time ends before the clock moves on.
Tick ==
  /\ \A p \in Processes : \A f \in flight[p] : f.left > 0
  /\ link'   = Decay(link)
  /\ miss'   = Decay(miss)
  /\ flight' = [p \in Processes |-> {[f EXCEPT !.left = @ - 1] : f \in flight[p]}]
  /\ age'    = [v \in Versions |-> IF v < row /\ age[v] < MaxAge THEN age[v] + 1 ELSE age[v]]
  /\ UNCHANGED <<negTTL, row, unevicted, missed, answer, faults>>

Proceed(p) == ReadRow(p) \/ Fill(p) \/ FillFails(p) \/ Abandon(p)

Next ==
  \/ Hit \/ HitMissing \/ Commit \/ CommitUnseen \/ Tick
  \/ \E p \in Processes : StartFlight(p) \/ Proceed(p)
  \/ \E v \in Versions : EvictAfter(v) \/ EvictFails(v)

Spec == Init /\ [][Next]_vars

\* Time passes, and a fetch ends within its timeout.  Nothing is assumed
\* of evictions: entries have to heal without them.
FairSpec == Spec /\ WF_vars(Tick) /\ \A p \in Processes : WF_vars(Proceed(p))

(***************************************************************************)
(* Properties.                                                             *)
(***************************************************************************)

\* Every variable has its type: in particular every entry has an expiration.
TypeOK ==
  /\ negTTL    \in NegTTLs
  /\ row       \in Versions
  /\ link      \subseteq [ver : Versions, left : 1..TTL, raced : BOOLEAN]
  /\ miss      \subseteq [ver : {0}, left : 1..TTL, raced : BOOLEAN]
  /\ Cardinality(link) <= 1
  /\ Cardinality(miss) <= 1
  /\ \A p \in Processes :
       /\ flight[p] \subseteq [stage : {"read", "put"}, ver : Versions, left : 0..Fetch]
       /\ Cardinality(flight[p]) <= 1
  /\ unevicted \subseteq Versions
  /\ missed    \subseteq Versions
  /\ age       \in [Versions -> 0..MaxAge]
  /\ answer    \in [found : BOOLEAN, late : 0..MaxAge]
  /\ faults    \in 0..MaxFaults

\* Whatever fails or races, a visitor is never answered with a version of
\* the link that was replaced longer ago than one fetch and the lifetime of
\* the entry it may have left behind.
StaleIsBounded ==
  answer.late <= Fetch + (IF answer.found THEN TTL ELSE negTTL)

\* The cache keeps the promise of RecentLink, with the lag of StaleIsBounded:
\* entries, fetches and evictions are nothing a visitor could notice.
Recent == INSTANCE RecentLink
            WITH Lag <- Fetch + TTL, missLag <- Fetch + negTTL,
                 current <- row, ended <- age, shown <- answer

ShowsRecent == Recent!Spec

Stale(e) == e.ver # row

\* An entry is out of date only because a later write has yet to evict, or
\* failed to, or because it was already out of date when it was written.
StaleForAReason ==
  \A e \in link \cup miss :
    Stale(e) => e.raced \/ \E v \in unevicted \cup missed : v > e.ver

Agrees == \A e \in link \cup miss : ~Stale(e)

\* shortener.go:859: after the last write the cache heals by itself, even
\* when evictions failed or were overtaken by a fetch.
SelfHeals == <>[]Agrees

\* shortener.go:330-331: once creating has succeeded, the cache agrees with
\* the database.
CreatedMeansConsistent == row = 1 /\ unevicted = {} /\ missed = {} => Agrees

=============================================================================
