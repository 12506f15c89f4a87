-------------------------- MODULE LinkCacheProofs --------------------------
(***************************************************************************)
(* Theorems about LinkCache, for any number of processes and writes and    *)
(* any lifetimes: how old an answer can be, and why an entry is outdated.  *)
(***************************************************************************)
EXTENDS PasswordGate, FiniteSetTheorems, TLAPS

Links    == [ver : 1..MaxVersion, left : 1..TTL, raced : BOOLEAN]
Misses   == [ver : {0}, left : 1..TTL, raced : BOOLEAN]
Flights  == [stage : {"read", "put"}, ver : Versions, left : 0..Fetch]

CacheTypes ==
  /\ negTTL \in NegTTLs
  /\ row \in Versions
  /\ link \subseteq Links
  /\ miss \subseteq Misses
  /\ flight \in [Processes -> SUBSET Flights]
  /\ unevicted \subseteq Versions
  /\ missed \subseteq Versions
  /\ age \in [Versions -> Nat]

\* The present version has not aged; what an entry or a fetch still may live and
\* what its version has aged together stay within the bound.
AgeInv ==
  /\ \A v \in Versions : v >= row => age[v] = 0
  /\ \A e \in link : age[e.ver] + e.left <= Fetch + TTL
  /\ \A e \in miss : age[e.ver] + e.left <= Fetch + negTTL
  /\ \A p \in Processes : \A f \in flight[p] :
       f.stage = "put" => age[f.ver] + f.left <= Fetch

CacheInv == CacheTypes /\ AgeInv /\ StaleIsBounded /\ StaleForAReason

LEMMA Times ==
  /\ TTL \in Nat \ {0} /\ Fetch \in Nat /\ MaxVersion \in Nat
  /\ \A n \in NegTTLs : n \in Nat /\ n <= TTL
BY TimesAssumption, BoundsAssumption

LEMMA CacheStart == Init => CacheInv
BY Times DEF Init, CacheInv, CacheTypes, AgeInv, StaleIsBounded, StaleForAReason, Versions

(***************************************************************************)
(* Steps that leave the entries alone.                                     *)
(***************************************************************************)

\* A reason to be outdated stays one while versions only join the unevicted and
\* the missed, or move from one to the other.
LEMMA ReasonsStay ==
  ASSUME CacheTypes, StaleForAReason, UNCHANGED <<link, miss>>,
         unevicted \cup missed \subseteq unevicted' \cup missed',
         row' = row \/ (row' = row + 1 /\ row' \in unevicted' \cup missed')
  PROVE  StaleForAReason'
<1> SUFFICES ASSUME NEW e \in link \cup miss, e.ver # row'
             PROVE  e.raced \/ \E v \in unevicted' \cup missed' : v > e.ver
  BY DEF StaleForAReason, Stale
<1>1. CASE e.ver # row
  BY <1>1 DEF StaleForAReason, Stale
<1>2. CASE e.ver = row
  <2>1. row' > e.ver
    BY <1>2, Times DEF CacheTypes, Versions
  <2> QED
    BY <1>2, <2>1
<1> QED
  BY <1>1, <1>2

\* A fetch begins, reads, or ends without writing anything back.
LEMMA FlightStep ==
  ASSUME CacheInv, UNCHANGED <<negTTL, row, link, miss, unevicted, missed, age, answer>>,
         flight' \in [Processes -> SUBSET Flights],
         \A p \in Processes : \A f \in flight'[p] :
            f.stage = "put" => f \in flight[p] \/ f.ver = row
  PROVE  CacheInv'
<1> USE DEF CacheInv
<1>1. CacheTypes'
  BY DEF CacheTypes
<1>2. AgeInv'
  <2>1. ASSUME NEW p \in Processes, NEW f \in flight'[p], f.stage = "put"
        PROVE  age[f.ver] + f.left <= Fetch
    <3>1. f.left \in 0..Fetch
      BY <2>1 DEF Flights
    <3>2. CASE f.ver = row
      BY <3>1, <3>2, Times DEF AgeInv, CacheTypes, Versions
    <3> QED
      BY <2>1, <3>2 DEF AgeInv
  <2> QED
    BY <2>1 DEF AgeInv
<1> QED
  BY <1>1, <1>2 DEF StaleIsBounded, StaleForAReason, Stale

\* A visitor is answered from an entry, or with what a fetch has read.
LEMMA AnswerIsBounded ==
  ASSUME CacheInv, NEW v \in Versions, Answer(v), UNCHANGED negTTL,
         \/ age[v] <= Fetch
         \/ v > 0 /\ age[v] <= Fetch + TTL
         \/ v = 0 /\ age[v] <= Fetch + negTTL
  PROVE  StaleIsBounded'
<1>1. age[v] \in Nat /\ negTTL \in Nat /\ negTTL' = negTTL
  BY Times DEF CacheInv, CacheTypes
<1>2. CASE v > 0
  <2>1. answer' = [found |-> TRUE, late |-> age[v]]
    BY <1>2 DEF Answer
  <2> QED
    BY <1>1, <1>2, <2>1, Times DEF StaleIsBounded, Versions
<1>3. CASE v = 0
  <2>0. (v > 0) = FALSE
    BY <1>3
  <2>1. answer' = [found |-> FALSE, late |-> age[v]]
    BY <2>0, Zenon DEF Answer
  <2> QED
    BY <1>1, <1>3, <2>1, Times DEF StaleIsBounded
<1> QED
  BY <1>2, <1>3, Times DEF Versions

LEMMA HitStep ==
  ASSUME CacheInv, Hit \/ HitMissing
  PROVE  CacheInv'
<1> USE DEF CacheInv
<1>1. PICK e \in link \cup miss : Answer(e.ver) /\ (e \in link \/ e \in miss)
  BY DEF Hit, HitMissing
<1>2. UNCHANGED <<negTTL, row, link, miss, flight, unevicted, missed, age>>
  BY DEF Hit, HitMissing, redisVars
<1>3. StaleIsBounded'
  <2>1. CASE e \in link
    <3>1. e.ver \in Versions /\ e.ver > 0 /\ e.left \in Nat /\ age[e.ver] \in Nat
      BY <2>1, Times DEF CacheTypes, Links, Versions
    <3>2. age[e.ver] <= Fetch + TTL
      BY <2>1, <3>1, Times DEF AgeInv
    <3> QED
      BY <1>1, <1>2, <3>1, <3>2, AnswerIsBounded
  <2>2. CASE e \in miss
    <3>1. e.ver \in Versions /\ e.ver = 0 /\ e.left \in Nat /\ age[e.ver] \in Nat /\ negTTL \in Nat
      BY <2>2, Times DEF CacheTypes, Misses, Versions
    <3>2. age[e.ver] <= Fetch + negTTL
      BY <2>2, <3>1, Times DEF AgeInv
    <3> QED
      BY <1>1, <1>2, <3>1, <3>2, AnswerIsBounded
  <2> QED
    BY <1>1, <2>1, <2>2
<1> QED
  BY <1>2, <1>3 DEF CacheTypes, AgeInv, StaleForAReason, Stale

(***************************************************************************)
(* Writing back.                                                           *)
(***************************************************************************)

\* A new entry is current, or says that it is not.
LEMMA EntryIs ==
  ASSUME NEW v, NEW t
  PROVE  /\ Entry(v, t).ver = v /\ Entry(v, t).left = t
         /\ v # row => Entry(v, t).raced
         /\ \A V, T : v \in V /\ t \in T => Entry(v, t) \in [ver : V, left : T, raced : BOOLEAN]
BY DEF Entry

LEMMA FillStep ==
  ASSUME CacheInv, NEW p \in Processes, Fill(p) \/ FillFails(p)
  PROVE  CacheInv'
<1> USE DEF CacheInv
<1>1. PICK f \in flight[p] :
        /\ f.stage = "put" /\ Answer(f.ver)
        /\ \/ UNCHANGED <<link, miss>>
           \/ f.ver > 0 /\ PutCache(f.ver)
           \/ f.ver = 0 /\ PutMissing
  <2>1. \A f \in flight[p] : f.ver \in Nat
    BY Times DEF CacheTypes, Flights, Versions
  <2> QED
    BY <2>1 DEF Fill, FillFails, redisVars
<1>2. /\ UNCHANGED <<negTTL, row, unevicted, missed, age>>
      /\ flight' = [flight EXCEPT ![p] = {}]
  BY DEF Fill, FillFails, EndFlight
<1>3. /\ f.ver \in Versions /\ f.left \in Nat /\ age[f.ver] \in Nat
      /\ age[f.ver] <= Fetch /\ negTTL \in Nat /\ negTTL <= TTL
  BY <1>1, Times DEF CacheTypes, Flights, AgeInv, Versions
<1>4. StaleIsBounded'
  BY <1>1, <1>2, <1>3, AnswerIsBounded
<1>5. /\ link' = link \/ \E ttl \in 1..TTL : f.ver > 0 /\ link' = {Entry(f.ver, ttl)}
      /\ miss' = miss \/ (negTTL > 0 /\ f.ver = 0 /\ miss' = {Entry(0, negTTL)})
  <2>1. CASE UNCHANGED <<link, miss>>
    BY <2>1
  <2>2. CASE f.ver > 0 /\ PutCache(f.ver)
    <3>1. PICK ttl \in 0..TTL : link' = IF ttl <= 0 THEN link ELSE {Entry(f.ver, ttl)}
      BY <2>2 DEF PutCache
    <3>2. link' = link \/ (ttl \in 1..TTL /\ link' = {Entry(f.ver, ttl)})
      BY <3>1, Times
    <3> QED
      BY <2>2, <3>2 DEF PutCache
  <2>3. CASE f.ver = 0 /\ PutMissing
    BY <1>3, <2>3 DEF PutMissing
  <2> QED
    BY <1>1, <2>1, <2>2, <2>3
<1>6. \A e \in link' : e \in link \/ (e.ver = f.ver /\ e.left \in 1..TTL /\ e \in Links /\ (e.ver # row => e.raced))
  <2> SUFFICES ASSUME NEW ttl \in 1..TTL, f.ver > 0
               PROVE  LET e == Entry(f.ver, ttl)
                      IN  e.ver = f.ver /\ e.left \in 1..TTL /\ e \in Links /\ (e.ver # row => e.raced)
    BY <1>5
  <2>1. f.ver \in 1..MaxVersion
    BY <1>3, Times DEF Versions
  <2> QED
    BY <2>1, EntryIs DEF Links
<1>7. \A e \in miss' : e \in miss \/ (f.ver = 0 /\ e.ver = 0 /\ e.left = negTTL /\ e \in Misses /\ (e.ver # row => e.raced))
  <2> SUFFICES ASSUME negTTL > 0
               PROVE  LET e == Entry(0, negTTL)
                      IN  e.ver = 0 /\ e.left = negTTL /\ e \in Misses /\ (e.ver # row => e.raced)
    BY <1>5
  <2>1. negTTL \in 1..TTL /\ 0 \in {0}
    BY <1>3, Times
  <2> QED
    BY <2>1, EntryIs DEF Misses
<1>8. CacheTypes'
  BY <1>2, <1>6, <1>7 DEF CacheTypes
<1>9. AgeInv'
  <2>1. ASSUME NEW e \in link' PROVE age[e.ver] + e.left <= Fetch + TTL
    <3>1. CASE e \in link
      BY <3>1 DEF AgeInv
    <3>2. CASE e.ver = f.ver /\ e.left \in 1..TTL
      BY <1>3, <3>2, Times
    <3> QED
      BY <1>6, <3>1, <3>2
  <2>2. ASSUME NEW e \in miss' PROVE age[e.ver] + e.left <= Fetch + negTTL
    <3>1. CASE e \in miss
      BY <3>1 DEF AgeInv
    <3>2. CASE f.ver = 0 /\ e.ver = 0 /\ e.left = negTTL
      BY <1>3, <3>2, Times
    <3> QED
      BY <1>7, <3>1, <3>2
  <2>3. \A q \in Processes : flight'[q] \subseteq flight[q]
    BY <1>2 DEF CacheTypes
  <2> QED
    BY <1>2, <2>1, <2>2, <2>3 DEF AgeInv
<1>10. StaleForAReason'
  BY <1>2, <1>6, <1>7 DEF StaleForAReason, Stale
<1> QED
  BY <1>4, <1>8, <1>9, <1>10

(***************************************************************************)
(* Writes of the link, and time.                                           *)
(***************************************************************************)

LEMMA CommitStep ==
  ASSUME CacheInv, Commit \/ CommitUnseen
  PROVE  CacheInv'
<1> USE DEF CacheInv
<1>1. /\ row < MaxVersion /\ row' = row + 1
      /\ UNCHANGED <<negTTL, link, miss, flight, age, answer>>
  BY DEF Commit, CommitUnseen, redisVars, historyVars
<1>2. row' \in Versions
  BY <1>1, Times DEF CacheTypes, Versions
<1>3. /\ unevicted \cup missed \subseteq unevicted' \cup missed'
      /\ row' \in unevicted' \cup missed'
      /\ unevicted' \subseteq unevicted \cup {row'} /\ missed' \subseteq missed \cup {row'}
  BY DEF Commit, CommitUnseen, historyVars
<1>4. CacheTypes'
  BY <1>1, <1>2, <1>3 DEF CacheTypes
<1>5. AgeInv'
  <2>1. \A v \in Versions : v >= row' => age[v] = 0
    BY <1>1, Times DEF AgeInv, CacheTypes, Versions
  <2> QED
    BY <1>1, <2>1 DEF AgeInv
<1>6. StaleForAReason'
  BY <1>1, <1>3, ReasonsStay
<1> QED
  BY <1>1, <1>4, <1>5, <1>6 DEF StaleIsBounded

LEMMA EvictStep ==
  ASSUME CacheInv, NEW v \in Versions, EvictAfter(v) \/ EvictFails(v)
  PROVE  CacheInv'
<1> USE DEF CacheInv
<1>1. /\ UNCHANGED <<negTTL, row, flight, age, answer>>
      /\ unevicted' = unevicted \ {v} /\ missed' \in {missed, missed \cup {v}}
      /\ \/ link' = {} /\ miss' = {}
         \/ UNCHANGED <<link, miss>> /\ missed' = missed \cup {v}
  BY DEF EvictAfter, EvictFails, Evict, redisVars, historyVars
<1>2. CacheTypes'
  BY <1>1 DEF CacheTypes
<1>3. AgeInv'
  BY <1>1 DEF AgeInv
<1>4. StaleForAReason'
  <2>1. CASE link' = {} /\ miss' = {}
    BY <2>1 DEF StaleForAReason
  <2>2. CASE UNCHANGED <<link, miss>> /\ missed' = missed \cup {v}
    BY <1>1, <2>2, ReasonsStay
  <2> QED
    BY <1>1, <2>1, <2>2
<1> QED
  BY <1>1, <1>2, <1>3, <1>4 DEF StaleIsBounded

\* An entry that is there after a tick was there before, with one tick more.
LEMMA DecayOf ==
  ASSUME NEW S, NEW m \in Nat, NEW V, S \subseteq [ver : V, left : 1..m, raced : BOOLEAN],
         NEW e \in Decay(S)
  PROVE  /\ e \in [ver : V, left : 1..m, raced : BOOLEAN]
         /\ \E x \in S : e.ver = x.ver /\ e.raced = x.raced /\ e.left = x.left - 1
<1>1. PICK x \in S : x.left # 1 /\ e = IF x.left = 0 THEN x ELSE [x EXCEPT !.left = @ - 1]
  BY DEF Decay
<1>2. x \in [ver : V, left : 1..m, raced : BOOLEAN] /\ x.left \in 1..m
  OBVIOUS
<1>3. e = [x EXCEPT !.left = @ - 1]
  BY <1>1, <1>2
<1>4. e.ver = x.ver /\ e.raced = x.raced /\ e.left = x.left - 1
  BY <1>2, <1>3
<1>5. x.left - 1 \in 1..m
  BY <1>1, <1>2
<1> QED
  BY <1>2, <1>3, <1>4, <1>5

LEMMA TickStep ==
  ASSUME CacheInv, Tick
  PROVE  CacheInv'
<1> USE DEF CacheInv
<1>1. /\ UNCHANGED <<negTTL, row, unevicted, missed, answer>>
      /\ link' = Decay(link) /\ miss' = Decay(miss)
      /\ flight' = [p \in Processes |-> {[f EXCEPT !.left = @ - 1] : f \in flight[p]}]
      /\ age' = [v \in Versions |-> IF v < row /\ age[v] < MaxAge THEN age[v] + 1 ELSE age[v]]
      /\ \A p \in Processes : \A f \in flight[p] : f.left > 0
  BY DEF Tick
<1>2. /\ age' \in [Versions -> Nat]
      /\ \A v \in Versions : age'[v] \in {age[v], age[v] + 1} /\ age[v] \in Nat
      /\ \A v \in Versions : v >= row => age'[v] = age[v]
  BY <1>1, Times DEF CacheTypes, Versions
<1>3. /\ \A e \in link' : e \in Links /\ \E x \in link :
            e.ver = x.ver /\ e.raced = x.raced /\ e.left = x.left - 1
      /\ \A e \in miss' : e \in Misses /\ \E x \in miss :
            e.ver = x.ver /\ e.raced = x.raced /\ e.left = x.left - 1
  <2>1. ASSUME NEW e \in Decay(link)
        PROVE  e \in Links /\ \E x \in link : e.ver = x.ver /\ e.raced = x.raced /\ e.left = x.left - 1
    <3>1. link \subseteq [ver : 1..MaxVersion, left : 1..TTL, raced : BOOLEAN] /\ TTL \in Nat
      BY Times DEF CacheTypes, Links
    <3> DEFINE V == 1..MaxVersion
    <3> HIDE DEF V
    <3>2. link \subseteq [ver : V, left : 1..TTL, raced : BOOLEAN]
      BY <3>1 DEF V
    <3> DEFINE S == link
    <3>3. S \subseteq [ver : V, left : 1..TTL, raced : BOOLEAN] /\ e \in Decay(S)
      BY <2>1, <3>2
    <3> HIDE DEF S
    <3>4. /\ e \in [ver : V, left : 1..TTL, raced : BOOLEAN]
          /\ \E x \in S : e.ver = x.ver /\ e.raced = x.raced /\ e.left = x.left - 1
      BY <3>1, <3>3, DecayOf, SMTT(30)
    <3> QED
      BY <3>4 DEF Links, S, V
  <2>2. ASSUME NEW e \in Decay(miss)
        PROVE  e \in Misses /\ \E x \in miss : e.ver = x.ver /\ e.raced = x.raced /\ e.left = x.left - 1
    <3>1. miss \subseteq [ver : {0}, left : 1..TTL, raced : BOOLEAN] /\ TTL \in Nat
      BY Times DEF CacheTypes, Misses
    <3> DEFINE V == {0}
    <3> HIDE DEF V
    <3>2. miss \subseteq [ver : V, left : 1..TTL, raced : BOOLEAN]
      BY <3>1 DEF V
    <3>3. /\ e \in [ver : V, left : 1..TTL, raced : BOOLEAN]
          /\ \E x \in miss : e.ver = x.ver /\ e.raced = x.raced /\ e.left = x.left - 1
      BY <2>1, <3>1, <3>2, DecayOf
    <3> QED
      BY <3>3 DEF Misses, V
  <2> QED
    BY <1>1, <2>1, <2>2
<1>4. \A p \in Processes : \A f \in flight'[p] :
        /\ f \in Flights
        /\ \E g \in flight[p] : f.stage = g.stage /\ f.ver = g.ver /\ f.left = g.left - 1
  <2> SUFFICES ASSUME NEW p \in Processes, NEW f \in flight'[p]
               PROVE  /\ f \in Flights
                      /\ \E g \in flight[p] : f.stage = g.stage /\ f.ver = g.ver /\ f.left = g.left - 1
    OBVIOUS
  <2>1. PICK g \in flight[p] : f = [g EXCEPT !.left = @ - 1]
    BY <1>1
  <2>2. g \in Flights /\ g.left > 0
    BY <1>1 DEF CacheTypes
  <2> QED
    BY <2>1, <2>2, Times DEF Flights
<1>5. CacheTypes'
  <2>1. flight' \in [Processes -> SUBSET Flights]
    BY <1>1, <1>4
  <2> QED
    BY <1>1, <1>2, <1>3, <2>1 DEF CacheTypes
<1>6. AgeInv'
  <2>1. ASSUME NEW e \in link' PROVE age'[e.ver] + e.left <= Fetch + TTL
    <3>1. PICK x \in link : e.ver = x.ver /\ e.left = x.left - 1
      BY <1>3
    <3>2. x.ver \in Versions /\ x.left \in Nat /\ age[x.ver] + x.left <= Fetch + TTL
      BY Times DEF CacheTypes, AgeInv, Links, Versions
    <3> QED
      BY <1>2, <3>1, <3>2, Times
  <2>2. ASSUME NEW e \in miss' PROVE age'[e.ver] + e.left <= Fetch + negTTL
    <3>1. PICK x \in miss : e.ver = x.ver /\ e.left = x.left - 1
      BY <1>3
    <3>2. x.ver \in Versions /\ x.left \in Nat /\ age[x.ver] + x.left <= Fetch + negTTL /\ negTTL \in Nat
      BY Times DEF CacheTypes, AgeInv, Misses, Versions
    <3> QED
      BY <1>2, <3>1, <3>2, Times
  <2>3. ASSUME NEW p \in Processes, NEW f \in flight'[p], f.stage = "put"
        PROVE  age'[f.ver] + f.left <= Fetch
    <3>1. PICK g \in flight[p] : g.stage = "put" /\ f.ver = g.ver /\ f.left = g.left - 1
      BY <1>4, <2>3
    <3>2. g.ver \in Versions /\ g.left \in Nat /\ age[g.ver] + g.left <= Fetch
      BY <3>1, Times DEF CacheTypes, AgeInv, Flights
    <3> QED
      BY <1>2, <3>1, <3>2, Times
  <2> QED
    BY <1>1, <1>2, <2>1, <2>2, <2>3 DEF AgeInv
<1>7. StaleForAReason'
  BY <1>1, <1>3 DEF StaleForAReason, Stale
<1> QED
  BY <1>1, <1>5, <1>6, <1>7 DEF StaleIsBounded

LEMMA CacheStep == CacheInv /\ [Next]_vars => CacheInv'
<1> SUFFICES ASSUME CacheInv, [Next]_vars PROVE CacheInv'
  OBVIOUS
<1> USE DEF redisVars, historyVars
<1>1. ASSUME NEW p \in Processes, StartFlight(p) PROVE CacheInv'
  <2>1. [stage |-> "read", ver |-> 0, left |-> Fetch] \in Flights
    BY Times DEF Flights, Versions
  <2> QED
    BY <1>1, <2>1, FlightStep DEF StartFlight, CacheInv, CacheTypes
<1>2. ASSUME NEW p \in Processes, ReadRow(p) PROVE CacheInv'
  <2>1. PICK f \in flight[p] : flight' = [flight EXCEPT ![p] = {[f EXCEPT !.stage = "put", !.ver = row]}]
    BY <1>2 DEF ReadRow
  <2> DEFINE g == [f EXCEPT !.stage = "put", !.ver = row]
  <2>2. g \in Flights /\ g.ver = row
    <3>1. f \in Flights /\ row \in Versions
      BY DEF CacheInv, CacheTypes
    <3> QED
      BY <3>1 DEF Flights
  <2> HIDE DEF g
  <2>3. flight' = [flight EXCEPT ![p] = {g}]
    BY <2>1 DEF g
  <2> QED
    BY <1>2, <2>2, <2>3, FlightStep DEF ReadRow, CacheInv, CacheTypes
<1>3. ASSUME NEW p \in Processes, Abandon(p) PROVE CacheInv'
  BY <1>3, FlightStep DEF Abandon, EndFlight, CacheInv, CacheTypes
<1>4. CASE UNCHANGED vars
  BY <1>4 DEF vars, CacheInv, CacheTypes, AgeInv, StaleIsBounded, StaleForAReason, Stale
<1> QED
  BY <1>1, <1>2, <1>3, <1>4, HitStep, FillStep, CommitStep, EvictStep, TickStep
  DEF Next, Proceed

LEMMA CacheInvariance == Spec => []CacheInv
BY CacheStart, CacheStep, PTL DEF Spec

\* No visitor is answered with a version that was replaced longer ago than one
\* fetch and one lifetime, whatever fails and races.
THEOREM AnswersAreFresh == Spec => []StaleIsBounded
<1>1. CacheInv => StaleIsBounded
  BY DEF CacheInv
<1> QED
  BY CacheInvariance, <1>1, PTL

\* An outdated entry has a later write to blame that did not evict yet, or a fetch
\* that was overtaken.
THEOREM StaleEntriesHaveReasons == Spec => []StaleForAReason
<1>1. CacheInv => StaleForAReason
  BY DEF CacheInv
<1> QED
  BY CacheInvariance, <1>1, PTL

(***************************************************************************)
(* What else holds of the cache: there is one entry of a kind and one      *)
(* fetch of a process, nothing is from the future, and later versions have *)
(* aged less.                                                              *)
(***************************************************************************)

AtMostOne(S) == S = {} \/ \E x : S = {x}

OneOfEach == AtMostOne(link) /\ AtMostOne(miss) /\ \A p \in Processes : AtMostOne(flight[p])

HistoryTypes ==
  /\ age \in [Versions -> 0..MaxAge]
  /\ answer \in [found : BOOLEAN, late : 0..MaxAge]
  /\ faults \in 0..MaxFaults

NoneFromTheFuture ==
  /\ \A e \in link : e.ver <= row
  /\ \A p \in Processes : \A f \in flight[p] : f.ver <= row

AgesFall == \A u, v \in Versions : u <= v => age[v] <= age[u]

CacheMore == OneOfEach /\ HistoryTypes /\ NoneFromTheFuture /\ AgesFall

LEMMA MoreStart == Init => CacheMore
<1> SUFFICES ASSUME Init PROVE CacheMore
  OBVIOUS
<1>1. OneOfEach /\ NoneFromTheFuture
  BY DEF Init, OneOfEach, AtMostOne, NoneFromTheFuture
<1>2. HistoryTypes
  BY Times, BoundsAssumption DEF Init, HistoryTypes, MaxAge
<1>3. AgesFall
  BY DEF Init, AgesFall
<1> QED
  BY <1>1, <1>2, <1>3 DEF CacheMore

LEMMA AnswerIsTyped ==
  ASSUME CacheMore, NEW v \in Versions, Answer(v)
  PROVE  answer' \in [found : BOOLEAN, late : 0..MaxAge]
<1>1. age[v] \in 0..MaxAge
  BY DEF CacheMore, HistoryTypes
<1>2. (v > 0) = TRUE \/ (v > 0) = FALSE
  <2>1. CASE v > 0
    <3>1. (v > 0) = TRUE
      BY <2>1
    <3> QED
      BY <3>1
  <2>2. CASE ~(v > 0)
    <3>1. (v > 0) = FALSE
      BY <2>2
    <3> QED
      BY <3>1
  <2> QED
    BY <2>1, <2>2
<1>3. PICK b \in BOOLEAN : answer' = [found |-> b, late |-> age[v]]
  BY <1>2, Zenon DEF Answer
<1> QED
  BY <1>1, <1>3

\* A lookup, or a step of a fetch: entries and fetches are replaced by at most one.
LEMMA LookupMore ==
  ASSUME CacheInv, CacheMore, UNCHANGED <<row, age, faults>>,
         AtMostOne(link'), AtMostOne(miss'), \A p \in Processes : AtMostOne(flight'[p]),
         answer' = answer \/ \E v \in Versions : Answer(v),
         \A e \in link' : e.ver <= row,
         \A p \in Processes : \A f \in flight'[p] : f.ver <= row
  PROVE  CacheMore'
<1>1. OneOfEach' /\ NoneFromTheFuture' /\ AgesFall'
  BY DEF CacheMore, OneOfEach, NoneFromTheFuture, AgesFall
<1>2. answer' \in [found : BOOLEAN, late : 0..MaxAge]
  BY AnswerIsTyped DEF CacheMore, HistoryTypes
<1> QED
  BY <1>1, <1>2 DEF CacheMore, HistoryTypes

LEMMA HitMore ==
  ASSUME CacheInv, CacheMore, Hit \/ HitMissing
  PROVE  CacheMore'
<1>1. UNCHANGED <<row, link, miss, flight, age, faults>>
  BY DEF Hit, HitMissing, redisVars
<1>2. \A e \in link \cup miss : e.ver \in Versions
  BY Times DEF CacheInv, CacheTypes, Links, Misses, Versions
<1>3. \E v \in Versions : Answer(v)
  BY <1>2 DEF Hit, HitMissing
<1> QED
  BY <1>1, <1>3, LookupMore DEF CacheMore, OneOfEach, NoneFromTheFuture

LEMMA FillMore ==
  ASSUME CacheInv, CacheMore, NEW p \in Processes, Fill(p) \/ FillFails(p)
  PROVE  CacheMore'
<1>1. UNCHANGED <<row, age, faults>> /\ flight' = [flight EXCEPT ![p] = {}]
  BY DEF Fill, FillFails, EndFlight
<1>2. PICK f \in flight[p] : /\ Answer(f.ver)
                             /\ \/ UNCHANGED <<link, miss>>
                                \/ PutCache(f.ver) \/ PutMissing
  BY DEF Fill, FillFails, redisVars
<1>3. f.ver \in Versions /\ f.ver <= row
  BY DEF CacheInv, CacheTypes, Flights, CacheMore, NoneFromTheFuture
<1>4. /\ link' = link \/ \E t : link' = {Entry(f.ver, t)}
      /\ miss' = miss \/ miss' = {Entry(0, negTTL)}
  BY <1>2 DEF PutCache, PutMissing
<1>5. AtMostOne(link') /\ AtMostOne(miss')
  BY <1>4 DEF AtMostOne, CacheMore, OneOfEach
<1>6. \A e \in link' : e.ver <= row
  BY <1>3, <1>4, EntryIs DEF CacheMore, NoneFromTheFuture
<1>7. \A q \in Processes : flight'[q] = {} \/ flight'[q] = flight[q]
  BY <1>1 DEF CacheInv, CacheTypes
<1>8. \A q \in Processes : AtMostOne(flight'[q])
  BY <1>7 DEF AtMostOne, CacheMore, OneOfEach
<1>9. \A q \in Processes : \A g \in flight'[q] : g.ver <= row
  BY <1>7 DEF CacheMore, NoneFromTheFuture
<1> QED
  BY <1>1, <1>2, <1>3, <1>5, <1>6, <1>8, <1>9, LookupMore

LEMMA OneIsOne == AtMostOne({}) /\ \A x : AtMostOne({x})
BY DEF AtMostOne

LEMMA FetchMore ==
  ASSUME CacheInv, CacheMore, NEW p \in Processes, StartFlight(p) \/ ReadRow(p) \/ Abandon(p)
  PROVE  CacheMore'
<1>1. UNCHANGED <<row, link, miss, age, answer, faults>>
  BY DEF StartFlight, ReadRow, Abandon, redisVars, historyVars
<1>0. \A F : flight' = [flight EXCEPT ![p] = F] =>
             \A q \in Processes : flight'[q] = IF q = p THEN F ELSE flight[q]
  BY DEF CacheInv, CacheTypes
<1>2. PICK F : /\ \A q \in Processes : flight'[q] = IF q = p THEN F ELSE flight[q]
               /\ AtMostOne(F) /\ \A f \in F : f.ver <= row
  <2>1. CASE StartFlight(p)
    <3>1. row \in Nat
      BY Times DEF CacheInv, CacheTypes, Versions
    <3> DEFINE g == [stage |-> "read", ver |-> 0, left |-> Fetch]
    <3>2. flight' = [flight EXCEPT ![p] = {g}] /\ g.ver <= row
      BY <2>1, <3>1 DEF StartFlight
    <3> HIDE DEF g
    <3>3. \A f \in {g} : f.ver <= row
      BY <3>2
    <3> QED
      BY <1>0, <3>2, <3>3, OneIsOne, ZenonT(40)
  <2>2. CASE ReadRow(p)
    <3>1. PICK f \in flight[p] : flight' = [flight EXCEPT ![p] = {[f EXCEPT !.stage = "put", !.ver = row]}]
      BY <2>2 DEF ReadRow
    <3>2. [f EXCEPT !.stage = "put", !.ver = row].ver <= row
      BY Times DEF CacheInv, CacheTypes, Flights, Versions
    <3> DEFINE g == [f EXCEPT !.stage = "put", !.ver = row]
    <3>3. flight' = [flight EXCEPT ![p] = {g}] /\ g.ver <= row
      BY <3>1, <3>2
    <3> HIDE DEF g
    <3>4. \A h \in {g} : h.ver <= row
      BY <3>3
    <3> QED
      BY <1>0, <3>3, <3>4, OneIsOne, ZenonT(40)
  <2>3. CASE Abandon(p)
    <3>0. PICK none : none = {}
      OBVIOUS
    <3>1. flight' = [flight EXCEPT ![p] = none]
      BY <2>3, <3>0 DEF Abandon, EndFlight
    <3>2. AtMostOne(none) /\ \A f \in none : f.ver <= row
      BY <3>0, OneIsOne
    <3> QED
      BY <1>0, <3>1, <3>2, Zenon
  <2> QED
    BY <2>1, <2>2, <2>3
<1>4. \A q \in Processes : AtMostOne(flight'[q])
  BY <1>2 DEF CacheMore, OneOfEach
<1>5. \A q \in Processes : \A g \in flight'[q] : g.ver <= row
  BY <1>2 DEF CacheMore, NoneFromTheFuture
<1> QED
  BY <1>1, <1>4, <1>5, LookupMore DEF CacheMore, OneOfEach, NoneFromTheFuture

LEMMA CommitMore ==
  ASSUME CacheInv, CacheMore, Commit \/ CommitUnseen
  PROVE  CacheMore'
<1>1. UNCHANGED <<link, miss, flight, age, answer>> /\ row' = row + 1
  BY DEF Commit, CommitUnseen, redisVars, historyVars
<1>2. faults' \in 0..MaxFaults
  BY BoundsAssumption DEF Commit, CommitUnseen, historyVars, Fault, CacheMore, HistoryTypes
<1>3. row \in Nat /\ (\A e \in link : e.ver \in Nat) /\ \A p \in Processes : \A f \in flight[p] : f.ver \in Nat
  BY Times DEF CacheInv, CacheTypes, Links, Flights, Versions
<1>4. NoneFromTheFuture'
  BY <1>1, <1>3 DEF CacheMore, NoneFromTheFuture
<1> QED
  BY <1>1, <1>2, <1>4 DEF CacheMore, OneOfEach, HistoryTypes, AgesFall

LEMMA EvictMore ==
  ASSUME CacheInv, CacheMore, NEW v \in Versions, EvictAfter(v) \/ EvictFails(v)
  PROVE  CacheMore'
<1>1. /\ UNCHANGED <<row, flight, age, answer>>
      /\ \/ link' = {} /\ miss' = {}
         \/ UNCHANGED <<link, miss>>
  BY DEF EvictAfter, EvictFails, Evict, redisVars, historyVars
<1>2. faults' \in 0..MaxFaults
  BY BoundsAssumption DEF EvictAfter, EvictFails, historyVars, Fault, CacheMore, HistoryTypes
<1> QED
  BY <1>1, <1>2 DEF CacheMore, OneOfEach, HistoryTypes, NoneFromTheFuture, AgesFall, AtMostOne

LEMMA TickMore ==
  ASSUME CacheInv, CacheMore, Tick
  PROVE  CacheMore'
<1>1. /\ UNCHANGED <<row, answer, faults>>
      /\ link' = Decay(link) /\ miss' = Decay(miss)
      /\ flight' = [p \in Processes |-> {[f EXCEPT !.left = @ - 1] : f \in flight[p]}]
      /\ age' = [v \in Versions |-> IF v < row /\ age[v] < MaxAge THEN age[v] + 1 ELSE age[v]]
  BY DEF Tick
<1>2. OneOfEach'
  <2>1. \A S : AtMostOne(S) => AtMostOne(Decay(S))
    <3> SUFFICES ASSUME NEW S, AtMostOne(S) PROVE AtMostOne(Decay(S))
      OBVIOUS
    <3>1. CASE S = {}
      BY <3>1 DEF Decay, AtMostOne
    <3>2. ASSUME NEW x, S = {x} PROVE AtMostOne(Decay(S))
      <4>1. CASE x.left = 1
        <5>1. Decay(S) = {}
          BY <3>2, <4>1 DEF Decay
        <5> QED
          BY <5>1 DEF AtMostOne
      <4>2. CASE x.left # 1
        <5>1. Decay(S) = {IF x.left = 0 THEN x ELSE [x EXCEPT !.left = @ - 1]}
          BY <3>2, <4>2 DEF Decay
        <5> QED
          BY <5>1 DEF AtMostOne
      <4> QED
        BY <4>1, <4>2
    <3> QED
      BY <3>1, <3>2 DEF AtMostOne
  <2>2. ASSUME NEW p \in Processes PROVE AtMostOne(flight'[p])
    <3>1. flight'[p] = {[f EXCEPT !.left = @ - 1] : f \in flight[p]}
      BY <1>1
    <3>2. AtMostOne(flight[p])
      BY DEF CacheMore, OneOfEach
    <3>3. CASE flight[p] = {}
      BY <3>1, <3>3 DEF AtMostOne
    <3>4. ASSUME NEW x, flight[p] = {x} PROVE AtMostOne(flight'[p])
      <4>1. flight'[p] = {[x EXCEPT !.left = @ - 1]}
        BY <3>1, <3>4
      <4> QED
        BY <4>1 DEF AtMostOne
    <3> QED
      BY <3>2, <3>3, <3>4 DEF AtMostOne
  <2> QED
    BY <1>1, <2>1, <2>2 DEF CacheMore, OneOfEach
<1>3. row \in Nat /\ Versions \subseteq Nat /\ MaxAge \in Nat /\ \A v \in Versions : age[v] \in 0..MaxAge
  BY Times DEF CacheInv, CacheTypes, Versions, MaxAge, CacheMore, HistoryTypes
<1>4. HistoryTypes'
  BY <1>1, <1>3 DEF CacheMore, HistoryTypes
<1>5. NoneFromTheFuture'
  <2>1. ASSUME NEW e \in link' PROVE e.ver <= row
    <3>1. PICK x \in link : e = IF x.left = 0 THEN x ELSE [x EXCEPT !.left = @ - 1]
      BY <1>1 DEF Decay
    <3>2. x \in Links
      BY DEF CacheInv, CacheTypes
    <3>3. e.ver = x.ver
      BY <3>1, <3>2 DEF Links
    <3> QED
      BY <3>3 DEF CacheMore, NoneFromTheFuture
  <2>2. ASSUME NEW p \in Processes, NEW f \in flight'[p] PROVE f.ver <= row
    <3>1. PICK g \in flight[p] : f = [g EXCEPT !.left = @ - 1]
      BY <1>1
    <3>2. g \in Flights
      BY DEF CacheInv, CacheTypes
    <3>3. f.ver = g.ver
      BY <3>1, <3>2 DEF Flights
    <3> QED
      BY <3>3 DEF CacheMore, NoneFromTheFuture
  <2> QED
    BY <1>1, <2>1, <2>2 DEF NoneFromTheFuture
<1>6. AgesFall'
  <2> SUFFICES ASSUME NEW u \in Versions, NEW v \in Versions, u <= v
               PROVE  age'[v] <= age'[u]
    BY DEF AgesFall
  <2>1. /\ u \in Nat /\ v \in Nat /\ age[v] <= age[u]
        /\ age[u] \in 0..MaxAge /\ age[v] \in 0..MaxAge
        /\ (v >= row => age[v] = 0)
    BY <1>3 DEF CacheMore, AgesFall, CacheInv, AgeInv
  <2>2. /\ age'[u] = IF u < row /\ age[u] < MaxAge THEN age[u] + 1 ELSE age[u]
        /\ age'[v] = IF v < row /\ age[v] < MaxAge THEN age[v] + 1 ELSE age[v]
    BY <1>1
  <2> QED
    BY <1>3, <2>1, <2>2
<1> QED
  BY <1>2, <1>4, <1>5, <1>6 DEF CacheMore

LEMMA MoreStep == CacheInv /\ CacheMore /\ [Next]_vars => CacheMore'
<1>1. ASSUME CacheInv, CacheMore, UNCHANGED vars PROVE CacheMore'
  BY <1>1 DEF vars, redisVars, historyVars, CacheMore, OneOfEach, HistoryTypes, NoneFromTheFuture, AgesFall
<1> QED
  BY <1>1, HitMore, FillMore, FetchMore, CommitMore, EvictMore, TickMore DEF Next, Proceed

LEMMA OneIsFew ==
  ASSUME NEW S, AtMostOne(S)
  PROVE  Cardinality(S) <= 1
<1>1. Cardinality({}) = 0 /\ \A x : Cardinality({x}) = 1
  BY FS_EmptySet, FS_Singleton
<1>2. CASE S = {}
  BY <1>1, <1>2
<1>3. ASSUME NEW x, S = {x} PROVE Cardinality(S) <= 1
  <2>1. Cardinality(S) = 1
    BY <1>1, <1>3
  <2> QED
    BY <2>1
<1> QED
  BY <1>2, <1>3 DEF AtMostOne

\* Every variable has its type; in particular no entry is ever written without
\* an expiration, and a code has at most one entry of each kind.
THEOREM CacheIsTyped == Spec => []TypeOK
<1>1. CacheInv /\ CacheMore => TypeOK
  <2> SUFFICES ASSUME CacheInv, CacheMore PROVE TypeOK
    OBVIOUS
  <2>1. /\ link \subseteq [ver : Versions, left : 1..TTL, raced : BOOLEAN]
        /\ miss \subseteq [ver : {0}, left : 1..TTL, raced : BOOLEAN]
    BY Times DEF CacheInv, CacheTypes, Links, Misses, Versions
  <2>2. Cardinality(link) <= 1 /\ Cardinality(miss) <= 1 /\ \A p \in Processes : Cardinality(flight[p]) <= 1
    BY OneIsFew DEF CacheMore, OneOfEach
  <2>3. \A p \in Processes : flight[p] \subseteq [stage : {"read", "put"}, ver : Versions, left : 0..Fetch]
    BY DEF CacheInv, CacheTypes, Flights
  <2> QED
    BY <2>1, <2>2, <2>3 DEF TypeOK, CacheInv, CacheTypes, CacheMore, HistoryTypes
<1> QED
  BY <1>1, CacheStart, CacheStep, MoreStart, MoreStep, PTL DEF Spec

(***************************************************************************)
(* The cache keeps the promise of RecentLink.  Lookups and the ends of     *)
(* fetches show a version, commits write one, ticks are ticks; everything  *)
(* else a visitor does not notice.                                         *)
(***************************************************************************)

LEMMA RecentStart == Init => Recent!Init
<1> SUFFICES ASSUME Init PROVE Recent!Init
  OBVIOUS
<1>1. Fetch + negTTL \in 0..(Fetch + TTL)
  BY Times DEF Init
<1> QED
  BY <1>1 DEF Init, Recent!Init, Recent!Versions, Versions

\* What may be answered may be shown.
LEMMA AnswerShows ==
  ASSUME NEW v \in Versions, v <= row, Answer(v), UNCHANGED <<negTTL, row, age>>,
         \/ v > 0 /\ age[v] <= Fetch + TTL
         \/ v = 0 /\ age[v] <= Fetch + negTTL
  PROVE  Recent!Next
<1>1. age[v] <= IF v > 0 THEN Fetch + TTL ELSE Fetch + negTTL
  BY Times DEF Versions
<1>2. Recent!Show(v)
  BY <1>1 DEF Recent!Show, Answer
<1> QED
  BY <1>2 DEF Recent!Next, Recent!Versions, Versions

LEMMA LookupShows ==
  ASSUME CacheInv, CacheMore, Hit \/ HitMissing
  PROVE  Recent!Next
<1> USE DEF CacheInv
<1>0. UNCHANGED <<negTTL, row, age>>
  BY DEF Hit, HitMissing
<1>1. CASE Hit
  <2>1. PICK e \in link : Answer(e.ver)
    BY <1>1 DEF Hit
  <2>2. /\ e.ver \in Versions /\ e.ver > 0 /\ e.ver <= row
        /\ e.left \in Nat /\ age[e.ver] \in Nat /\ age[e.ver] + e.left <= Fetch + TTL
    BY Times DEF CacheTypes, Links, Versions, AgeInv, CacheMore, NoneFromTheFuture
  <2>3. age[e.ver] <= Fetch + TTL
    BY <2>2, Times
  <2> QED
    BY <1>0, <2>1, <2>2, <2>3, AnswerShows
<1>2. CASE HitMissing
  <2>1. PICK e \in miss : Answer(e.ver)
    BY <1>2 DEF HitMissing
  <2>2. /\ e.ver \in Versions /\ e.ver = 0 /\ e.ver <= row /\ negTTL \in Nat
        /\ e.left \in Nat /\ age[e.ver] \in Nat /\ age[e.ver] + e.left <= Fetch + negTTL
    BY Times DEF CacheTypes, Misses, Versions, AgeInv
  <2>3. age[e.ver] <= Fetch + negTTL
    BY <2>2, Times
  <2> QED
    BY <1>0, <2>1, <2>2, <2>3, AnswerShows
<1> QED
  BY <1>1, <1>2

LEMMA FetchShows ==
  ASSUME CacheInv, CacheMore, NEW p \in Processes, Fill(p) \/ FillFails(p)
  PROVE  Recent!Next
<1> USE DEF CacheInv
<1>1. PICK f \in flight[p] : f.stage = "put" /\ Answer(f.ver)
  BY DEF Fill, FillFails
<1>2. /\ f.ver \in Versions /\ f.ver <= row /\ negTTL \in Nat
      /\ f.left \in Nat /\ age[f.ver] \in Nat /\ age[f.ver] + f.left <= Fetch
  BY <1>1, Times DEF CacheTypes, Flights, AgeInv, CacheMore, NoneFromTheFuture
<1>3. age[f.ver] <= Fetch + TTL /\ age[f.ver] <= Fetch + negTTL /\ (f.ver > 0 \/ f.ver = 0)
  BY <1>2, Times DEF Versions
<1>4. UNCHANGED <<negTTL, row, age>>
  BY DEF Fill, FillFails
<1> QED
  BY <1>1, <1>2, <1>3, <1>4, AnswerShows

LEMMA RecentStep == CacheInv /\ CacheMore /\ [Next]_vars => [Recent!Next]_(Recent!vars)
<1> SUFFICES ASSUME CacheInv, CacheMore, [Next]_vars PROVE [Recent!Next]_(Recent!vars)
  OBVIOUS
<1>1. CASE Commit \/ CommitUnseen
  <2>1. Recent!Write
    BY <1>1 DEF Commit, CommitUnseen, Recent!Write, historyVars
  <2> QED
    BY <2>1 DEF Recent!Next
<1>2. CASE Tick
  <2>1. Recent!Tick
    BY <1>2 DEF Tick, Recent!Tick, Recent!Versions, Versions
  <2> QED
    BY <2>1 DEF Recent!Next
<1>3. ASSUME NEW p \in Processes, StartFlight(p) \/ ReadRow(p) \/ Abandon(p)
      PROVE  UNCHANGED Recent!vars
  BY <1>3 DEF StartFlight, ReadRow, Abandon, historyVars, Recent!vars
<1>4. ASSUME NEW v \in Versions, EvictAfter(v) \/ EvictFails(v)
      PROVE  UNCHANGED Recent!vars
  BY <1>4 DEF EvictAfter, EvictFails, historyVars, Recent!vars
<1>5. CASE UNCHANGED vars
  BY <1>5 DEF vars, historyVars, Recent!vars
<1> QED
  BY <1>1, <1>2, <1>3, <1>4, <1>5, LookupShows, FetchShows DEF Next, Proceed

\* Whatever processes, entries, fetches and failed evictions are between a
\* visitor and the link, its answers are those of RecentLink: a version of the
\* link, and not one that ended longer ago than its lag.
THEOREM CacheShowsRecent == Spec => ShowsRecent
<1>1. Init => CacheInv /\ CacheMore
  BY CacheStart, MoreStart
<1>2. CacheInv /\ CacheMore /\ [Next]_vars => (CacheInv /\ CacheMore)'
  BY CacheStep, MoreStep
<1> QED
  BY <1>1, <1>2, RecentStart, RecentStep, PTL DEF Spec, ShowsRecent, Recent!Spec

(***************************************************************************)
(* PasswordGate.  Its steps are steps of the cache.                        *)
(***************************************************************************)

LEMMA GateStepsAreCacheSteps ==
  ASSUME [GateNext]_<<vars, gateVars>> PROVE [Next]_vars
<1>1. CASE GateNext
  BY <1>1 DEF GateNext, Write, Visit, GateTick, Behind, Unlock, Next, Proceed
<1>2. CASE UNCHANGED <<vars, gateVars>>
  BY <1>2
<1> QED
  BY <1>1, <1>2

\* Whatever the password page and its cookies do, the cache below it behaves as
\* LinkCache says: so a protected link is no more outdated than any other.
THEOREM GateKeepsTheCache == GateSpec => Spec
<1>1. GateInit => Init
  BY DEF GateInit
<1> QED
  BY <1>1, GateStepsAreCacheSteps, PTL DEF GateSpec, Spec

GuardType == [active : BOOLEAN, password : LinkPasswords \cup {NoPassword}, version : Nat]
CookieType == [version : Nat, left : 0..UnlockTTL, given : LinkPasswords, at : Versions]

GuardShape ==
  /\ guard \in [Versions -> GuardType]
  /\ \A v \in Versions : guard[v].version <= v

\* password_version only grows, and names a password.
VersionNamesPassword ==
  \A u, v \in 1..row : u <= v =>
    /\ guard[u].version <= guard[v].version
    /\ guard[u].version = guard[v].version => guard[u].password = guard[v].password

\* A cookie was signed for a version of the link that was active and that its
\* owner knew the password of.
CookieIsEarned ==
  /\ AtMostOne(jar)
  /\ \A c \in jar : /\ c \in CookieType /\ c.at \in 1..row
                    /\ c.version = guard[c.at].version /\ guard[c.at].active
                    /\ guard[c.at].password \in {NoPassword, c.given}

GateStrong == GuardShape /\ VersionNamesPassword /\ CookieIsEarned

LEMMA GateStart == GateInit => GateStrong
<1> SUFFICES ASSUME GateInit PROVE GateStrong
  OBVIOUS
<1>1. row = 0 /\ jar = {} /\ guard = [v \in Versions |-> Unguarded]
  BY DEF GateInit, Init
<1>2. GuardShape
  BY <1>1, Times DEF GuardShape, GuardType, Unguarded, Versions
<1>3. VersionNamesPassword
  BY <1>1 DEF VersionNamesPassword
<1>4. CookieIsEarned
  BY <1>1, OneIsOne DEF CookieIsEarned
<1> QED
  BY <1>2, <1>3, <1>4 DEF GateStrong

\* Create and Update: the next version keeps the guard or has a new one.
LEMMA WriteGate ==
  ASSUME CacheInv, GateStrong, Write PROVE GateStrong'
<1>1. row' = row + 1 /\ row < MaxVersion /\ UNCHANGED jar
  BY DEF Write, Commit, CommitUnseen
<1>2. /\ row \in Nat /\ row \in Versions /\ row + 1 \in Versions /\ Versions \subseteq Nat
      /\ \A v \in 1..row : v \in Versions /\ v # row + 1 /\ v \in Nat
  BY <1>1, Times DEF CacheInv, CacheTypes, Versions
<1>3. PICK g : g \in Guards(guard[row]) /\ guard' = [guard EXCEPT ![row + 1] = g]
  BY DEF Write
<1>4. guard[row] \in GuardType /\ guard[row].version <= row
  BY <1>2 DEF GateStrong, GuardShape
<1>5. /\ g \in GuardType /\ g.version <= row + 1
      /\ row > 0 => \/ g.version = guard[row].version /\ g.password = guard[row].password
                    \/ g.version > guard[row].version
  <2>1. CASE row = 0
    <3>1. PICK p \in LinkPasswords \cup {NoPassword} : g = [guard[row] EXCEPT !.password = p]
      BY <1>3, <2>1 DEF Guards
    <3>2. g \in GuardType /\ g.version = guard[row].version
      BY <1>4, <3>1 DEF GuardType
    <3> QED
      BY <1>2, <1>4, <2>1, <3>2 DEF GuardType
  <2>2. CASE row # 0
    <3>1. PICK h \in {guard[row]} \cup {SetPassword(guard[row], p) : p \in LinkPasswords \cup {NoPassword}},
               b \in BOOLEAN :
            g = [h EXCEPT !.active = b]
      BY <1>3, <2>2 DEF Guards
    <3>2. /\ h \in GuardType /\ h.version <= row + 1
          /\ h = guard[row] \/ h.version > guard[row].version
      <4>1. CASE h = guard[row]
        BY <1>2, <1>4, <4>1 DEF GuardType
      <4>2. ASSUME NEW p \in LinkPasswords \cup {NoPassword}, h = SetPassword(guard[row], p)
            PROVE  h \in GuardType /\ h.version = guard[row].version + 1
        <5> DEFINE g0 == guard[row]
        <5>1. g0 \in GuardType /\ h = [g0 EXCEPT !.password = p, !.version = @ + 1]
          BY <1>4, <4>2 DEF SetPassword
        <5> HIDE DEF g0
        <5>2. PICK on \in BOOLEAN, q \in LinkPasswords \cup {NoPassword}, n \in Nat :
                g0 = [active |-> on, password |-> q, version |-> n]
          BY <5>1 DEF GuardType
        <5>3. h = [active |-> on, password |-> p, version |-> n + 1]
          BY <5>1, <5>2
        <5>4. h \in GuardType /\ h.version = g0.version + 1
          BY <5>2, <5>3 DEF GuardType
        <5> QED
          BY <5>4 DEF g0
      <4>3. guard[row].version \in Nat
        BY <1>4 DEF GuardType
      <4> QED
        BY <1>2, <1>4, <3>1, <4>1, <4>2, <4>3
    <3>3. g \in GuardType /\ g.version = h.version /\ g.password = h.password
      BY <3>1, <3>2 DEF GuardType
    <3> QED
      BY <3>2, <3>3
  <2> QED
    BY <2>1, <2>2
<1>6. guard'[row + 1] = g /\ \A v \in Versions : v # row + 1 => guard'[v] = guard[v]
  BY <1>2, <1>3 DEF GateStrong, GuardShape
<1>7. GuardShape'
  <2>1. guard' \in [Versions -> GuardType]
    BY <1>2, <1>3, <1>5 DEF GateStrong, GuardShape
  <2>2. ASSUME NEW v \in Versions PROVE guard'[v].version <= v
    BY <1>5, <1>6 DEF GateStrong, GuardShape
  <2> QED
    BY <2>1, <2>2 DEF GuardShape
<1>8. VersionNamesPassword'
  <2> SUFFICES ASSUME NEW u \in 1..row', NEW v \in 1..row', u <= v
               PROVE  /\ guard'[u].version <= guard'[v].version
                      /\ guard'[u].version = guard'[v].version => guard'[u].password = guard'[v].password
    BY DEF VersionNamesPassword
  <2>0. u \in Nat /\ v \in Nat /\ u > 0 /\ v > 0 /\ u <= row + 1 /\ v <= row + 1
    BY <1>1, <1>2
  <2>1. CASE v <= row
    <3>1. u \in 1..row /\ v \in 1..row
      BY <1>2, <2>0, <2>1
    <3>2. guard'[u] = guard[u] /\ guard'[v] = guard[v]
      BY <1>2, <1>6, <3>1
    <3> QED
      BY <3>1, <3>2 DEF GateStrong, VersionNamesPassword
  <2>2. CASE v = row + 1 /\ u = row + 1
    BY <1>5, <1>6, <2>2 DEF GuardType
  <2>3. CASE v = row + 1 /\ u # row + 1
    <3>1. u \in 1..row /\ row \in 1..row /\ u <= row /\ row > 0
      BY <1>2, <2>0, <2>3
    <3>2. guard'[u] = guard[u] /\ guard'[v] = g
      BY <1>2, <1>6, <2>3, <3>1
    <3>3. /\ guard[u].version <= guard[row].version
          /\ guard[u].version = guard[row].version => guard[u].password = guard[row].password
      BY <3>1 DEF GateStrong, VersionNamesPassword
    <3>4. guard[u].version \in Nat /\ guard[row].version \in Nat /\ g.version \in Nat
      <4>1. guard[u] \in GuardType
        BY <1>2, <3>1 DEF GateStrong, GuardShape
      <4> QED
        BY <1>4, <1>5, <4>1 DEF GuardType
    <3>5. CASE g.version = guard[row].version /\ g.password = guard[row].password
      BY <3>2, <3>3, <3>5
    <3>6. CASE g.version > guard[row].version
      BY <3>2, <3>3, <3>4, <3>6
    <3> QED
      BY <1>5, <3>1, <3>5, <3>6
  <2> QED
    BY <1>2, <2>0, <2>1, <2>2, <2>3
<1>9. CookieIsEarned'
  <2>1. ASSUME NEW c \in jar
        PROVE  /\ c \in CookieType /\ c.at \in 1..row' /\ c.version = guard'[c.at].version
               /\ guard'[c.at].active /\ guard'[c.at].password \in {NoPassword, c.given}
    <3>1. /\ c \in CookieType /\ c.at \in 1..row /\ c.version = guard[c.at].version
          /\ guard[c.at].active /\ guard[c.at].password \in {NoPassword, c.given}
      BY DEF GateStrong, CookieIsEarned
    <3>2. guard'[c.at] = guard[c.at] /\ c.at \in 1..row'
      BY <1>1, <1>2, <1>6, <3>1
    <3> QED
      BY <3>1, <3>2
  <2> QED
    BY <1>1, <2>1 DEF GateStrong, CookieIsEarned
<1> QED
  BY <1>7, <1>8, <1>9 DEF GateStrong

LEMMA UnlockGate ==
  ASSUME CacheInv, GateStrong, NEW p \in LinkPasswords, Unlock(p) PROVE GateStrong'
<1>1. /\ row > 0 /\ UNCHANGED <<row, guard>> /\ guard[row].active
      /\ guard[row].password \in {NoPassword, p}
      /\ jar' = {[version |-> guard[row].version, left |-> UnlockTTL, given |-> p, at |-> row]}
  BY DEF Unlock, vars
<1> DEFINE c == [version |-> guard[row].version, left |-> UnlockTTL, given |-> p, at |-> row]
<1>2. row \in Versions /\ row \in 1..row /\ guard[row] \in GuardType /\ UnlockTTL \in Nat
  BY <1>1, Times, GateAssumption DEF CacheInv, CacheTypes, Versions, GateStrong, GuardShape
<1>3. /\ c \in CookieType /\ c.at = row /\ c.version = guard[row].version /\ c.given = p
  BY <1>2 DEF CookieType, GuardType
<1> HIDE DEF c
<1>4. jar' = {c}
  BY <1>1 DEF c
<1>5. CookieIsEarned'
  BY <1>1, <1>2, <1>3, <1>4, OneIsOne DEF CookieIsEarned
<1> QED
  BY <1>1, <1>5 DEF GateStrong, GuardShape, VersionNamesPassword

LEMMA TickGate ==
  ASSUME CacheInv, GateStrong, GateTick PROVE GateStrong'
<1>1. /\ UNCHANGED <<row, guard>>
      /\ jar' = {[c EXCEPT !.left = @ - 1] : c \in {d \in jar : d.left > 0}}
  BY DEF GateTick, Tick
<1>2. ASSUME NEW e \in jar'
      PROVE  /\ e \in CookieType /\ e.at \in 1..row /\ e.version = guard[e.at].version
             /\ guard[e.at].active /\ guard[e.at].password \in {NoPassword, e.given}
  <2>1. PICK c \in jar : e = [c EXCEPT !.left = @ - 1] /\ c.left > 0
    BY <1>1
  <2>2. /\ c \in CookieType /\ c.at \in 1..row /\ c.version = guard[c.at].version
        /\ guard[c.at].active /\ guard[c.at].password \in {NoPassword, c.given}
    BY DEF GateStrong, CookieIsEarned
  <2>3. e \in CookieType /\ e.at = c.at /\ e.version = c.version /\ e.given = c.given
    BY <2>1, <2>2, GateAssumption DEF CookieType
  <2> QED
    BY <2>2, <2>3
<1>3. AtMostOne(jar')
  <2>1. CASE jar = {}
    <3>1. jar' = {}
      BY <1>1, <2>1
    <3> QED
      BY <3>1, OneIsOne
  <2>2. ASSUME NEW c, jar = {c} PROVE AtMostOne(jar')
    <3>1. CASE c.left > 0
      <4>1. jar' = {[c EXCEPT !.left = @ - 1]}
        BY <1>1, <2>2, <3>1
      <4> QED
        BY <4>1, OneIsOne
    <3>2. CASE ~(c.left > 0)
      <4>1. jar' = {}
        BY <1>1, <2>2, <3>2
      <4> QED
        BY <4>1, OneIsOne
    <3> QED
      BY <3>1, <3>2
  <2> QED
    BY <2>1, <2>2 DEF GateStrong, CookieIsEarned, AtMostOne
<1> QED
  BY <1>1, <1>2, <1>3 DEF GateStrong, GuardShape, VersionNamesPassword, CookieIsEarned

LEMMA GateStep ==
  ASSUME CacheInv, GateStrong, [GateNext]_<<vars, gateVars>> PROVE GateStrong'
<1>1. ASSUME UNCHANGED <<row, guard, jar>> PROVE GateStrong'
  BY <1>1 DEF GateStrong, GuardShape, VersionNamesPassword, CookieIsEarned
<1>2. Visit \/ Behind => UNCHANGED <<row, guard, jar>>
  BY DEF Visit, Behind, gateVars, Hit, HitMissing, Fill, FillFails, StartFlight, ReadRow, Abandon,
         EvictAfter, EvictFails
<1>3. UNCHANGED <<vars, gateVars>> => UNCHANGED <<row, guard, jar>>
  BY DEF vars, gateVars
<1> QED
  BY <1>1, <1>2, <1>3, WriteGate, UnlockGate, TickGate DEF GateNext

\* Every inhabited set of numbers up to n has a greatest one.
LEMMA GreatestExists ==
  ASSUME NEW n \in Nat, NEW S, S \subseteq 0..n, S # {}
  PROVE  \E m \in S : \A u \in S : u <= m
<1> DEFINE T == {u..n : u \in S}
<1>1. T \subseteq FiniteSubsetsOf(Nat) /\ T # {}
  <2>1. ASSUME NEW u \in S PROVE u..n \in SUBSET Nat /\ IsFiniteSet(u..n)
    <3>1. u \in Int /\ n \in Int
      OBVIOUS
    <3> QED
      BY <3>1, FS_Interval
  <2> QED
    BY <2>1 DEF FiniteSubsetsOf
<1>2. PICK x \in T : \A y \in T : <<y, x>> \notin StrictSubsetOrdering(Nat)
  <2> HIDE DEF T
  <2> QED
    BY <1>1, FS_StrictSubsetOrderingWellFounded, WFMin
<1>3. PICK m \in S : x = m..n
  OBVIOUS
<1>4. ASSUME NEW u \in S, m < u PROVE FALSE
  <2>1. u..n \in T /\ u \in 0..n /\ m \in 0..n
    OBVIOUS
  <2>2. u..n \subseteq m..n /\ m \in m..n /\ m \notin u..n
    BY <1>4, <2>1
  <2>3. u..n \in SUBSET Nat /\ m..n \in SUBSET Nat
    BY <2>1
  <2>4. <<u..n, m..n>> \in StrictSubsetOrdering(Nat)
    BY <2>2, <2>3 DEF StrictSubsetOrdering
  <2> QED
    BY <1>2, <1>3, <2>1, <2>4
<1> QED
  BY <1>4

\* Later versions have aged less: whoever may see an old version that was meant
\* for him has not been shut out for longer than that version is old.
LEMMA ShutOutIsShort ==
  ASSUME CacheInv, CacheMore, GateStrong, NEW v \in 1..row,
         guard[v].active, guard[v].password \in {NoPassword, Given}
  PROVE  ShutOutFor \in Nat /\ ShutOutFor <= age[v]
<1>0. row \in Nat /\ row <= MaxVersion /\ MaxVersion \in Nat
  BY Times DEF CacheInv, CacheTypes, Versions
<1> DEFINE open == MeantFor(Given)
<1>1. v \in open /\ open \subseteq 1..row /\ open \subseteq 0..row
  BY <1>0 DEF MeantFor
<1>2. \E m \in open : \A u \in open : u <= m
  <2> HIDE DEF open
  <2> QED
    BY <1>0, <1>1, GreatestExists
<1> DEFINE last == CHOOSE m \in open : \A u \in open : u <= m
<1>3. last \in open /\ \A u \in open : u <= last
  <2> HIDE DEF open
  <2> QED
    BY <1>2
<1>4. ShutOutFor = age[last]
  BY <1>1 DEF ShutOutFor
<1> HIDE DEF last, open
<1>5. last \in Versions /\ v \in Versions /\ v <= last
  BY <1>0, <1>1, <1>3 DEF Versions
<1> QED
  BY <1>4, <1>5 DEF CacheInv, CacheTypes, CacheMore, AgesFall

\* What a visit can be answered with now is young enough.
LEMMA ShownIsYoung ==
  ASSUME CacheInv, CacheMore, NEW v \in Shown
  PROVE  v \in Versions /\ v <= row /\ age[v] <= Fetch + TTL
<1>1. CASE \E e \in link : v = e.ver
  <2>1. PICK e \in link : v = e.ver
    BY <1>1
  <2>2. /\ e \in Links /\ age[e.ver] + e.left <= Fetch + TTL /\ e.ver <= row
    BY DEF CacheInv, CacheTypes, AgeInv, CacheMore, NoneFromTheFuture
  <2>3. e.ver \in Versions /\ age[e.ver] \in Nat /\ e.left \in Nat
    BY <2>2, Times DEF CacheInv, CacheTypes, Links, Versions
  <2> QED
    BY <2>1, <2>2, <2>3, Times
<1>2. CASE \E p \in Processes : \E f \in flight[p] : f.stage = "put" /\ v = f.ver
  <2>1. PICK p \in Processes : \E f \in flight[p] : f.stage = "put" /\ v = f.ver
    BY <1>2
  <2>2. PICK f \in flight[p] : f.stage = "put" /\ v = f.ver
    BY <2>1
  <2>3. f \in Flights /\ age[f.ver] + f.left <= Fetch /\ f.ver <= row
    BY <2>2 DEF CacheInv, CacheTypes, AgeInv, CacheMore, NoneFromTheFuture
  <2>4. f.ver \in Versions /\ age[f.ver] \in Nat /\ f.left \in Nat
    BY <2>3, Times DEF CacheInv, CacheTypes, Flights, Versions
  <2> QED
    BY <2>2, <2>3, <2>4, Times
<1> QED
  BY <1>1, <1>2 DEF Shown

LEMMA CookieDecides ==
  ASSUME CacheInv, GateStrong, NEW v \in 1..row, HasPassword(guard[v]), Opens(v)
  PROVE  guard[v].password = Given
<1>1. PICK c \in jar : c.version = guard[v].version
  BY DEF Opens, Unlocked, Verify
<1>2. jar = {c}
  BY DEF GateStrong, CookieIsEarned, AtMostOne
<1>3. Given = c.given
  BY <1>2 DEF Given
<1>4. /\ c.at \in 1..row /\ c.version = guard[c.at].version
      /\ guard[c.at].password \in {NoPassword, c.given}
  BY DEF GateStrong, CookieIsEarned
<1>5. guard[v].password = guard[c.at].password
  <2>1. v <= c.at \/ c.at <= v
    BY <1>4, Times DEF CacheInv, CacheTypes, Versions
  <2> QED
    BY <1>1, <1>4, <2>1 DEF GateStrong, VersionNamesPassword
<1> QED
  BY <1>3, <1>4, <1>5 DEF HasPassword

\* What the password page and its cookie promise together: nobody passes long
\* after the change that shut him out, no cookie opens another password, and
\* the right password opens; for any number of passwords, versions and writes
\* and whatever evictions fail.
THEOREM GateIsSafe == GateSpec => []GateInv
<1>1. CacheInv /\ CacheMore /\ GateStrong => GateInv
  <2> SUFFICES ASSUME CacheInv, CacheMore, GateStrong PROVE GateInv
    OBVIOUS
  <2>0. row \in Versions /\ Versions \subseteq Nat /\ \A v \in 1..row : v \in Versions
    BY Times DEF CacheInv, CacheTypes, Versions
  <2>1. GateTypeOK
    <3>1. ASSUME NEW v \in Versions PROVE guard[v].version \in 0..MaxVersion
      <4>1. guard[v] \in GuardType /\ guard[v].version <= v
        BY DEF GateStrong, GuardShape
      <4>2. guard[v].version \in Nat
        BY <4>1 DEF GuardType
      <4> QED
        BY <4>1, <4>2, Times DEF Versions
    <3>2. guard \in [Versions -> [active : BOOLEAN, password : LinkPasswords \cup {NoPassword}, version : 0..MaxVersion]]
      <4>1. ASSUME NEW v \in Versions
            PROVE  guard[v] \in [active : BOOLEAN, password : LinkPasswords \cup {NoPassword}, version : 0..MaxVersion]
        BY <3>1 DEF GateStrong, GuardShape, GuardType
      <4> QED
        BY <4>1 DEF GateStrong, GuardShape
    <3>3. jar \subseteq [version : 0..MaxVersion, left : 0..UnlockTTL, given : LinkPasswords, at : Versions]
      <4>1. ASSUME NEW c \in jar
            PROVE  c \in [version : 0..MaxVersion, left : 0..UnlockTTL, given : LinkPasswords, at : Versions]
        <5>1. c \in CookieType /\ c.at \in 1..row /\ c.version = guard[c.at].version
          BY DEF GateStrong, CookieIsEarned
        <5>2. c.version \in 0..MaxVersion
          BY <2>0, <3>1, <5>1
        <5> QED
          BY <5>1, <5>2 DEF CookieType
      <4> QED
        BY <4>1
    <3>4. Cardinality(jar) <= 1
      BY OneIsFew DEF GateStrong, CookieIsEarned
    <3> QED
      BY <3>2, <3>3, <3>4 DEF GateTypeOK
  <2>2. ShutOutInTime
    <3> SUFFICES ASSUME NEW v \in Shown, Opens(v) PROVE ShutOutFor <= Fetch + TTL
      BY DEF ShutOutInTime
    <3>1. v \in Versions /\ v <= row /\ age[v] <= Fetch + TTL /\ v \in 1..row
      <4>1. v \in Versions /\ v <= row /\ age[v] <= Fetch + TTL
        BY ShownIsYoung
      <4>2. v > 0
        BY DEF Opens
      <4> QED
        BY <2>0, <4>1, <4>2
    <3>2. guard[v].active /\ guard[v].password \in {NoPassword, Given}
      <4>1. HasPassword(guard[v]) => guard[v].password = Given
        BY <3>1, CookieDecides
      <4>2. ~HasPassword(guard[v]) => guard[v].password = NoPassword
        BY DEF HasPassword
      <4>3. guard[v].active
        BY DEF Opens
      <4> QED
        BY <4>1, <4>2, <4>3
    <3>3. ShutOutFor \in Nat /\ ShutOutFor <= age[v]
      BY <3>1, <3>2, ShutOutIsShort
    <3> QED
      BY <3>1, <3>3, Times DEF CacheInv, CacheTypes
  <2>3. CookieOpensItsPassword
    BY CookieDecides DEF CookieOpensItsPassword
  <2>4. RightPasswordOpens
    BY DEF RightPasswordOpens, Opens, Unlocked, Verify, GateStrong, CookieIsEarned
  <2> QED
    BY <2>1, <2>2, <2>3, <2>4 DEF GateInv
<1>2. GateInit => CacheInv /\ CacheMore /\ GateStrong
  BY CacheStart, MoreStart, GateStart DEF GateInit
<1>3. CacheInv /\ CacheMore /\ GateStrong /\ [GateNext]_<<vars, gateVars>>
        => (CacheInv /\ CacheMore /\ GateStrong)'
  BY CacheStep, MoreStep, GateStep, GateStepsAreCacheSteps
<1> QED
  BY <1>1, <1>2, <1>3, PTL DEF GateSpec

=============================================================================
