--------------------------- MODULE RequestProofs ----------------------------
(***************************************************************************)
(* Theorems about what happens to one request, for any number of requests: *)
(* the snapshot of the domains that tells whose host it is, the limits it  *)
(* is counted against, the account and the token it comes with, and the    *)
(* answer it gets.  The four parts share no variable.                      *)
(***************************************************************************)
EXTENDS DomainSnapshot, RateLimiter, Accounts, HttpAnswer, FiniteSetTheorems, TLAPS

(***************************************************************************)
(* The snapshot only gets newer, one request at a time refreshes it, and   *)
(* what requests do with an old one stays right.                           *)
(***************************************************************************)

LookupType ==
  [pc     : {"idle", "cas", "list", "store", "release", "answered", "done"},
   kind   : {"none", "resolve", "create", "url"},
   host   : Hosts \cup {NoHost},
   link   : Links \cup {Absent},
   answer : Snapshots \cup {NoSnap},
   began  : 0..MaxSnapTime,
   result : Hosts \cup {NoHost, "served"}]

Types ==
  /\ time \in 0..MaxSnapTime /\ loadedAt \in 0..time /\ changes \in 0..MaxChanges
  /\ refreshing \in BOOLEAN
  /\ domains \subseteq Domains
  /\ linkDomain \in [Links -> Domains \cup {Default, Absent}]
  /\ createdAt \in [Links -> 0..MaxSnapTime]
  /\ snap \in Snapshots \cup {NoSnap}
  /\ lookups \in [Lookups -> LookupType]

\* The flag is up while somebody refreshes, and nobody else does.
FlagInv == OneRefresh /\ \A k \in Refreshing : refreshing

\* A reading of the table knows the domain of every link stored before it.
Sound(s) ==
  /\ s.readAt <= time
  /\ \A l \in Links : linkDomain[l] \in Domains /\ s.readAt > createdAt[l] => linkDomain[l] \in s.ids

SnapSound == snap # NoSnap => Sound(snap) /\ loadedAt <= snap.readAt + ResolveTimeout

\* A refresh in time: what it read is newer than what it will replace.
RefreshOf(c) ==
  /\ c.pc \in {"list", "store"} => c.began <= time /\ time <= c.began + ResolveTimeout
  /\ c.pc = "store" => /\ c.answer # NoSnap /\ c.began <= c.answer.readAt
                       /\ snap # NoSnap => snap.readAt <= c.answer.readAt

\* What a lookup has, and what it said when it was done.
AnswerOf(c) ==
  /\ c.pc \in {"idle", "done"} \/ (c.kind # "none" /\ c.link \in Links)
  /\ c.answer # NoSnap => Sound(c.answer)
  /\ c.kind = "url" => c.link \in Links /\ linkDomain[c.link] \in Domains
  /\ c.pc = "done" /\ c.kind = "resolve" =>
       /\ c.link \in Links /\ linkDomain[c.link] \in Domains \cup {Default}
       /\ linkDomain[c.link] \in Domains => c.host = NameOf[linkDomain[c.link]]
  /\ c.pc = "done" /\ c.kind = "url" /\ c.answer # NoSnap =>
       (c.answer.readAt > createdAt[c.link] => c.result = NameOf[linkDomain[c.link]])

LookInv == \A k \in Lookups : RefreshOf(lookups[k]) /\ AnswerOf(lookups[k])

SnapIInv == Types /\ FlagInv /\ NoOrphanLink /\ SnapSound /\ LookInv

LEMMA SnapSizes ==
  /\ SnapshotTTL \in Nat \ {0} /\ ResolveTimeout \in Nat /\ MaxSnapTime \in Nat /\ MaxChanges \in Nat
  /\ NoSnap \notin Snapshots
  /\ Default \notin Domains /\ Absent \notin Domains /\ Absent # Default
<1>1. Snapshots \subseteq [ids : SUBSET Domains, readAt : Nat]
  BY SnapAssumption DEF Snapshots
<1> QED
  BY <1>1, SnapAssumption

\* The domain of a host is one of that name, or the default one.
LEMMA IdOfHost ==
  ASSUME NEW s \in Snapshots \cup {NoSnap}, NEW h
  PROVE  /\ IdOf(s, h) \in Domains \cup {Default}
         /\ IdOf(s, h) \in Domains => NameOf[IdOf(s, h)] = h
         /\ h = NoHost => IdOf(s, h) = Default
<1>1. CASE s = NoSnap \/ h = NoHost \/ ByName(s.ids, h) = {}
  BY <1>1, SnapSizes DEF IdOf
<1>2. CASE s # NoSnap /\ h # NoHost /\ ByName(s.ids, h) # {}
  <2>1. IdOf(s, h) \in ByName(s.ids, h)
    BY <1>2 DEF IdOf
  <2>2. s.ids \subseteq Domains
    BY <1>2 DEF Snapshots
  <2> QED
    BY <1>2, <2>1, <2>2 DEF ByName
<1> QED
  BY <1>1, <1>2

LEMMA NoLookupIs ==
  /\ NoLookup.pc = "idle" /\ NoLookup.kind = "none" /\ NoLookup.host = NoHost
  /\ NoLookup.link = Absent /\ NoLookup.answer = NoSnap /\ NoLookup.began = 0
  /\ NoLookup.result = NoHost
  /\ NoLookup \in LookupType
BY SnapSizes DEF NoLookup, LookupType

(***************************************************************************)
(* A lookup goes on, and the rest of the world stays.                      *)
(***************************************************************************)

LEMMA LookupStep ==
  ASSUME SnapIInv, NEW k \in Lookups, NEW r \in LookupType,
         UNCHANGED <<time, domains, linkDomain, createdAt, snap, loadedAt, changes>>,
         refreshing' \in BOOLEAN,
         lookups' = [lookups EXCEPT ![k] = r],
         RefreshOf(r), AnswerOf(r),
         \/ r.pc \notin {"list", "store", "release"} /\ refreshing' = refreshing
         \/ k \in Refreshing /\ r.pc \in {"list", "store", "release"} /\ refreshing' = refreshing
         \/ ~refreshing /\ refreshing'
         \/ k \in Refreshing /\ r.pc \notin {"list", "store", "release"}
         \/ r.pc \notin {"list", "store", "release"} /\ refreshing'
  PROVE  SnapIInv'
<1> USE DEF SnapIInv
<1>1. /\ lookups'[k] = r
      /\ \A j \in Lookups : j # k => lookups'[j] = lookups[j]
      /\ lookups' \in [Lookups -> LookupType]
  BY DEF Types
<1>2. Types'
  BY <1>1 DEF Types
<1>3. FlagInv'
  <2>1. \A j \in Lookups : j # k => (j \in Refreshing' <=> j \in Refreshing)
    BY <1>1 DEF Refreshing, LookupsAt
  <2>2. k \in Refreshing' <=> r.pc \in {"list", "store", "release"}
    BY <1>1 DEF Refreshing, LookupsAt
  <2>3. Refreshing \subseteq Lookups /\ Refreshing' \subseteq Lookups
    BY DEF Refreshing, LookupsAt
  <2>4. (\A i, j \in Refreshing : i = j) /\ (\A j \in Refreshing : refreshing)
    BY DEF FlagInv, OneRefresh
  <2>5. (\A i, j \in Refreshing' : i = j) /\ (\A j \in Refreshing' : refreshing')
    BY <2>1, <2>2, <2>3, <2>4
  <2> QED
    BY <2>5 DEF FlagInv, OneRefresh
<1>4. NoOrphanLink' /\ SnapSound'
  BY DEF NoOrphanLink, SnapSound, Sound
<1>5. \A c : (RefreshOf(c) => RefreshOf(c)') /\ (AnswerOf(c) => AnswerOf(c)')
  BY DEF RefreshOf, AnswerOf, Sound
<1>6. LookInv'
  <2> SUFFICES ASSUME NEW j \in Lookups PROVE RefreshOf(lookups[j])' /\ AnswerOf(lookups[j])'
    BY DEF LookInv
  <2>1. CASE j = k
    BY <1>1, <2>1 DEF RefreshOf, AnswerOf, Sound
  <2>2. CASE j # k
    <3>1. lookups'[j] = lookups[j] /\ RefreshOf(lookups[j]) /\ AnswerOf(lookups[j])
      BY <1>1, <2>2 DEF LookInv
    <3> QED
      BY <3>1 DEF RefreshOf, AnswerOf, Sound
  <2> QED
    BY <2>1, <2>2
<1> QED
  BY <1>2, <1>3, <1>4, <1>6


LEMMA LookupIs ==
  ASSUME SnapIInv, NEW k \in Lookups
  PROVE  lookups[k] \in LookupType /\ RefreshOf(lookups[k]) /\ AnswerOf(lookups[k])
BY DEF SnapIInv, Types, LookInv

LEMMA LoadStep ==
  ASSUME SnapIInv, NEW k \in Lookups, NEW kind \in {"resolve", "create", "url"},
         NEW h \in Hosts \cup {NoHost}, NEW l \in Links, Load(k, kind, h, l)
  PROVE  SnapIInv'
<1> DEFINE r == [NoLookup EXCEPT !.kind = kind, !.host = h, !.link = l, !.answer = snap,
                                 !.pc = IF Fresh(snap) THEN "answered" ELSE "cas"]
<1>1. /\ r.pc \in {"answered", "cas"} /\ r.kind = kind /\ r.link = l /\ r.answer = snap
      /\ r \in LookupType
  BY NoLookupIs, ZenonT(60) DEF SnapIInv, Types, LookupType, NoLookup
<1>2. RefreshOf(r)
  BY <1>1 DEF RefreshOf
<1>3. kind = "url" => linkDomain[l] \in Domains
  BY DEF Load, SnapIInv, Types
<1>4. AnswerOf(r)
  BY <1>1, <1>3 DEF AnswerOf, SnapIInv, SnapSound
<1> HIDE DEF r
<1>5. lookups' = [lookups EXCEPT ![k] = r] /\ refreshing' = refreshing /\ refreshing' \in BOOLEAN
      /\ UNCHANGED <<time, domains, linkDomain, createdAt, snap, loadedAt, changes>>
  BY DEF Load, r, SnapIInv, Types
<1> QED
  BY <1>1, <1>2, <1>4, <1>5, LookupStep

LEMMA CompareAndSwapStep ==
  ASSUME SnapIInv, NEW k \in Lookups, CompareAndSwap(k)
  PROVE  SnapIInv'
<1> DEFINE r == [lookups[k] EXCEPT !.pc = IF refreshing THEN "answered" ELSE "list",
                                   !.began = IF refreshing THEN 0 ELSE time]
<1>1. lookups[k] \in LookupType /\ AnswerOf(lookups[k]) /\ lookups[k].pc = "cas"
  BY LookupIs DEF CompareAndSwap
<1>2. time \in Nat /\ time \in 0..MaxSnapTime /\ 0 \in 0..MaxSnapTime /\ refreshing \in BOOLEAN
  BY SnapSizes DEF SnapIInv, Types
<1>3. /\ r.pc = (IF refreshing THEN "answered" ELSE "list") /\ r.kind = lookups[k].kind
      /\ r.link = lookups[k].link /\ r.answer = lookups[k].answer
      /\ r.began = (IF refreshing THEN 0 ELSE time) /\ r \in LookupType
  BY <1>1, <1>2 DEF LookupType
<1>4. RefreshOf(r)
  BY <1>2, <1>3, SnapSizes DEF RefreshOf
<1>5. AnswerOf(r)
  BY <1>1, <1>3 DEF AnswerOf
<1>6. lookups' = [lookups EXCEPT ![k] = r] /\ refreshing' = TRUE
      /\ UNCHANGED <<time, domains, linkDomain, createdAt, snap, loadedAt, changes>>
  BY DEF CompareAndSwap
<1> HIDE DEF r
<1> QED
  BY <1>2, <1>3, <1>4, <1>5, <1>6, LookupStep

LEMMA ListStep ==
  ASSUME SnapIInv, NEW k \in Lookups, List(k)
  PROVE  SnapIInv'
<1> DEFINE a == [ids |-> domains, readAt |-> time]
           r == [lookups[k] EXCEPT !.pc = "store", !.answer = a]
<1>1. lookups[k] \in LookupType /\ AnswerOf(lookups[k]) /\ RefreshOf(lookups[k]) /\ lookups[k].pc = "list"
  BY LookupIs DEF List
<1>2. time \in Nat /\ a \in Snapshots /\ a.ids = domains /\ a.readAt = time /\ a # NoSnap
  BY SnapSizes DEF SnapIInv, Types, Snapshots
<1> HIDE DEF a
<1>3. /\ r.pc = "store" /\ r.kind = lookups[k].kind /\ r.link = lookups[k].link /\ r.answer = a
      /\ r.began = lookups[k].began /\ r \in LookupType
  BY <1>1, <1>2 DEF LookupType
<1>4. Sound(a)
  BY <1>2 DEF Sound, SnapIInv, NoOrphanLink
<1>5. RefreshOf(r)
  BY <1>1, <1>2, <1>3 DEF RefreshOf, SnapIInv, SnapSound, Sound
<1>6. AnswerOf(r)
  BY <1>1, <1>3, <1>4 DEF AnswerOf
<1>7. lookups' = [lookups EXCEPT ![k] = r] /\ refreshing' = refreshing /\ refreshing' \in BOOLEAN
      /\ UNCHANGED <<time, domains, linkDomain, createdAt, snap, loadedAt, changes>>
  BY DEF List, a, SnapIInv, Types
<1>8. k \in Refreshing
  BY <1>1 DEF Refreshing, LookupsAt
<1> HIDE DEF r
<1> QED
  BY <1>3, <1>5, <1>6, <1>7, <1>8, LookupStep

\* A refresh that ends, having listed nothing or released the flag.
LEMMA MoveOnStep ==
  ASSUME SnapIInv, NEW k \in Lookups, ListFails(k) \/ Release(k)
  PROVE  SnapIInv'
<1> DEFINE r == IF lookups[k].pc = "list" THEN [lookups[k] EXCEPT !.pc = "release"]
                ELSE [lookups[k] EXCEPT !.pc = "answered", !.began = 0]
<1>1. lookups[k] \in LookupType /\ AnswerOf(lookups[k]) /\ lookups[k].pc \in {"list", "release"}
  BY LookupIs DEF ListFails, Release
<1>2. /\ r.pc = (IF lookups[k].pc = "list" THEN "release" ELSE "answered") /\ r.kind = lookups[k].kind
      /\ r.link = lookups[k].link /\ r.answer = lookups[k].answer /\ r \in LookupType
  <2>1. 0 \in 0..MaxSnapTime
    BY SnapSizes
  <2>2. CASE lookups[k].pc = "list"
    BY <1>1, <2>2 DEF LookupType
  <2>3. CASE lookups[k].pc = "release"
    BY <1>1, <2>1, <2>3 DEF LookupType
  <2> QED
    BY <1>1, <2>2, <2>3
<1>3. RefreshOf(r) /\ AnswerOf(r)
  BY <1>1, <1>2 DEF RefreshOf, AnswerOf
<1>4. lookups' = [lookups EXCEPT ![k] = r]
      /\ UNCHANGED <<time, domains, linkDomain, createdAt, snap, loadedAt, changes>>
      /\ refreshing' = (IF lookups[k].pc = "list" THEN refreshing ELSE FALSE) /\ refreshing' \in BOOLEAN
  BY DEF ListFails, Release, SnapIInv, Types
<1>5. k \in Refreshing
  BY <1>1 DEF Refreshing, LookupsAt
<1> HIDE DEF r
<1> QED
  BY <1>2, <1>3, <1>4, <1>5, LookupStep

(***************************************************************************)
(* What the answer is used for.                                            *)
(***************************************************************************)

LEMMA ForgottenIs ==
  RefreshOf(NoLookup) /\ AnswerOf(NoLookup)
BY NoLookupIs, SnapSizes DEF RefreshOf, AnswerOf

LEMMA ResolveStep ==
  ASSUME SnapIInv, NEW k \in Lookups, Resolve(k)
  PROVE  SnapIInv'
<1> DEFINE c == lookups[k]
           r == IF linkDomain[c.link] = IdOf(c.answer, c.host)
                THEN [NoLookup EXCEPT !.pc = "done", !.kind = c.kind, !.link = c.link,
                                      !.host = c.host, !.answer = NoSnap, !.result = "served"]
                ELSE NoLookup
<1>1. /\ c \in LookupType /\ c.pc = "answered" /\ c.kind = "resolve" /\ c.link \in Links
      /\ c.answer \in Snapshots \cup {NoSnap} /\ c.host \in Hosts \cup {NoHost}
  BY LookupIs DEF Resolve, AnswerOf, LookupType
<1>2. lookups' = [lookups EXCEPT ![k] = r] /\ refreshing' = refreshing /\ refreshing' \in BOOLEAN
      /\ UNCHANGED <<time, domains, linkDomain, createdAt, snap, loadedAt, changes>>
  BY DEF Resolve, Finished, Forgotten, SnapIInv, Types
<1>3. CASE linkDomain[c.link] = IdOf(c.answer, c.host)
  <2>1. /\ r.pc = "done" /\ r.kind = "resolve" /\ r.link = c.link /\ r.host = c.host
        /\ r.answer = NoSnap /\ r \in LookupType
    BY <1>1, <1>3, NoLookupIs DEF LookupType, NoLookup
  <2>2. RefreshOf(r) /\ AnswerOf(r)
    BY <1>1, <1>3, <2>1, IdOfHost DEF RefreshOf, AnswerOf
  <2> HIDE DEF r
  <2> QED
    BY <1>2, <2>1, <2>2, LookupStep
<1>4. CASE linkDomain[c.link] # IdOf(c.answer, c.host)
  <2>1. r = NoLookup
    BY <1>4
  <2> HIDE DEF r
  <2> QED
    BY <1>2, <2>1, NoLookupIs, ForgottenIs, LookupStep
<1> QED
  BY <1>3, <1>4

LEMMA ShortURLStep ==
  ASSUME SnapIInv, NEW k \in Lookups, ShortURL(k)
  PROVE  SnapIInv'
<1> DEFINE c == lookups[k]
           host == HostOf(c.answer, linkDomain[c.link])
           r == [NoLookup EXCEPT !.pc = "done", !.kind = c.kind, !.link = c.link,
                                 !.host = NoHost, !.answer = c.answer, !.result = host]
<1>1. /\ c \in LookupType /\ c.pc = "answered" /\ c.kind = "url" /\ c.link \in Links
      /\ c.answer \in Snapshots \cup {NoSnap} /\ linkDomain[c.link] \in Domains
      /\ c.answer # NoSnap => Sound(c.answer)
  BY LookupIs DEF ShortURL, AnswerOf, LookupType
<1>2. lookups' = [lookups EXCEPT ![k] = r] /\ refreshing' = refreshing /\ refreshing' \in BOOLEAN
      /\ UNCHANGED <<time, domains, linkDomain, createdAt, snap, loadedAt, changes>>
  BY DEF ShortURL, Finished, SnapIInv, Types
<1>3. /\ host \in Hosts \cup {NoHost}
      /\ c.answer # NoSnap /\ linkDomain[c.link] \in c.answer.ids => host = NameOf[linkDomain[c.link]]
  BY <1>1, SnapAssumption DEF HostOf
<1> HIDE DEF host
<1>4. /\ r.pc = "done" /\ r.kind = "url" /\ r.link = c.link /\ r.answer = c.answer
      /\ r.result = host /\ r \in LookupType
  BY <1>1, <1>3, NoLookupIs DEF LookupType, NoLookup
<1>5. c.answer # NoSnap /\ c.answer.readAt > createdAt[c.link] => host = NameOf[linkDomain[c.link]]
  BY <1>1, <1>3 DEF Sound
<1>6. RefreshOf(r) /\ AnswerOf(r)
  BY <1>1, <1>4, <1>5 DEF RefreshOf, AnswerOf
<1> HIDE DEF r
<1> QED
  BY <1>2, <1>4, <1>6, LookupStep

\* A new link is in a registered domain, and later than every reading so far.
LEMMA CreateStep ==
  ASSUME SnapIInv, NEW k \in Lookups, Create(k)
  PROVE  SnapIInv'
<1> DEFINE c == lookups[k]
           d == IdOf(c.answer, c.host)
           stored == linkDomain[c.link] = Absent /\ (c.host = NoHost \/ d \in domains)
<1> USE DEF SnapIInv
<1>1. /\ c \in LookupType /\ c.pc = "answered" /\ c.kind = "create" /\ c.link \in Links
      /\ c.answer \in Snapshots \cup {NoSnap} /\ c.host \in Hosts \cup {NoHost}
  BY LookupIs DEF Create, AnswerOf, LookupType
<1>2. /\ lookups' = [lookups EXCEPT ![k] = NoLookup]
      /\ UNCHANGED <<time, domains, snap, loadedAt, refreshing, changes>>
  BY DEF Create, Forgotten
<1>3. CASE ~stored
  <2>1. UNCHANGED <<linkDomain, createdAt>>
    BY <1>3 DEF Create
  <2>2. refreshing' \in BOOLEAN
    BY <1>2 DEF Types
  <2> QED
    BY <1>2, <2>1, <2>2, NoLookupIs, ForgottenIs, LookupStep
<1>4. CASE stored
  <2>1. /\ linkDomain' = [linkDomain EXCEPT ![c.link] = d]
        /\ createdAt' = [createdAt EXCEPT ![c.link] = time]
    BY <1>4 DEF Create
  <2>2. /\ d \in Domains \cup {Default} /\ (d \in Domains => d \in domains)
        /\ linkDomain[c.link] = Absent
    BY <1>1, <1>4, IdOfHost, SnapSizes
  <2> HIDE DEF d, stored
  <2>3. /\ linkDomain'[c.link] = d /\ createdAt'[c.link] = time
        /\ \A l \in Links : l # c.link => linkDomain'[l] = linkDomain[l] /\ createdAt'[l] = createdAt[l]
        /\ lookups'[k] = NoLookup
        /\ \A j \in Lookups : j # k => lookups'[j] = lookups[j]
    BY <1>1, <2>1, <1>2 DEF Types
  <2>4. Types'
    <3>1. linkDomain' \in [Links -> Domains \cup {Default, Absent}]
      <4>1. /\ linkDomain \in [Links -> Domains \cup {Default, Absent}]
            /\ d \in Domains \cup {Default, Absent}
        BY <2>2 DEF Types
      <4> QED
        BY <2>1, <4>1
    <3>2. createdAt' \in [Links -> 0..MaxSnapTime]
      BY <1>1, <2>1 DEF Types
    <3>3. lookups' \in [Lookups -> LookupType]
      BY <1>2, NoLookupIs DEF Types
    <3> QED
      BY <1>2, <3>1, <3>2, <3>3 DEF Types
  <2>5. FlagInv'
    <3>1. \A j \in Lookups : (j \in Refreshing <=> j \in Refreshing')
      BY <1>1, <2>3, NoLookupIs DEF Refreshing, LookupsAt
    <3>2. Refreshing' = Refreshing
      BY <3>1 DEF Refreshing, LookupsAt
    <3> QED
      BY <1>2, <3>2 DEF FlagInv, OneRefresh
  <2>6. NoOrphanLink'
    BY <1>2, <2>2, <2>3 DEF NoOrphanLink
  <2>7. ASSUME NEW s \in Snapshots, Sound(s) PROVE Sound(s)'
    <3>1. s.readAt \in Nat /\ time \in Nat
      BY SnapSizes DEF Types, Snapshots
    <3>2. s.readAt <= time'
      BY <1>2, <2>7 DEF Sound
    <3>3. ASSUME NEW l \in Links, linkDomain'[l] \in Domains, s.readAt > createdAt'[l]
          PROVE  linkDomain'[l] \in s.ids
      <4>1. l # c.link
        BY <1>2, <2>3, <2>7, <3>1, <3>3 DEF Sound
      <4> QED
        BY <2>3, <2>7, <3>3, <4>1 DEF Sound
    <3> QED
      BY <3>2, <3>3 DEF Sound
  <2>8. SnapSound'
    BY <1>2, <2>7 DEF SnapSound, Types
  <2>9. LookInv'
    <3> SUFFICES ASSUME NEW j \in Lookups PROVE RefreshOf(lookups[j])' /\ AnswerOf(lookups[j])'
      BY DEF LookInv
    <3>1. CASE j = k
      <4>1. lookups'[j] = NoLookup
        BY <2>3, <3>1
      <4> QED
        BY <4>1, NoLookupIs, SnapSizes DEF RefreshOf, AnswerOf
    <3>2. CASE j # k
      <4>1. /\ lookups'[j] = lookups[j] /\ RefreshOf(lookups[j]) /\ AnswerOf(lookups[j])
            /\ lookups[j].answer \in Snapshots \cup {NoSnap}
        BY <2>3, <3>2, LookupIs DEF LookupType
      <4>2. RefreshOf(lookups[j])'
        BY <1>2, <4>1 DEF RefreshOf
      <4>3. lookups[j].answer # NoSnap => Sound(lookups[j].answer)'
        <5>1. lookups[j].answer # NoSnap => Sound(lookups[j].answer)
          BY <4>1 DEF AnswerOf
        <5> QED
          BY <1>2, <2>7, <4>1, <5>1
      <4>4. lookups[j].link \in Links /\ linkDomain[lookups[j].link] \in Domains \cup {Default} =>
              /\ linkDomain'[lookups[j].link] = linkDomain[lookups[j].link]
              /\ createdAt'[lookups[j].link] = createdAt[lookups[j].link]
        BY <2>2, <2>3, SnapSizes
      <4>5. (lookups[j].answer # NoSnap => Sound(lookups[j].answer))'
        BY <4>1, <4>3
      <4> QED
        BY <4>1, <4>2, <4>4, <4>5 DEF AnswerOf
    <3> QED
      BY <3>1, <3>2
  <2> QED
    BY <2>4, <2>5, <2>6, <2>8, <2>9
<1> QED
  BY <1>3, <1>4

(***************************************************************************)
(* The pointer, the table and the clock.                                   *)
(***************************************************************************)

\* The refresher is alone, and what it stores is younger than what it replaces.
LEMMA StoreStep ==
  ASSUME SnapIInv, NEW k \in Lookups, Store(k)
  PROVE  SnapIInv'
<1> DEFINE c == lookups[k]
<1> USE DEF SnapIInv
<1>1. /\ c \in LookupType /\ c.pc = "store" /\ RefreshOf(c) /\ AnswerOf(c)
      /\ c.answer \in Snapshots /\ c.began \in Nat /\ c.answer.readAt \in Nat /\ Sound(c.answer)
  BY LookupIs, SnapSizes DEF Store, LookupType, Snapshots, RefreshOf, AnswerOf
<1>2. /\ snap' = c.answer /\ loadedAt' = time
      /\ lookups' = [lookups EXCEPT ![k] = [c EXCEPT !.pc = "release"]]
      /\ UNCHANGED <<time, domains, linkDomain, createdAt, refreshing, changes>>
  BY DEF Store
<1>3. [c EXCEPT !.pc = "release"] \in LookupType
  BY <1>1 DEF LookupType
<1>4. /\ lookups'[k].pc = "release" /\ lookups'[k].kind = c.kind /\ lookups'[k].link = c.link
      /\ lookups'[k].answer = c.answer
      /\ \A j \in Lookups : j # k => lookups'[j] = lookups[j]
      /\ lookups' \in [Lookups -> LookupType]
  BY <1>1, <1>2, <1>3 DEF Types, LookupType
<1>5. Types'
  BY <1>1, <1>2, <1>4 DEF Types
<1>6. Refreshing' = Refreshing
  BY <1>1, <1>4 DEF Refreshing, LookupsAt
<1>7. FlagInv' /\ NoOrphanLink'
  BY <1>2, <1>6 DEF FlagInv, OneRefresh, NoOrphanLink
<1>8. SnapSound'
  BY <1>1, <1>2, SnapSizes DEF SnapSound, Sound, RefreshOf, Types
<1>9. LookInv'
  <2> SUFFICES ASSUME NEW j \in Lookups PROVE RefreshOf(lookups[j])' /\ AnswerOf(lookups[j])'
    BY DEF LookInv
  <2>1. CASE j = k
    BY <1>1, <1>2, <1>4, <2>1 DEF RefreshOf, AnswerOf, Sound
  <2>2. CASE j # k
    <3>1. lookups'[j] = lookups[j] /\ RefreshOf(lookups[j]) /\ AnswerOf(lookups[j])
      BY <1>4, <2>2 DEF LookInv
    <3>2. lookups[j].pc # "store"
      BY <1>1, <2>2 DEF FlagInv, OneRefresh, Refreshing, LookupsAt
    <3> QED
      BY <1>2, <3>1, <3>2 DEF RefreshOf, AnswerOf, Sound
  <2> QED
    BY <2>1, <2>2
<1> QED
  BY <1>5, <1>7, <1>8, <1>9

LEMMA TableStep ==
  ASSUME SnapIInv, NEW d \in Domains, RegisterDomain(d) \/ RemoveDomain(d)
  PROVE  SnapIInv'
<1> USE DEF SnapIInv
<1>1. UNCHANGED <<time, linkDomain, createdAt, snap, loadedAt, refreshing, lookups>>
  BY DEF RegisterDomain, RemoveDomain
<1>2. changes' \in 0..MaxChanges
  BY SnapSizes DEF RegisterDomain, RemoveDomain, Types
<1>3. domains' \subseteq Domains /\ NoOrphanLink'
  BY DEF RegisterDomain, RemoveDomain, Types, NoOrphanLink
<1>4. Types' /\ FlagInv'
  BY <1>1, <1>2, <1>3 DEF Types, FlagInv, OneRefresh, Refreshing, LookupsAt
<1>5. SnapSound' /\ LookInv'
  BY <1>1 DEF SnapSound, Sound, LookInv, RefreshOf, AnswerOf
<1> QED
  BY <1>3, <1>4, <1>5

LEMMA TickStep ==
  ASSUME SnapIInv, SnapTick
  PROVE  SnapIInv'
<1> USE DEF SnapIInv
<1>1. /\ UNCHANGED <<domains, linkDomain, createdAt, snap, loadedAt, refreshing, lookups, changes>>
      /\ time' = time + 1 /\ time < MaxSnapTime
  BY DEF SnapTick
<1>2. time \in Nat /\ loadedAt \in Nat /\ time' \in 0..MaxSnapTime /\ loadedAt' \in 0..time'
  BY <1>1, SnapSizes DEF Types
<1>3. Types' /\ FlagInv' /\ NoOrphanLink'
  BY <1>1, <1>2 DEF Types, FlagInv, OneRefresh, Refreshing, LookupsAt, NoOrphanLink
<1>4. ASSUME NEW s \in Snapshots, Sound(s) PROVE Sound(s)'
  <2>1. s.readAt \in Nat
    BY SnapSizes DEF Snapshots
  <2> QED
    BY <1>1, <1>2, <1>4, <2>1 DEF Sound
<1>5. SnapSound'
  BY <1>1, <1>4 DEF SnapSound, Types
<1>6. LookInv'
  <2> SUFFICES ASSUME NEW j \in Lookups PROVE RefreshOf(lookups[j])' /\ AnswerOf(lookups[j])'
    BY DEF LookInv
  <2>1. /\ lookups'[j] = lookups[j] /\ lookups[j] \in LookupType
        /\ RefreshOf(lookups[j]) /\ AnswerOf(lookups[j])
    BY <1>1, LookupIs
  <2>2. lookups[j].began \in Nat /\ lookups[j].answer \in Snapshots \cup {NoSnap}
    BY <2>1, SnapSizes DEF LookupType
  <2>3. lookups[j].pc \in {"list", "store"} => time < lookups[j].began + ResolveTimeout
    BY DEF SnapTick
  <2>4. RefreshOf(lookups[j])'
    BY <1>1, <1>2, <2>1, <2>2, <2>3, SnapSizes DEF RefreshOf
  <2>5. lookups[j].answer # NoSnap => Sound(lookups[j].answer)'
    <3>1. lookups[j].answer # NoSnap => Sound(lookups[j].answer)
      BY <2>1 DEF AnswerOf
    <3> QED
      BY <1>4, <2>1, <2>2, <3>1
  <2>6. (lookups[j].answer # NoSnap => Sound(lookups[j].answer))'
    BY <1>1, <2>5
  <2> QED
    BY <1>1, <2>1, <2>4, <2>6 DEF AnswerOf
<1> QED
  BY <1>3, <1>5, <1>6

LEMMA InitStep ==
  ASSUME SnapInit
  PROVE  SnapIInv
<1>1. \A k \in Lookups : lookups[k] = NoLookup
  BY DEF SnapInit
<1>2. Types
  <2>1. /\ time = 0 /\ loadedAt = 0 /\ changes = 0 /\ refreshing = FALSE /\ snap = NoSnap
        /\ domains \subseteq Domains /\ linkDomain \in [Links -> domains \cup {Default, Absent}]
    BY DEF SnapInit
  <2>2. linkDomain \in [Links -> Domains \cup {Default, Absent}]
    BY <2>1
  <2>3. createdAt \in [Links -> 0..MaxSnapTime]
    BY SnapSizes DEF SnapInit
  <2>4. lookups \in [Lookups -> LookupType]
    BY NoLookupIs DEF SnapInit
  <2>5. time \in 0..MaxSnapTime /\ loadedAt \in 0..time /\ changes \in 0..MaxChanges
    BY <2>1, SnapSizes
  <2>6. refreshing \in BOOLEAN /\ snap \in Snapshots \cup {NoSnap}
    BY <2>1
  <2> QED
    BY <2>1, <2>2, <2>3, <2>4, <2>5, <2>6, Zenon DEF Types
<1>3. FlagInv /\ NoOrphanLink /\ SnapSound
  <2>1. Refreshing = {}
    BY <1>1, NoLookupIs DEF Refreshing, LookupsAt
  <2>2. FlagInv
    BY <2>1 DEF FlagInv, OneRefresh
  <2>3. NoOrphanLink
    BY SnapSizes DEF SnapInit, NoOrphanLink
  <2>4. SnapSound
    BY DEF SnapInit, SnapSound
  <2> QED
    BY <2>2, <2>3, <2>4
<1>4. LookInv
  BY <1>1, ForgottenIs DEF LookInv
<1> QED
  BY <1>2, <1>3, <1>4 DEF SnapIInv

LEMMA StutterStep ==
  ASSUME SnapIInv, UNCHANGED snapVars
  PROVE  SnapIInv'
<1>1. UNCHANGED <<time, domains, linkDomain, createdAt, snap, loadedAt, refreshing, lookups, changes>>
  BY DEF snapVars
<1>2. Types' /\ FlagInv' /\ NoOrphanLink'
  BY <1>1 DEF SnapIInv, Types, FlagInv, OneRefresh, Refreshing, LookupsAt, NoOrphanLink
<1>3. SnapSound' /\ LookInv'
  BY <1>1 DEF SnapIInv, SnapSound, Sound, LookInv, RefreshOf, AnswerOf
<1> QED
  BY <1>2, <1>3 DEF SnapIInv

LEMMA NextStep ==
  ASSUME SnapIInv, [SnapNext]_snapVars
  PROVE  SnapIInv'
<1>1. CASE SnapNext
  <2>1. CASE \E k \in Lookups :
                \/ \E kind \in {"resolve", "create", "url"}, h \in Hosts \cup {NoHost}, l \in Links :
                     Load(k, kind, h, l)
                \/ CompareAndSwap(k) \/ List(k) \/ ListFails(k) \/ Store(k) \/ Release(k)
                \/ Resolve(k) \/ Create(k) \/ ShortURL(k)
    BY <2>1, LoadStep, CompareAndSwapStep, ListStep, MoveOnStep, StoreStep, ResolveStep,
       CreateStep, ShortURLStep
  <2>2. CASE \E d \in Domains : RegisterDomain(d) \/ RemoveDomain(d)
    BY <2>2, TableStep
  <2>3. CASE SnapTick
    BY <2>3, TickStep
  <2> QED
    BY <1>1, <2>1, <2>2, <2>3 DEF SnapNext
<1>2. CASE UNCHANGED snapVars
  BY <1>2, StutterStep
<1> QED
  BY <1>1, <1>2

(***************************************************************************)
(* What no step does.                                                      *)
(***************************************************************************)

\* The pointer stays or gets a younger reading, and a lookup keeps what it had.
LEMMA KeptSteps ==
  ASSUME SnapIInv, NEW k \in Lookups, NEW r,
         lookups' = [lookups EXCEPT ![k] = r],
         lookups[k].pc \notin {"idle", "done"},
         lookups[k].pc # "answered" /\ lookups[k].answer # NoSnap => r.answer # NoSnap,
         OlderStep
  PROVE  AtOnceStep /\ KeepsStep /\ OlderStep
<1>1. \A j \in Lookups : lookups'[j] = IF j = k THEN r ELSE lookups[j]
  BY DEF SnapIInv, Types
<1>2. AtOnceStep
  BY <1>1 DEF AtOnceStep, LookupsAt
<1>3. KeepsStep
  BY <1>1 DEF KeepsStep, Refreshing, LookupsAt
<1> QED
  BY <1>2, <1>3

LEMMA SamePointer ==
  ASSUME SnapIInv, snap' = snap
  PROVE  OlderStep
BY SnapSizes DEF SnapIInv, Types, Snapshots, OlderStep

LEMMA LoadKeeps ==
  ASSUME SnapIInv, NEW k \in Lookups, NEW kind, NEW h, NEW l, Load(k, kind, h, l)
  PROVE  AtOnceStep /\ KeepsStep /\ OlderStep
<1>1. /\ \A j \in Lookups : j # k => lookups'[j] = lookups[j]
      /\ lookups'[k].answer = snap /\ (lookups'[k].pc = "answered" => Fresh(snap))
      /\ snap' = snap /\ lookups[k].pc \in {"idle", "done"}
  BY DEF Load, SnapIInv, Types, NoLookup
<1>2. ASSUME Fresh(snap) PROVE time < snap.readAt + SnapshotTTL + ResolveTimeout
  <2>1. time \in Nat /\ loadedAt \in Nat /\ snap \in Snapshots /\ snap.readAt \in Nat
        /\ time - loadedAt < SnapshotTTL
    BY <1>2, SnapSizes DEF SnapIInv, Types, Snapshots, Fresh
  <2> QED
    BY <1>2, <2>1, SnapSizes DEF SnapIInv, SnapSound, Fresh
<1>3. AtOnceStep
  BY <1>1, <1>2 DEF AtOnceStep, LookupsAt
<1>4. KeepsStep
  BY <1>1 DEF KeepsStep, Refreshing, LookupsAt
<1> QED
  BY <1>1, <1>3, <1>4, SamePointer

LEMMA StoreKeeps ==
  ASSUME SnapIInv, NEW k \in Lookups, Store(k)
  PROVE  AtOnceStep /\ KeepsStep /\ OlderStep
<1>1. /\ lookups[k].pc = "store" /\ snap' = lookups[k].answer
      /\ lookups' = [lookups EXCEPT ![k] = [lookups[k] EXCEPT !.pc = "release"]]
      /\ RefreshOf(lookups[k]) /\ lookups[k] \in LookupType
  BY LookupIs DEF Store
<1>2. OlderStep
  BY <1>1 DEF OlderStep, RefreshOf
<1>3. [lookups[k] EXCEPT !.pc = "release"].answer = lookups[k].answer
  BY <1>1 DEF LookupType
<1> QED
  BY <1>1, <1>2, <1>3, KeptSteps

\* The other steps of a refresh leave the pointer alone.
LEMMA RefreshKeeps ==
  ASSUME SnapIInv, NEW k \in Lookups,
         CompareAndSwap(k) \/ List(k) \/ ListFails(k) \/ Release(k)
  PROVE  AtOnceStep /\ KeepsStep /\ OlderStep
<1>1. lookups[k] \in LookupType /\ OlderStep
  BY LookupIs, SamePointer DEF CompareAndSwap, List, ListFails, Release
<1>2. \E r : /\ lookups' = [lookups EXCEPT ![k] = r] /\ lookups[k].pc \notin {"idle", "done"}
             /\ lookups[k].answer # NoSnap => r.answer # NoSnap
  <2>1. CASE CompareAndSwap(k)
    <3> DEFINE r == [lookups[k] EXCEPT !.pc = IF refreshing THEN "answered" ELSE "list",
                                       !.began = IF refreshing THEN 0 ELSE time]
    <3>1. r.answer = lookups[k].answer
      BY <1>1 DEF LookupType
    <3> QED
      BY <2>1, <3>1 DEF CompareAndSwap
  <2>2. CASE List(k)
    <3> DEFINE a == [ids |-> domains, readAt |-> time]
               r == [lookups[k] EXCEPT !.pc = "store", !.answer = a]
    <3>1. a # NoSnap
      BY SnapSizes DEF SnapIInv, Types, Snapshots
    <3>2. r.answer = a
      BY <1>1 DEF LookupType
    <3> HIDE DEF a
    <3> QED
      BY <2>2, <3>1, <3>2 DEF List, a
  <2>3. CASE ListFails(k)
    <3> DEFINE r == [lookups[k] EXCEPT !.pc = "release"]
    <3>1. r.answer = lookups[k].answer
      BY <1>1 DEF LookupType
    <3> QED
      BY <2>3, <3>1 DEF ListFails
  <2>4. CASE Release(k)
    <3> DEFINE r == [lookups[k] EXCEPT !.pc = "answered", !.began = 0]
    <3>1. r.answer = lookups[k].answer
      BY <1>1 DEF LookupType
    <3> QED
      BY <2>4, <3>1 DEF Release
  <2> QED
    BY <2>1, <2>2, <2>3, <2>4
<1> QED
  BY <1>1, <1>2, KeptSteps

LEMMA UseKeeps ==
  ASSUME SnapIInv, NEW k \in Lookups, Resolve(k) \/ Create(k) \/ ShortURL(k)
  PROVE  AtOnceStep /\ KeepsStep /\ OlderStep
<1>1. lookups[k].pc = "answered" /\ OlderStep
  BY SamePointer DEF Resolve, Create, ShortURL
<1>2. \E r : lookups' = [lookups EXCEPT ![k] = r]
  BY DEF Resolve, Create, ShortURL, Finished, Forgotten
<1> QED
  BY <1>1, <1>2, KeptSteps

\* The table and the clock touch no lookup.
LEMMA OutsideKeeps ==
  ASSUME SnapIInv, UNCHANGED <<snap, lookups>>
  PROVE  AtOnceStep /\ KeepsStep /\ OlderStep
<1>1. AtOnceStep /\ KeepsStep
  BY DEF AtOnceStep, KeepsStep, Refreshing, LookupsAt
<1> QED
  BY <1>1, SamePointer

LEMMA StepsKept ==
  ASSUME SnapIInv, SnapNext
  PROVE  AtOnceStep /\ KeepsStep /\ OlderStep
<1>1. CASE \E k \in Lookups :
              \/ \E kind \in {"resolve", "create", "url"}, h \in Hosts \cup {NoHost}, l \in Links :
                   Load(k, kind, h, l)
              \/ CompareAndSwap(k) \/ List(k) \/ ListFails(k) \/ Store(k) \/ Release(k)
              \/ Resolve(k) \/ Create(k) \/ ShortURL(k)
  BY <1>1, LoadKeeps, RefreshKeeps, StoreKeeps, UseKeeps
<1>2. CASE \E d \in Domains : RegisterDomain(d) \/ RemoveDomain(d)
  BY <1>2, OutsideKeeps DEF RegisterDomain, RemoveDomain
<1>3. CASE SnapTick
  BY <1>3, OutsideKeeps DEF SnapTick
<1> QED
  BY <1>1, <1>2, <1>3 DEF SnapNext

(***************************************************************************)
(* The theorems.                                                           *)
(***************************************************************************)

\* The inductive invariant holds in every reachable state.
THEOREM SnapInvariance == SnapSpec => []SnapIInv
<1>1. SnapInit => SnapIInv
  BY InitStep
<1>2. SnapIInv /\ [SnapNext]_snapVars => SnapIInv'
  BY NextStep
<1> QED
  BY <1>1, <1>2, PTL DEF SnapSpec

LEMMA SnapInvFollows ==
  ASSUME SnapIInv
  PROVE  SnapInv
<1>1. \A k \in Lookups : lookups[k] \in LookupType /\ AnswerOf(lookups[k])
  BY LookupIs
<1>2. SnapTypeOK
  BY <1>1 DEF SnapIInv, Types, SnapTypeOK, LookupType
<1>3. ServedAtHome /\ ShortURLOpens
  BY <1>1 DEF ServedAtHome, ShortURLOpens, AnswerOf
<1> QED
  BY <1>2, <1>3 DEF SnapInv, SnapIInv, FlagInv

\* One request at a time refreshes the snapshot (the flag domainsRefreshing); a
\* link of a custom domain is served on that domain's host only and is never in a
\* domain that is not registered; and a short URL computed from a table read after
\* the link was stored opens.
THEOREM SnapshotsServeWell == SnapSpec => []SnapInv
<1>1. SnapIInv => SnapInv
  BY SnapInvFollows
<1> QED
  BY <1>1, SnapInvariance, PTL

\* No lookup is answered at once with a reading older than the TTL and one refresh;
\* a lookup that found domains keeps some when its refresh fails; and the pointer
\* never goes back to an older reading of the table.
THEOREM SnapshotsOnlyGetNewer == SnapSpec => SnapSteps
<1>1. SnapIInv /\ [SnapNext]_snapVars => [AtOnceStep /\ KeepsStep /\ OlderStep]_snapVars
  BY StepsKept
<1> QED
  BY <1>1, SnapInvariance, PTL DEF SnapSpec, SnapSteps

(***************************************************************************)
(* Rate limits.  The counter of a key holds what was counted in its window;*)
(* the requests that a window lets through are among the first of them,    *)
(* so no more than the quota; and only a fault lets one pass uncounted.    *)
(***************************************************************************)

PCs == {"idle", "uncounted", "increx", "script", "ttl", "admitted", "degraded", "refused"}

CallerType == [pc : PCs, q : Asks \cup {Idle.q}, hits : Seq(Nat), window : Nat, told : Nat]

KeyOf(c) == RateLimitKey(callers[c].q)

\* The executions that were counted on key k in window w.
HitSet(k, w) ==
  {x \in Callers \X Nat : /\ callers[x[1]].pc # "idle" /\ KeyOf(x[1]) = k
                          /\ x[2] \in DOMAIN callers[x[1]].hits
                          /\ callers[x[1]].hits[x[2]] = w}

\* The requests of key k that window w let through.
LetThrough(k, w) ==
  {d \in Callers : callers[d].pc = "admitted" /\ KeyOf(d) = k /\ callers[d].window = w}

DegradedOnes == {d \in Callers : callers[d].pc = "degraded"}

RateShape ==
  /\ clock \in 0..MaxRateTime /\ rateFaults \in 0..MaxRateFaults
  /\ trustProxy \in BOOLEAN
  /\ counters \in [Keys -> [n : Nat, expires : Nat]]
  /\ callers \in [Callers -> CallerType]
  /\ \A c \in Callers : callers[c].pc # "idle" => callers[c].q \in Asks /\ CanAsk(callers[c].q)

\* The counter of a key counts what was executed in its window; all earlier
\* windows of the key are over.
CountsAreHits ==
  \A k \in Keys :
    /\ \A w \in Nat : /\ IsFiniteSet(HitSet(k, w)) /\ IsFiniteSet(LetThrough(k, w))
                      /\ HitSet(k, w) \cup LetThrough(k, w) # {} =>
                           counters[k].n > 0 /\ w <= counters[k].expires
    /\ counters[k].n > 0 =>
         /\ Cardinality(HitSet(k, counters[k].expires)) = counters[k].n
         /\ Cardinality(LetThrough(k, counters[k].expires)) <= counters[k].n

\* What was decided about a request stays true of the window that decided it.
Decisions ==
  \A c \in Callers :
    /\ callers[c].pc = "admitted" =>
         Cardinality(LetThrough(KeyOf(c), callers[c].window)) <= LimitOf[callers[c].q.scope]
    /\ callers[c].pc \in {"ttl", "refused"} =>
         Cardinality(HitSet(KeyOf(c), callers[c].window)) > LimitOf[callers[c].q.scope]
    /\ callers[c].pc = "ttl" => callers[c].window <= clock + Window
    /\ callers[c].pc = "refused" => callers[c].window <= callers[c].told

RateStrong ==
  /\ RateShape /\ EveryCounterEnds /\ CountsAreHits /\ Decisions
  /\ degradeCount = Cardinality(DegradedOnes)

-----------------------------------------------------------------------------

\* Caller c becomes r; its execution is hit e of its key k.
CountsFor(c, r, k, e) ==
  /\ k = KeyOf(c) /\ e \in Nat
  /\ callers' = [callers EXCEPT ![c] = r] /\ trustProxy' = trustProxy
  /\ callers[c].pc \notin {"idle", "admitted"} /\ r.pc # "idle"
  /\ r.q = callers[c].q /\ r.hits = Append(callers[c].hits, e)
  /\ r.pc = "admitted" => r.window = e

LEMMA KeyIsKey ==
  ASSUME NEW q \in Asks PROVE RateLimitKey(q) \in Keys /\ q.scope \in Scopes
<1>1. q.scope \in Scopes /\ q.peer \in Visitors \cup {Proxy} /\ q.realIP \in Visitors /\ q.path \in Paths
  BY DEF Asks
<1>2. ClientIP(q) \in Visitors \cup {Proxy}
  BY <1>1 DEF ClientIP
<1> QED
  BY <1>1, <1>2 DEF RateLimitKey, Keys

LEMMA KeyIsQuota ==
  ASSUME NEW q \in Asks, NEW o \in Asks, CanAsk(q), CanAsk(o)
  PROVE  (RateLimitKey(q) = RateLimitKey(o)) <=>
           (q.scope = o.scope /\ q.realIP = o.realIP /\ (q.scope \in ByIPAndCode => q.path = o.path))
<1>1. ClientIP(q) = q.realIP /\ ClientIP(o) = o.realIP
  BY DEF ClientIP, CanAsk
<1>2. RateLimitKey(q)[1] = q.scope /\ RateLimitKey(o)[1] = o.scope
  BY DEF RateLimitKey
<1>3. CASE q.scope # o.scope
  BY <1>2, <1>3
<1>4. CASE q.scope = o.scope /\ q.scope \in ByIPAndCode
  <2>1. RateLimitKey(q) = <<q.scope, q.realIP, q.path>> /\ RateLimitKey(o) = <<o.scope, o.realIP, o.path>>
    BY <1>1, <1>4 DEF RateLimitKey
  <2> QED
    BY <2>1, <1>4
<1>5. CASE q.scope = o.scope /\ q.scope \notin ByIPAndCode
  <2>1. RateLimitKey(q) = <<q.scope, q.realIP>> /\ RateLimitKey(o) = <<o.scope, o.realIP>>
    BY <1>1, <1>5 DEF RateLimitKey
  <2> QED
    BY <2>1, <1>5
<1> QED
  BY <1>3, <1>4, <1>5

\* The answer in seconds, back in ticks, is never less than what was left.
LEMMA RetryCovers ==
  ASSUME NEW t \in Nat
  PROVE  RetryAfterHeader(t) \in Nat /\ RetryAfterHeader(t) * Second >= t
<1> DEFINE h == t \div Second
<1>0. Second \in Nat /\ Second > 0
  BY RateAssumption
<1>1. h \in Nat /\ t = h * Second + (t % Second) /\ t % Second \in 0..(Second - 1)
  BY <1>0
<1>2. CASE t > h * Second
  <2>1. RetryAfterHeader(t) = h + 1
    BY <1>1, <1>2 DEF RetryAfterHeader
  <2>2. (h + 1) * Second = h * Second + Second
    BY <1>0, <1>1
  <2> HIDE DEF h
  <2> QED
    BY <1>0, <1>1, <2>1, <2>2
<1>3. CASE ~(t > h * Second)
  <2>1. RetryAfterHeader(t) = IF h < 1 THEN 1 ELSE h
    BY <1>1, <1>3 DEF RetryAfterHeader
  <2> HIDE DEF h
  <2>2. h * Second \in Nat /\ t <= h * Second
    BY <1>0, <1>1, <1>3
  <2>3. CASE h < 1
    <3>1. h = 0
      BY <1>1, <2>3
    <3>2. t <= 0 /\ 1 * Second >= 0
      BY <1>0, <2>2, <3>1
    <3> QED
      BY <1>0, <2>1, <2>3, <3>2
  <2>4. CASE ~(h < 1)
    BY <1>0, <1>1, <2>1, <2>2, <2>4
  <2> QED
    BY <2>3, <2>4
<1> QED
  BY <1>2, <1>3

LEMMA KeysStay ==
  ASSUME RateShape, NEW c \in Callers, NEW r, callers' = [callers EXCEPT ![c] = r],
         trustProxy' = trustProxy, r.q = callers[c].q
  PROVE  \A d \in Callers : KeyOf(d)' = KeyOf(d)
<1>1. callers'[c] = r /\ \A d \in Callers \ {c} : callers'[d] = callers[d]
  BY DEF RateShape
<1> QED
  BY <1>1 DEF KeyOf, RateLimitKey, ClientIP

\* A caller changes and keeps its question and its hits: no set of hits changes.
LEMMA HitsStay ==
  ASSUME RateShape, NEW c \in Callers, NEW r, r.pc # "idle",
         callers' = [callers EXCEPT ![c] = r], trustProxy' = trustProxy,
         \/ callers[c].pc # "idle" /\ r.q = callers[c].q /\ r.hits = callers[c].hits
         \/ callers[c].pc = "idle" /\ r.hits = <<>>
  PROVE  \A k, w : HitSet(k, w)' = HitSet(k, w)
<1>1. callers'[c] = r /\ \A d \in Callers \ {c} : callers'[d] = callers[d]
  BY DEF RateShape
<1>2. \A d \in Callers \ {c} : KeyOf(d)' = KeyOf(d)
  BY <1>1 DEF KeyOf, RateLimitKey, ClientIP
<1>3. CASE callers[c].pc # "idle" /\ r.q = callers[c].q /\ r.hits = callers[c].hits
  <2>1. KeyOf(c)' = KeyOf(c)
    BY <1>1, <1>3 DEF KeyOf, RateLimitKey, ClientIP
  <2> QED
    BY <1>1, <1>2, <1>3, <2>1 DEF HitSet
<1>4. CASE callers[c].pc = "idle" /\ r.hits = <<>>
  <2>1. DOMAIN r.hits = {}
    BY <1>4
  <2> QED
    BY <1>1, <1>2, <1>4, <2>1 DEF HitSet
<1> QED
  BY <1>3, <1>4

\* An execution adds itself to the hits of its key and window, and to no others.
LEMMA HitIsAdded ==
  ASSUME RateShape, NEW c \in Callers, NEW r, NEW k, NEW e, CountsFor(c, r, k, e)
  PROVE  /\ <<c, Len(callers[c].hits) + 1>> \notin HitSet(k, e)
         /\ HitSet(k, e)' = HitSet(k, e) \cup {<<c, Len(callers[c].hits) + 1>>}
         /\ \A y, w : (y # k \/ w # e) => HitSet(y, w)' = HitSet(y, w)
<1> DEFINE h == callers[c].hits
           i == Len(h) + 1
<1>0. /\ k = KeyOf(c) /\ e \in Nat /\ callers' = [callers EXCEPT ![c] = r] /\ trustProxy' = trustProxy
      /\ callers[c].pc # "idle" /\ r.pc # "idle" /\ r.q = callers[c].q
      /\ r.hits = Append(callers[c].hits, e)
  BY DEF CountsFor
<1>1. callers'[c] = r /\ \A d \in Callers \ {c} : callers'[d] = callers[d]
  BY <1>0 DEF RateShape
<1>2. \A d \in Callers : KeyOf(d)' = KeyOf(d)
  BY <1>0, KeysStay
<1>3. h \in Seq(Nat)
  BY DEF RateShape, CallerType
<1>4. /\ Len(h) \in Nat /\ DOMAIN h = 1..Len(h) /\ DOMAIN r.hits = 1..(Len(h) + 1)
      /\ r.hits[Len(h) + 1] = e /\ \A j \in 1..Len(h) : r.hits[j] = h[j]
  BY <1>0, <1>3
<1>5. i \in Nat /\ DOMAIN r.hits = DOMAIN h \cup {i} /\ i \notin DOMAIN h /\ r.hits[i] = e
      /\ \A j \in DOMAIN h : r.hits[j] = h[j]
  BY <1>4
<1> HIDE DEF h, i
<1>6. <<c, i>> \notin HitSet(k, e)
  BY <1>5 DEF HitSet, h
<1>7. HitSet(k, e)' = HitSet(k, e) \cup {<<c, i>>}
  <2>1. ASSUME NEW d \in Callers, NEW j \in Nat
        PROVE  <<d, j>> \in HitSet(k, e)' <=> (<<d, j>> \in HitSet(k, e) \/ (d = c /\ j = i))
    <3>1. CASE d = c
      BY <1>0, <1>1, <1>2, <1>5, <3>1, SMTT(30) DEF HitSet, h
    <3>2. CASE d # c
      BY <1>1, <1>2, <3>2 DEF HitSet
    <3> QED
      BY <3>1, <3>2
  <2>2. HitSet(k, e)' \subseteq Callers \X Nat /\ HitSet(k, e) \subseteq Callers \X Nat
    BY DEF HitSet
  <2>3. <<c, i>> \in Callers \X Nat
    BY <1>5
  <2> QED
    BY <2>1, <2>2, <2>3
<1>8. ASSUME NEW y, NEW w, y # k \/ w # e
      PROVE  HitSet(y, w)' = HitSet(y, w)
  <2>1. ASSUME NEW d \in Callers, NEW j \in Nat
        PROVE  <<d, j>> \in HitSet(y, w)' <=> <<d, j>> \in HitSet(y, w)
    <3>1. CASE d = c
      BY <1>0, <1>1, <1>2, <1>5, <1>8, <3>1, SMTT(30) DEF HitSet, h
    <3>2. CASE d # c
      BY <1>1, <1>2, <3>2 DEF HitSet
    <3> QED
      BY <3>1, <3>2
  <2>2. HitSet(y, w)' \subseteq Callers \X Nat /\ HitSet(y, w) \subseteq Callers \X Nat
    BY DEF HitSet
  <2>3. ASSUME NEW x \in Callers \X Nat
        PROVE  x \in HitSet(y, w)' <=> x \in HitSet(y, w)
    BY <2>1
  <2> QED
    BY <2>2, <2>3
<1> QED
  BY <1>2, <1>6, <1>7, <1>8 DEF i, h

\* The same of the requests a window let through, when none is admitted.
LEMMA LetThroughStays ==
  ASSUME RateShape, NEW c \in Callers, NEW r,
         callers' = [callers EXCEPT ![c] = r], trustProxy' = trustProxy,
         callers[c].pc # "admitted", r.pc # "admitted"
  PROVE  \A k, w : LetThrough(k, w)' = LetThrough(k, w)
<1>1. callers'[c] = r /\ \A d \in Callers \ {c} : callers'[d] = callers[d]
  BY DEF RateShape
<1>2. \A d \in Callers \ {c} : KeyOf(d)' = KeyOf(d)
  BY <1>1 DEF KeyOf, RateLimitKey, ClientIP
<1> QED
  BY <1>1, <1>2 DEF LetThrough

LEMMA LetThroughIsAdded ==
  ASSUME RateShape, NEW c \in Callers, NEW r, NEW k, NEW e, CountsFor(c, r, k, e),
         r.pc = "admitted"
  PROVE  /\ c \notin LetThrough(k, e)
         /\ LetThrough(k, e)' = LetThrough(k, e) \cup {c}
         /\ \A y, w : (y # k \/ w # e) => LetThrough(y, w)' = LetThrough(y, w)
<1>0. /\ k = KeyOf(c) /\ e \in Nat /\ callers' = [callers EXCEPT ![c] = r] /\ trustProxy' = trustProxy
      /\ callers[c].pc # "admitted" /\ r.q = callers[c].q /\ r.window = e
  BY DEF CountsFor
<1>1. callers'[c] = r /\ \A d \in Callers \ {c} : callers'[d] = callers[d]
  BY <1>0 DEF RateShape
<1>2. \A d \in Callers : KeyOf(d)' = KeyOf(d)
  BY <1>0, KeysStay
<1> QED
  BY <1>0, <1>1, <1>2 DEF LetThrough

LEMMA DegradedStay ==
  ASSUME RateShape, NEW c \in Callers, NEW r,
         callers' = [callers EXCEPT ![c] = r],
         callers[c].pc # "degraded", r.pc # "degraded"
  PROVE  DegradedOnes' = DegradedOnes
<1>1. callers'[c] = r /\ \A d \in Callers \ {c} : callers'[d] = callers[d]
  BY DEF RateShape
<1> QED
  BY <1>1 DEF DegradedOnes

\* A caller goes on without being counted and without being admitted.
LEMMA MoveStep ==
  ASSUME RateStrong, NEW c \in Callers, NEW r \in CallerType, r.pc # "idle",
         callers' = [callers EXCEPT ![c] = r],
         UNCHANGED <<clock, trustProxy, counters>>, rateFaults' \in 0..MaxRateFaults,
         r.q \in Asks, CanAsk(r.q),
         \/ callers[c].pc # "idle" /\ r.q = callers[c].q /\ r.hits = callers[c].hits
         \/ callers[c].pc = "idle" /\ r.hits = <<>>,
         callers[c].pc \notin {"admitted", "refused"}, r.pc \notin {"admitted", "ttl"},
         r.pc = "refused" => /\ callers[c].pc = "ttl" /\ r.window = callers[c].window
                             /\ r.window <= r.told
  PROVE  RateShape' /\ EveryCounterEnds' /\ CountsAreHits' /\ Decisions'
<1>1. callers'[c] = r /\ \A d \in Callers \ {c} : callers'[d] = callers[d]
  BY DEF RateStrong, RateShape
<1>2. \A k, w : HitSet(k, w)' = HitSet(k, w)
  BY HitsStay DEF RateStrong
<1>3. \A k, w : LetThrough(k, w)' = LetThrough(k, w)
  BY LetThroughStays DEF RateStrong
<1>4. RateShape'
  <2>1. callers' \in [Callers -> CallerType]
    BY DEF RateStrong, RateShape
  <2>2. ASSUME NEW d \in Callers, callers'[d].pc # "idle"
        PROVE  callers'[d].q \in Asks /\ callers'[d].q.peer = IF trustProxy THEN Proxy ELSE callers'[d].q.realIP
    <3>1. CASE d = c
      BY <1>1, <3>1 DEF CanAsk
    <3>2. CASE d # c
      BY <1>1, <2>2, <3>2 DEF RateStrong, RateShape, CanAsk
    <3> QED
      BY <3>1, <3>2
  <2> QED
    BY <2>1, <2>2 DEF RateStrong, RateShape, CanAsk
<1>5. EveryCounterEnds'
  BY DEF RateStrong, EveryCounterEnds
<1>6. CountsAreHits'
  BY <1>2, <1>3 DEF RateStrong, CountsAreHits
<1>7. Decisions'
  <2>1. \A d \in Callers \ {c} : KeyOf(d)' = KeyOf(d)
    BY <1>1 DEF KeyOf, RateLimitKey, ClientIP
  <2>2. ASSUME NEW d \in Callers
        PROVE  /\ callers'[d].pc = "admitted" =>
                    Cardinality(LetThrough(KeyOf(d), callers[d].window)') <= LimitOf[callers'[d].q.scope]
               /\ callers'[d].pc \in {"ttl", "refused"} =>
                    Cardinality(HitSet(KeyOf(d), callers[d].window)') > LimitOf[callers'[d].q.scope]
               /\ callers'[d].pc = "ttl" => callers'[d].window <= clock' + Window
               /\ callers'[d].pc = "refused" => callers'[d].window <= callers'[d].told
    <3>1. CASE d = c
      <4>1. CASE r.pc = "refused"
        <5>1. KeyOf(c)' = KeyOf(c)
          BY <1>1, <4>1 DEF KeyOf, RateLimitKey, ClientIP
        <5>2. Cardinality(HitSet(KeyOf(c), callers[c].window)) > LimitOf[callers[c].q.scope]
          BY <4>1 DEF RateStrong, Decisions
        <5>3. HitSet(KeyOf(c), callers[c].window)' = HitSet(KeyOf(c), callers[c].window)
          BY <1>1, <1>2, <4>1, <5>1
        <5> QED
          BY <1>1, <3>1, <4>1, <5>2, <5>3
      <4>2. CASE r.pc # "refused"
        BY <1>1, <3>1, <4>2
      <4> QED
        BY <4>1, <4>2
    <3>2. CASE d # c
      <4>1. callers'[d] = callers[d] /\ KeyOf(d)' = KeyOf(d)
        BY <1>1, <2>1, <3>2
      <4>2. /\ HitSet(KeyOf(d), callers[d].window)' = HitSet(KeyOf(d), callers[d].window)
            /\ LetThrough(KeyOf(d), callers[d].window)' = LetThrough(KeyOf(d), callers[d].window)
        BY <1>2, <1>3, <4>1
      <4> QED
        BY <4>1, <4>2 DEF RateStrong, Decisions
    <3> QED
      BY <3>1, <3>2
  <2> QED
    BY <2>2 DEF Decisions
<1> QED
  BY <1>4, <1>5, <1>6, <1>7

\* One more in the window that runs, or the first of a new one.
CountOf(k, counted) ==
  /\ counted \in [n : Nat, expires : Nat] /\ counted.expires \in 1..(clock + Window)
  /\ \/ /\ counters[k].n > 0 /\ clock < counters[k].expires
        /\ counted.n = counters[k].n + 1 /\ counted.expires = counters[k].expires
     \/ /\ counters[k].n = 0 \/ counters[k].expires <= clock
        /\ counted.n = 1 /\ counted.expires = clock + Window

\* INCREX and the script count alike: the two take turns on one key.
LEMMA BothCount ==
  ASSUME RateStrong, NEW k \in Keys
  PROVE  CountOf(k, IncrexOn(Counter(k))) /\ CountOf(k, IncrWindowScript(Counter(k)))
<1>1. /\ clock \in Nat /\ Window \in Nat /\ Window > 0
      /\ counters[k].n \in Nat /\ counters[k].expires \in Nat
  BY RateAssumption DEF RateStrong, RateShape
<1>2. counters[k].n > 0 => counters[k].expires \in 1..(clock + Window)
  BY DEF RateStrong, EveryCounterEnds
<1>3. CASE counters[k].n > 0 /\ clock < counters[k].expires
  <2>1. Counter(k) = counters[k]
    BY <1>3 DEF Counter, Live
  <2> QED
    BY <1>1, <1>2, <1>3, <2>1 DEF CountOf, IncrexOn, IncrWindowScript, NoTTL
<1>4. CASE counters[k].n = 0 \/ counters[k].expires <= clock
  <2>1. Counter(k) = [n |-> 0, expires |-> 0]
    BY <1>1, <1>2, <1>4 DEF Counter, Live, Gone, NoTTL
  <2> QED
    BY <1>1, <1>4, <2>1 DEF CountOf, IncrexOn, IncrWindowScript, NoTTL
<1> QED
  BY <1>1, <1>3, <1>4

\* An execution of the count, whatever becomes of its answer.
LEMMA CountStep ==
  ASSUME RateStrong, NEW c \in Callers, NEW r \in CallerType, NEW counted,
         CountOf(KeyOf(c), counted),
         callers' = [callers EXCEPT ![c] = r],
         counters' = [counters EXCEPT ![KeyOf(c)] = counted],
         UNCHANGED <<clock, trustProxy>>, rateFaults' \in 0..MaxRateFaults,
         callers[c].pc \in {"increx", "script"},
         r.q = callers[c].q, r.hits = Append(callers[c].hits, counted.expires),
         \/ r.pc \in {"increx", "script"}
         \/ /\ r.pc = "ttl" /\ counted.n > LimitOf[callers[c].q.scope]
            /\ r.window = counted.expires
         \/ /\ r.pc = "admitted" /\ counted.n <= LimitOf[callers[c].q.scope]
            /\ r.window = counted.expires
  PROVE  RateShape' /\ EveryCounterEnds' /\ CountsAreHits' /\ Decisions'
<1>1. callers'[c] = r /\ \A d \in Callers \ {c} : callers'[d] = callers[d]
  BY DEF RateStrong, RateShape
<1>2. PICK k : k = KeyOf(c)
  OBVIOUS
<1>3. PICK e : e = counted.expires
  OBVIOUS
<1>4. k \in Keys
  BY <1>2, KeyIsKey DEF RateStrong, RateShape, KeyOf
<1>5. /\ counted \in [n : Nat, expires : Nat] /\ e \in Nat /\ e \in 1..(clock + Window)
      /\ clock \in Nat /\ counters[k] \in [n : Nat, expires : Nat]
  BY <1>2, <1>3, <1>4 DEF CountOf, RateStrong, RateShape
<1>6. counters'[k] = counted /\ \A x \in Keys \ {k} : counters'[x] = counters[x]
  BY <1>2, <1>4 DEF RateStrong, RateShape
<1>7. RateShape'
  <2>1. callers' \in [Callers -> CallerType] /\ counters' \in [Keys -> [n : Nat, expires : Nat]]
    BY <1>2, <1>4, <1>5 DEF RateStrong, RateShape
  <2>2. ASSUME NEW d \in Callers, callers'[d].pc # "idle"
        PROVE  callers'[d].q \in Asks /\ callers'[d].q.peer = IF trustProxy THEN Proxy ELSE callers'[d].q.realIP
    <3>1. CASE d = c
      BY <1>1, <3>1 DEF RateStrong, RateShape, CanAsk
    <3>2. CASE d # c
      BY <1>1, <2>2, <3>2 DEF RateStrong, RateShape, CanAsk
    <3> QED
      BY <3>1, <3>2
  <2> QED
    BY <2>1, <2>2 DEF RateStrong, RateShape, CanAsk
<1>8. EveryCounterEnds'
  BY <1>3, <1>5, <1>6 DEF RateStrong, EveryCounterEnds
<1>9. \A d \in Callers : KeyOf(d)' = KeyOf(d) /\ callers'[d].q = callers[d].q
  BY <1>1, SMTT(30) DEF KeyOf, RateLimitKey, ClientIP
<1>20. CountsFor(c, r, k, e) /\ RateShape
  BY <1>2, <1>3, <1>5 DEF RateStrong, CountsFor
<1>10. PICK i : <<c, i>> \notin HitSet(k, e) /\ HitSet(k, e)' = HitSet(k, e) \cup {<<c, i>>}
                /\ \A x, w : (x # k \/ w # e) => HitSet(x, w)' = HitSet(x, w)
  <2>1. /\ <<c, Len(callers[c].hits) + 1>> \notin HitSet(k, e)
        /\ HitSet(k, e)' = HitSet(k, e) \cup {<<c, Len(callers[c].hits) + 1>>}
        /\ \A y, w : (y # k \/ w # e) => HitSet(y, w)' = HitSet(y, w)
    BY <1>20, HitIsAdded
  <2> DEFINE n == Len(callers[c].hits) + 1
  <2>2. /\ <<c, n>> \notin HitSet(k, e) /\ HitSet(k, e)' = HitSet(k, e) \cup {<<c, n>>}
        /\ \A x, w : (x # k \/ w # e) => HitSet(x, w)' = HitSet(x, w)
    BY <2>1
  <2> HIDE DEF n
  <2> QED
    BY <2>2
<1>11. /\ \/ LetThrough(k, e)' = LetThrough(k, e)
          \/ c \notin LetThrough(k, e) /\ LetThrough(k, e)' = LetThrough(k, e) \cup {c}
       /\ \A x, w : (x # k \/ w # e) => LetThrough(x, w)' = LetThrough(x, w)
  <2>1. CASE r.pc = "admitted"
    BY <1>20, <2>1, LetThroughIsAdded
  <2>2. CASE r.pc # "admitted"
    <3>1. \A x, w : LetThrough(x, w)' = LetThrough(x, w)
      BY <2>2, LetThroughStays DEF RateStrong
    <3> QED
      BY <3>1
  <2> QED
    BY <2>1, <2>2
<1>12. /\ \A w \in Nat : /\ IsFiniteSet(HitSet(k, w)) /\ IsFiniteSet(LetThrough(k, w))
                         /\ HitSet(k, w) \cup LetThrough(k, w) # {} =>
                              counters[k].n > 0 /\ w <= counters[k].expires
       /\ counters[k].n > 0 =>
            /\ Cardinality(HitSet(k, counters[k].expires)) = counters[k].n
            /\ Cardinality(LetThrough(k, counters[k].expires)) <= counters[k].n
  BY <1>4 DEF RateStrong, CountsAreHits
<1>13. /\ IsFiniteSet(HitSet(k, e)) /\ IsFiniteSet(LetThrough(k, e))
       /\ Cardinality(HitSet(k, e)) = counted.n - 1 /\ Cardinality(LetThrough(k, e)) <= counted.n - 1
       /\ counted.n > 0 /\ \A w \in Nat : HitSet(k, w) \cup LetThrough(k, w) # {} => w <= e
  <2>1. CASE counters[k].n > 0 /\ clock < counters[k].expires /\ counted.n = counters[k].n + 1
               /\ e = counters[k].expires
    <3>1. /\ Cardinality(HitSet(k, e)) = counters[k].n /\ Cardinality(LetThrough(k, e)) <= counters[k].n
          /\ counters[k].n \in Nat /\ counted.n - 1 = counters[k].n
      BY <1>5, <1>12, <2>1
    <3>2. IsFiniteSet(HitSet(k, e)) /\ IsFiniteSet(LetThrough(k, e))
      BY <1>5, <1>12
    <3>3. \A w \in Nat : HitSet(k, w) \cup LetThrough(k, w) # {} => w <= e
      BY <1>12, <2>1
    <3> QED
      BY <1>5, <2>1, <3>1, <3>2, <3>3
  <2>2. CASE (counters[k].n = 0 \/ counters[k].expires <= clock) /\ counted.n = 1 /\ e = clock + Window
    <3>1. HitSet(k, e) \cup LetThrough(k, e) = {}
      BY <1>5, <1>12, <2>2, RateAssumption
    <3>2. HitSet(k, e) = {} /\ LetThrough(k, e) = {}
      BY <3>1
    <3>3. Cardinality(HitSet(k, e)) = 0 /\ Cardinality(LetThrough(k, e)) = 0
      BY <3>2, FS_EmptySet
    <3>4. IsFiniteSet(HitSet(k, e)) /\ IsFiniteSet(LetThrough(k, e))
      BY <1>5, <1>12
    <3>5. \A w \in Nat : HitSet(k, w) \cup LetThrough(k, w) # {} => w <= e
      BY <1>5, <1>12, <2>2, RateAssumption
    <3> QED
      BY <2>2, <3>3, <3>4, <3>5
  <2> QED
    BY <1>2, <1>3, <2>1, <2>2 DEF CountOf
<1>14. /\ IsFiniteSet(HitSet(k, e)') /\ Cardinality(HitSet(k, e)') = counted.n
       /\ IsFiniteSet(LetThrough(k, e)') /\ Cardinality(LetThrough(k, e)') <= counted.n
       /\ Cardinality(LetThrough(k, e)') \in Nat
  <2>1. IsFiniteSet(HitSet(k, e)') /\ Cardinality(HitSet(k, e)') = counted.n
    <3>1. /\ IsFiniteSet(HitSet(k, e) \cup {<<c, i>>})
          /\ Cardinality(HitSet(k, e) \cup {<<c, i>>}) = Cardinality(HitSet(k, e)) + 1
      BY <1>10, <1>13, FS_AddElement
    <3> QED
      BY <1>5, <1>10, <1>13, <3>1
  <2>2. CASE LetThrough(k, e)' = LetThrough(k, e)
    BY <1>5, <1>13, <2>1, <2>2, FS_CardinalityType
  <2>3. CASE c \notin LetThrough(k, e) /\ LetThrough(k, e)' = LetThrough(k, e) \cup {c}
    <3>1. /\ IsFiniteSet(LetThrough(k, e) \cup {c})
          /\ Cardinality(LetThrough(k, e) \cup {c}) = Cardinality(LetThrough(k, e)) + 1
          /\ Cardinality(LetThrough(k, e)) \in Nat
      BY <1>13, <2>3, FS_AddElement, FS_CardinalityType
    <3> QED
      BY <1>5, <1>13, <2>1, <2>3, <3>1
  <2> QED
    BY <1>11, <2>2, <2>3
<1>15. CountsAreHits'
  <2>1. ASSUME NEW x \in Keys, NEW w \in Nat
        PROVE  /\ IsFiniteSet(HitSet(x, w)') /\ IsFiniteSet(LetThrough(x, w)')
               /\ HitSet(x, w)' \cup LetThrough(x, w)' # {} =>
                    counters'[x].n > 0 /\ w <= counters'[x].expires
    <3>1. CASE x = k /\ w = e
      BY <1>3, <1>5, <1>6, <1>13, <1>14, <3>1
    <3>2. CASE x = k /\ w # e
      BY <1>3, <1>6, <1>10, <1>11, <1>12, <1>13, <3>2
    <3>3. CASE x # k
      <4>1. HitSet(x, w)' = HitSet(x, w) /\ LetThrough(x, w)' = LetThrough(x, w)
        BY <1>10, <1>11, <3>3
      <4> QED
        BY <1>6, <3>3, <4>1 DEF RateStrong, CountsAreHits
    <3> QED
      BY <3>1, <3>2, <3>3
  <2>2. ASSUME NEW x \in Keys, NEW w, w = counters'[x].expires, counters'[x].n > 0
        PROVE  /\ Cardinality(HitSet(x, w)') = counters'[x].n
               /\ Cardinality(LetThrough(x, w)') <= counters'[x].n
    <3>1. CASE x = k
      BY <1>3, <1>6, <1>14, <2>2, <3>1
    <3>2. CASE x # k
      <4>1. HitSet(x, w)' = HitSet(x, w) /\ LetThrough(x, w)' = LetThrough(x, w)
        BY <1>10, <1>11, <3>2
      <4> QED
        BY <1>6, <2>2, <3>2, <4>1 DEF RateStrong, CountsAreHits
    <3> QED
      BY <3>1, <3>2
  <2> QED
    BY <2>1, <2>2 DEF CountsAreHits
<1>16. Decisions'
  <2>1. ASSUME NEW d \in Callers, NEW x, x = KeyOf(d), NEW w, w = callers'[d].window
        PROVE  /\ callers'[d].pc = "admitted" =>
                    Cardinality(LetThrough(x, w)') <= LimitOf[callers'[d].q.scope]
               /\ callers'[d].pc \in {"ttl", "refused"} =>
                    Cardinality(HitSet(x, w)') > LimitOf[callers'[d].q.scope]
               /\ callers'[d].pc = "ttl" => callers'[d].window <= clock' + Window
               /\ callers'[d].pc = "refused" => callers'[d].window <= callers'[d].told
    <3>1. CASE d = c
      <4>1. x = k /\ callers'[d] = r /\ callers'[d].q = callers[c].q
        BY <1>1, <1>2, <2>1, <3>1
      <4>2. LimitOf[callers[c].q.scope] \in Nat
        BY KeyIsKey, RateAssumption DEF RateStrong, RateShape
      <4>3. CASE r.pc \in {"increx", "script"}
        BY <4>1, <4>3
      <4>4. CASE r.pc = "ttl" /\ counted.n > LimitOf[callers[c].q.scope] /\ r.window = counted.expires
        <5>1. w = e /\ clock' = clock /\ e <= clock + Window
          BY <1>3, <1>5, <2>1, <4>1, <4>4
        <5>2. Cardinality(HitSet(x, w)') = counted.n
          BY <1>14, <4>1, <5>1
        <5> QED
          BY <2>1, <4>1, <4>4, <5>1, <5>2
      <4>5. CASE r.pc = "admitted" /\ counted.n <= LimitOf[callers[c].q.scope] /\ r.window = counted.expires
        <5>1. w = e
          BY <1>3, <2>1, <4>1, <4>5
        <5>2. Cardinality(LetThrough(x, w)') <= counted.n /\ Cardinality(LetThrough(x, w)') \in Nat
          BY <1>14, <4>1, <5>1
        <5> QED
          BY <1>5, <2>1, <4>1, <4>2, <4>5, <5>2, SMTT(30)
      <4> QED
        BY <4>3, <4>4, <4>5
    <3>2. CASE d # c
      <4>1. callers'[d] = callers[d]
        BY <1>1, <3>2
      <4>0. CASE callers[d].pc \notin {"admitted", "ttl", "refused"}
        BY <4>0, <4>1
      <4>2. CASE callers[d].pc \in {"admitted", "ttl", "refused"}
        <5>0. /\ w \in Nat /\ callers[d].q \in Asks /\ LimitOf[callers[d].q.scope] \in Nat
              /\ x \in Keys /\ callers[d] \in CallerType /\ w = callers[d].window
          BY <2>1, <4>1, <4>2, KeyIsKey, RateAssumption DEF RateStrong, RateShape, CallerType, KeyOf
        <5>1. /\ callers[d].pc = "admitted" =>
                   Cardinality(LetThrough(x, w)) <= LimitOf[callers[d].q.scope]
              /\ callers[d].pc \in {"ttl", "refused"} =>
                   Cardinality(HitSet(x, w)) > LimitOf[callers[d].q.scope]
              /\ callers[d].pc = "ttl" => callers[d].window <= clock + Window
              /\ callers[d].pc = "refused" => callers[d].window <= callers[d].told
          BY <2>1, <5>0 DEF RateStrong, Decisions
        <5>2. CASE x # k \/ w # e
          BY <1>10, <1>11, <4>1, <5>1, <5>2
        <5>3. CASE x = k /\ w = e
          <6>1. callers[d].q.scope = callers[c].q.scope
            <7>1. callers[c].q \in Asks /\ CanAsk(callers[c].q) /\ CanAsk(callers[d].q)
              BY <4>2 DEF RateStrong, RateShape
            <7>2. RateLimitKey(callers[d].q) = RateLimitKey(callers[c].q)
              BY <1>2, <2>1, <5>3 DEF KeyOf
            <7> QED
              BY <5>0, <7>1, <7>2, KeyIsQuota
          <6>2. callers[d].pc = "admitted" => Cardinality(LetThrough(x, w)') <= LimitOf[callers[d].q.scope]
            <7>1. CASE LetThrough(k, e)' = LetThrough(k, e)
              BY <5>1, <5>3, <7>1
            <7>2. CASE LetThrough(k, e)' # LetThrough(k, e)
              <8>1. r.pc = "admitted"
                <9>1. ASSUME r.pc # "admitted" PROVE \A y, z : LetThrough(y, z)' = LetThrough(y, z)
                  BY <9>1, LetThroughStays DEF RateStrong
                <9> QED
                  BY <7>2, <9>1
              <8>2. counted.n <= LimitOf[callers[c].q.scope]
                BY <8>1
              <8> QED
                BY <1>5, <1>14, <5>0, <5>3, <6>1, <8>2
            <7> QED
              BY <7>1, <7>2
          <6>3. callers[d].pc \in {"ttl", "refused"} => Cardinality(HitSet(x, w)') > LimitOf[callers[d].q.scope]
            BY <1>5, <1>13, <1>14, <5>0, <5>1, <5>3
          <6> QED
            BY <4>1, <5>1, <6>2, <6>3
        <5> QED
          BY <5>2, <5>3
      <4> QED
        BY <4>0, <4>2
    <3> QED
      BY <3>1, <3>2
  <2> QED
    BY <1>9, <2>1 DEF Decisions
<1> QED
  BY <1>7, <1>8, <1>15, <1>16

\* Nothing is counted and nobody moves.
LEMMA RestStep ==
  ASSUME RateStrong, UNCHANGED <<trustProxy, counters, callers>>,
         clock' \in 0..MaxRateTime, clock' >= clock, rateFaults' \in 0..MaxRateFaults
  PROVE  RateShape' /\ EveryCounterEnds' /\ CountsAreHits' /\ Decisions'
<1>0. clock \in Nat /\ clock' \in Nat /\ Window \in Nat
  BY RateAssumption DEF RateStrong, RateShape
<1>1. RateShape'
  BY DEF RateStrong, RateShape, CanAsk
<1>2. EveryCounterEnds'
  <2>1. ASSUME NEW k \in Keys, counters'[k].n > 0
        PROVE  counters'[k].expires \in 1..(clock' + Window)
    BY <1>0, <2>1 DEF RateStrong, RateShape, EveryCounterEnds
  <2> QED
    BY <2>1 DEF EveryCounterEnds
<1>3. \A k, w : HitSet(k, w)' = HitSet(k, w) /\ LetThrough(k, w)' = LetThrough(k, w)
  BY DEF HitSet, LetThrough, KeyOf, RateLimitKey, ClientIP
<1>4. \A d \in Callers : KeyOf(d)' = KeyOf(d)
  BY DEF KeyOf, RateLimitKey, ClientIP
<1>5. CountsAreHits'
  BY <1>3 DEF RateStrong, CountsAreHits
<1>6. Decisions'
  <2>1. ASSUME NEW d \in Callers, NEW x, x = KeyOf(d), NEW w, w = callers'[d].window
        PROVE  /\ callers'[d].pc = "admitted" =>
                    Cardinality(LetThrough(x, w)') <= LimitOf[callers'[d].q.scope]
               /\ callers'[d].pc \in {"ttl", "refused"} =>
                    Cardinality(HitSet(x, w)') > LimitOf[callers'[d].q.scope]
               /\ callers'[d].pc = "refused" => callers'[d].window <= callers'[d].told
    BY <1>3, <2>1 DEF RateStrong, Decisions
  <2>2. ASSUME NEW d \in Callers, callers'[d].pc = "ttl"
        PROVE  callers'[d].window <= clock' + Window
    <3>1. callers[d].window \in Nat /\ callers[d].window <= clock + Window
      BY <2>2 DEF RateStrong, RateShape, CallerType, Decisions
    <3> QED
      BY <1>0, <3>1
  <2> QED
    BY <1>4, <2>1, <2>2 DEF Decisions
<1> QED
  BY <1>1, <1>2, <1>5, <1>6

LEMMA DegradedNumber ==
  IsFiniteSet(DegradedOnes) /\ Cardinality(DegradedOnes) \in 0..Cardinality(Callers)
<1>1. DegradedOnes \subseteq Callers
  BY DEF DegradedOnes
<1> QED
  BY <1>1, FS_Subset, FS_CardinalityType, RateAssumption

\* The inductive invariant of the rate limiter.
THEOREM RateInvariant == RateSpec => []RateStrong
<1>1. RateInit => RateStrong
  <2> SUFFICES ASSUME RateInit PROVE RateStrong
    OBVIOUS
  <2>1. \A c \in Callers : callers[c] = Idle
    BY DEF RateInit
  <2>2. \A k, w : HitSet(k, w) = {} /\ LetThrough(k, w) = {}
    BY <2>1 DEF HitSet, LetThrough, Idle
  <2>3. DegradedOnes = {}
    BY <2>1 DEF DegradedOnes, Idle
  <2>4. RateShape
    <3>1. Idle \in CallerType
      <4>1. <<>> \in Seq(Nat)
        OBVIOUS
      <4> QED
        BY <4>1 DEF Idle, CallerType, PCs
    <3>2. callers \in [Callers -> CallerType]
      BY <3>1 DEF RateInit
    <3>3. Gone \in [n : Nat, expires : Nat]
      BY DEF Gone, NoTTL
    <3>4. counters \in [Keys -> [n : Nat, expires : Nat]]
      BY <3>3 DEF RateInit
    <3>5. clock \in 0..MaxRateTime /\ rateFaults \in 0..MaxRateFaults
      BY RateAssumption DEF RateInit
    <3>6. \A c \in Callers : callers[c].pc = "idle"
      BY <2>1 DEF Idle
    <3>7. trustProxy \in BOOLEAN
      BY DEF RateInit
    <3> QED
      BY <3>2, <3>4, <3>5, <3>6, <3>7 DEF RateShape
  <2>5. \A k \in Keys : counters[k].n = 0
    BY DEF RateInit, Gone
  <2>6. EveryCounterEnds
    BY <2>5 DEF EveryCounterEnds
  <2>7. CountsAreHits
    BY <2>2, <2>5, FS_EmptySet DEF CountsAreHits
  <2>8. Decisions
    BY <2>1 DEF Decisions, Idle
  <2>9. degradeCount = Cardinality(DegradedOnes)
    BY <2>3, FS_EmptySet DEF RateInit
  <2> QED
    BY <2>4, <2>6, <2>7, <2>8, <2>9 DEF RateStrong
<1>2. RateStrong /\ [RateNext]_rateVars => RateStrong'
  <2> SUFFICES ASSUME RateStrong, [RateNext]_rateVars PROVE RateStrong'
    OBVIOUS
  <2>0. /\ rateFaults \in 0..MaxRateFaults /\ callers \in [Callers -> CallerType]
        /\ clock \in 0..MaxRateTime /\ clock \in Nat /\ MaxRateTime \in Nat /\ MaxRateFaults \in Nat
        /\ RateShape
        /\ \A c \in Callers : callers[c].pc # "idle" => callers[c].q \in Asks /\ CanAsk(callers[c].q)
    BY RateAssumption DEF RateStrong, RateShape
  <2>00. RateFault \/ NoFault => rateFaults' \in 0..MaxRateFaults
    BY <2>0 DEF RateFault, NoFault
  <2>1. ASSUME NEW c \in Callers, NEW q \in Asks, Ask(c, q)
        PROVE  RateStrong'
    <3> DEFINE r == [Idle EXCEPT !.q = q,
                      !.pc = IF LimitOf[q.scope] = 0 \/ disabled THEN "uncounted"
                             ELSE IF increx THEN "increx" ELSE "script"]
    <3>1. /\ callers' = [callers EXCEPT ![c] = r] /\ callers[c].pc = "idle" /\ CanAsk(q)
          /\ UNCHANGED <<clock, trustProxy, counters, degradeCount, rateFaults>>
      BY <2>1 DEF Ask
    <3>2. /\ r \in CallerType /\ r.q = q /\ r.hits = <<>>
          /\ r.pc \in {"uncounted", "increx", "script"}
      <4>1. <<>> \in Seq(Nat)
        OBVIOUS
      <4> QED
        BY <4>1 DEF Idle, CallerType, PCs
    <3> HIDE DEF r
    <3>3. RateShape' /\ EveryCounterEnds' /\ CountsAreHits' /\ Decisions'
      BY <2>0, <3>1, <3>2, MoveStep
    <3>4. DegradedOnes' = DegradedOnes
      BY <2>0, <3>1, <3>2, DegradedStay
    <3> QED
      BY <3>1, <3>3, <3>4 DEF RateStrong
  <2>2. ASSUME NEW c \in Callers, NEW counted, NEW onLoss, CountOf(KeyOf(c), counted),
               callers[c].pc \in {"increx", "script"}, onLoss \subseteq {"increx", "script"},
               Execute(c, counted, onLoss), UNCHANGED <<clock, trustProxy, degradeCount>>
        PROVE  RateStrong'
    <3>0. counted \in [n : Nat, expires : Nat] /\ callers[c] \in CallerType
      BY <2>0, <2>2 DEF CountOf
    <3>00. callers[c].hits \in Seq(Nat) /\ Append(callers[c].hits, counted.expires) \in Seq(Nat)
      BY <3>0 DEF CallerType
    <3>1. PICK r : /\ callers' = [callers EXCEPT ![c] = r] /\ r \in CallerType
                   /\ r.q = callers[c].q /\ r.hits = Append(callers[c].hits, counted.expires)
                   /\ \/ r.pc \in {"increx", "script"}
                      \/ /\ r.pc = "ttl" /\ counted.n > LimitOf[callers[c].q.scope]
                         /\ r.window = counted.expires
                      \/ /\ r.pc = "admitted" /\ counted.n <= LimitOf[callers[c].q.scope]
                         /\ r.window = counted.expires
      <4>1. CASE callers' = [callers EXCEPT ![c] = Decided(c, counted)]
        <5> DEFINE r == Decided(c, counted)
        <5>1. counted.n \in Nat /\ LimitOf[callers[c].q.scope] \in Nat
          BY <2>0, <2>2, <3>0, KeyIsKey, RateAssumption
        <5>2. /\ r \in CallerType /\ r.q = callers[c].q
              /\ r.hits = Append(callers[c].hits, counted.expires) /\ r.window = counted.expires
              /\ r.pc = IF counted.n > LimitOf[callers[c].q.scope] THEN "ttl" ELSE "admitted"
          BY <3>0, <3>00 DEF Decided, CallerType, PCs
        <5> HIDE DEF r
        <5>3. callers' = [callers EXCEPT ![c] = r]
          BY <4>1 DEF r
        <5>4. \/ r.pc = "ttl" /\ counted.n > LimitOf[callers[c].q.scope]
              \/ r.pc = "admitted" /\ counted.n <= LimitOf[callers[c].q.scope]
          <6>1. CASE counted.n > LimitOf[callers[c].q.scope]
            BY <5>2, <6>1
          <6>2. CASE ~(counted.n > LimitOf[callers[c].q.scope])
            BY <5>1, <5>2, <6>2
          <6> QED
            BY <6>1, <6>2
        <5> QED
          BY <5>2, <5>3, <5>4
      <4>2. ASSUME NEW next \in onLoss,
                   callers' = [callers EXCEPT ![c].pc = next,
                                              ![c].hits = Append(@, counted.expires)]
            PROVE  \E r : /\ callers' = [callers EXCEPT ![c] = r] /\ r \in CallerType
                          /\ r.q = callers[c].q /\ r.hits = Append(callers[c].hits, counted.expires)
                          /\ r.pc \in {"increx", "script"}
        <5> DEFINE r == [callers[c] EXCEPT !.pc = next, !.hits = Append(@, counted.expires)]
        <5>1. /\ r \in CallerType /\ r.q = callers[c].q
              /\ r.hits = Append(callers[c].hits, counted.expires) /\ r.pc = next
          BY <2>2, <3>0, <3>00 DEF CallerType, PCs
        <5>2. callers' = [callers EXCEPT ![c] = r]
          BY <2>0, <4>2
        <5> HIDE DEF r
        <5> QED
          BY <2>2, <5>1, <5>2
      <4> QED
        BY <2>2, <4>1, <4>2 DEF Execute
    <3>2. counters' = [counters EXCEPT ![KeyOf(c)] = counted] /\ rateFaults' \in 0..MaxRateFaults
      BY <2>00, <2>2 DEF Execute, KeyOf
    <3>3. RateShape' /\ EveryCounterEnds' /\ CountsAreHits' /\ Decisions'
      BY <2>2, <3>1, <3>2, CountStep
    <3>4. DegradedOnes' = DegradedOnes
      BY <2>0, <2>2, <3>1, DegradedStay
    <3> QED
      BY <2>2, <3>3, <3>4 DEF RateStrong
  <2>3. ASSUME NEW c \in Callers, callers[c].pc \notin {"idle", "admitted", "refused", "degraded"},
               NEW r, r \in CallerType, callers' = [callers EXCEPT ![c] = r],
               UNCHANGED <<clock, trustProxy, counters, degradeCount>>, rateFaults' \in 0..MaxRateFaults,
               r.q = callers[c].q, r.hits = callers[c].hits,
               \/ r.pc \in {"increx", "script"}
               \/ /\ r.pc = "refused" /\ callers[c].pc = "ttl" /\ r.window = callers[c].window
                  /\ r.window <= r.told
        PROVE  RateStrong'
    <3>1. RateShape' /\ EveryCounterEnds' /\ CountsAreHits' /\ Decisions'
      BY <2>0, <2>3, MoveStep
    <3>2. DegradedOnes' = DegradedOnes
      BY <2>0, <2>3, DegradedStay
    <3> QED
      BY <2>3, <3>1, <3>2 DEF RateStrong
  <2>4. ASSUME NEW c \in Callers, Increx(c)
        PROVE  RateStrong'
    <3>1. CASE Execute(c, IncrexOn(Counter(RateLimitKey(callers[c].q))), {"increx", "script"})
      <4>1. CountOf(KeyOf(c), IncrexOn(Counter(KeyOf(c))))
        BY <2>0, <2>4, KeyIsKey, BothCount DEF Increx, KeyOf
      <4>2. PICK counted : counted = IncrexOn(Counter(RateLimitKey(callers[c].q)))
        OBVIOUS
      <4>3. CountOf(KeyOf(c), counted) /\ Execute(c, counted, {"increx", "script"})
        BY <3>1, <4>1, <4>2 DEF KeyOf
      <4>4. callers[c].pc = "increx" /\ UNCHANGED <<clock, trustProxy, degradeCount>>
        BY <2>4 DEF Increx
      <4> QED
        BY <2>2, <4>3, <4>4
    <3>2. CASE RateFault /\ callers' = [callers EXCEPT ![c].pc = "script"] /\ UNCHANGED counters
      <4> DEFINE r == [callers[c] EXCEPT !.pc = "script"]
      <4>1. r \in CallerType /\ r.q = callers[c].q /\ r.hits = callers[c].hits /\ r.pc = "script"
        BY <2>0 DEF CallerType, PCs
      <4>2. callers' = [callers EXCEPT ![c] = r]
        BY <2>0, <3>2
      <4> HIDE DEF r
      <4>3. callers[c].pc = "increx" /\ UNCHANGED <<clock, trustProxy, counters, degradeCount>>
        BY <2>4, <3>2 DEF Increx
      <4> QED
        BY <2>00, <2>3, <3>2, <4>1, <4>2, <4>3
    <3> QED
      BY <2>4, <3>1, <3>2 DEF Increx
  <2>5. ASSUME NEW c \in Callers, Script(c)
        PROVE  RateStrong'
    <3>1. CountOf(KeyOf(c), IncrWindowScript(Counter(KeyOf(c))))
      BY <2>0, <2>5, KeyIsKey, BothCount DEF Script, KeyOf
    <3>2. PICK counted : counted = IncrWindowScript(Counter(RateLimitKey(callers[c].q)))
      OBVIOUS
    <3>3. CountOf(KeyOf(c), counted) /\ Execute(c, counted, {"script"})
      BY <2>5, <3>1, <3>2 DEF KeyOf, Script
    <3>4. callers[c].pc = "script" /\ UNCHANGED <<clock, trustProxy, degradeCount>>
      BY <2>5 DEF Script
    <3> QED
      BY <2>2, <3>3, <3>4
  <2>6. ASSUME NEW c \in Callers, Degrade(c)
        PROVE  RateStrong'
    <3> DEFINE r == [callers[c] EXCEPT !.pc = "degraded"]
    <3>1. r \in CallerType /\ r.q = callers[c].q /\ r.hits = callers[c].hits /\ r.pc = "degraded"
      BY <2>0 DEF CallerType, PCs
    <3>2. /\ callers' = [callers EXCEPT ![c] = r] /\ callers[c].pc = "script"
          /\ UNCHANGED <<clock, trustProxy, counters>> /\ degradeCount' = degradeCount + 1
          /\ rateFaults' \in 0..MaxRateFaults
      BY <2>0, <2>00, <2>6 DEF Degrade
    <3> HIDE DEF r
    <3>3. RateShape' /\ EveryCounterEnds' /\ CountsAreHits' /\ Decisions'
      BY <2>0, <3>1, <3>2, MoveStep
    <3>4. c \notin DegradedOnes /\ DegradedOnes' = DegradedOnes \cup {c}
      <4>1. callers'[c] = r /\ \A d \in Callers \ {c} : callers'[d] = callers[d]
        BY <2>0, <3>2
      <4> QED
        BY <3>1, <3>2, <4>1 DEF DegradedOnes
    <3>5. Cardinality(DegradedOnes \cup {c}) = Cardinality(DegradedOnes) + 1
      BY <3>4, DegradedNumber, FS_AddElement
    <3> QED
      BY <3>2, <3>3, <3>4, <3>5 DEF RateStrong
  <2>7. ASSUME NEW c \in Callers, Refuse(c)
        PROVE  RateStrong'
    <3>0. /\ callers[c].pc = "ttl" /\ UNCHANGED <<clock, trustProxy, counters, degradeCount>>
          /\ rateFaults' \in 0..MaxRateFaults /\ callers[c] \in CallerType
          /\ callers[c].q \in Asks /\ callers[c].window \in Nat
      BY <2>0, <2>00, <2>7 DEF Refuse, CallerType
    <3>1. PICK k : k = KeyOf(c)
      OBVIOUS
    <3>2. PICK w \in Nat : w = callers[c].window
      BY <3>0
    <3>3. k \in Keys /\ counters[k].n \in Nat /\ counters[k].expires \in Nat /\ Window \in Nat
      BY <3>0, <3>1, KeyIsKey, RateAssumption DEF KeyOf, RateStrong, RateShape
    <3>4. w <= clock + Window /\ w <= counters[k].expires
      <4>1. Cardinality(HitSet(k, w)) > LimitOf[callers[c].q.scope] /\ w <= clock + Window
        BY <3>0, <3>1, <3>2 DEF RateStrong, Decisions
      <4>2. LimitOf[callers[c].q.scope] \in Nat
        BY <3>0, KeyIsKey, RateAssumption
      <4>3. HitSet(k, w) # {}
        BY <4>1, <4>2, FS_EmptySet
      <4>4. HitSet(k, w) \cup LetThrough(k, w) # {}
        BY <4>3
      <4> QED
        BY <3>3, <4>1, <4>4 DEF RateStrong, CountsAreHits
    <3>5. PICK t \in Nat : Refused(c, t) /\ w <= clock + t
      <4>1. CASE Refused(c, Window)
        BY <3>3, <3>4, <4>1
      <4>2. CASE Refused(c, IF Live(k) /\ counters[k].expires # NoTTL
                            THEN counters[k].expires - clock ELSE Window)
        <5>1. CASE Live(k) /\ counters[k].expires # NoTTL
          <6>1. clock < counters[k].expires
            BY <5>1 DEF Live
          <6>2. PICK t : t = counters[k].expires - clock
            OBVIOUS
          <6>3. t \in Nat /\ w <= clock + t
            BY <2>0, <3>3, <3>4, <6>1, <6>2
          <6>4. Refused(c, t)
            BY <4>2, <5>1, <6>2
          <6> QED
            BY <6>3, <6>4
        <5>2. CASE ~(Live(k) /\ counters[k].expires # NoTTL)
          <6>1. Refused(c, Window)
            BY <4>2, <5>2
          <6> QED
            BY <3>3, <3>4, <6>1
        <5> QED
          BY <5>1, <5>2
      <4> QED
        BY <2>7, <3>1, <4>1, <4>2 DEF Refuse, KeyOf
    <3>6. PICK s \in Nat : s = RetryAfterHeader(t) * Second /\ s >= t
      <4>1. RetryAfterHeader(t) \in Nat /\ RetryAfterHeader(t) * Second >= t /\ Second \in Nat
        BY RetryCovers, RateAssumption
      <4>2. RetryAfterHeader(t) * Second \in Nat
        BY <4>1
      <4> QED
        BY <4>1, <4>2
    <3> DEFINE r == [callers[c] EXCEPT !.pc = "refused", !.told = clock + s]
    <3>7. /\ r \in CallerType /\ r.q = callers[c].q /\ r.hits = callers[c].hits /\ r.pc = "refused"
          /\ r.window = w /\ r.told = clock + s
      <4>1. clock + s \in Nat
        BY <2>0
      <4>2. PICK told \in Nat : told = clock + s
        BY <4>1
      <4>3. r = [callers[c] EXCEPT !.pc = "refused", !.told = told]
        BY <4>2
      <4> QED
        BY <3>0, <3>2, <4>2, <4>3 DEF CallerType, PCs
    <3>8. callers' = [callers EXCEPT ![c] = r]
      BY <2>0, <3>5, <3>6 DEF Refused
    <3> HIDE DEF r
    <3>9. w <= clock + s
      BY <2>0, <3>5, <3>6
    <3> QED
      BY <2>3, <3>0, <3>2, <3>7, <3>8, <3>9
  <2>8. CASE Pass
    <3>1. /\ UNCHANGED <<trustProxy, counters, callers, degradeCount, rateFaults>>
          /\ clock' \in 0..MaxRateTime /\ clock' >= clock
      BY <2>0, <2>8 DEF Pass
    <3>2. DegradedOnes' = DegradedOnes
      BY <3>1 DEF DegradedOnes
    <3> QED
      BY <2>0, <3>1, <3>2, RestStep DEF RateStrong
  <2>9. CASE UNCHANGED rateVars
    <3>1. /\ UNCHANGED <<trustProxy, counters, callers, degradeCount, rateFaults>>
          /\ clock' \in 0..MaxRateTime /\ clock' >= clock
      BY <2>0, <2>9 DEF rateVars
    <3>2. DegradedOnes' = DegradedOnes
      BY <3>1 DEF DegradedOnes
    <3> QED
      BY <2>0, <3>1, <3>2, RestStep DEF RateStrong
  <2> QED
    BY <2>1, <2>4, <2>5, <2>6, <2>7, <2>8, <2>9 DEF RateNext
<1> QED
  BY <1>1, <1>2, PTL DEF RateSpec

\* Two requests share a quota exactly when they share a key of Redis: what the
\* counters bound is what the rule is about.
LEMMA QuotaIsKey ==
  ASSUME RateShape, NEW c \in Asking, NEW d \in Asking
  PROVE  SameQuota(c, d) <=> KeyOf(c) = KeyOf(d)
<1>1. /\ callers[c].q \in Asks /\ CanAsk(callers[c].q)
      /\ callers[d].q \in Asks /\ CanAsk(callers[d].q)
  BY DEF RateShape, Asking
<1> QED
  BY <1>1, KeyIsQuota DEF SameQuota, KeyOf

LEMMA HitsInIsHitSet ==
  ASSUME RateShape, NEW c \in Asking, NEW w
  PROVE  HitsIn(c, w) = Cardinality(HitSet(KeyOf(c), w))
<1> DEFINE of(d) == {<<d, i>> : i \in {j \in DOMAIN callers[d].hits : callers[d].hits[j] = w}}
           H == UNION {of(d) : d \in {d \in Asking : SameQuota(c, d)}}
<1>1. \A d \in Asking : DOMAIN callers[d].hits \subseteq Nat
  <2>1. ASSUME NEW d \in Asking PROVE callers[d].hits \in Seq(Nat)
    BY DEF RateShape, CallerType, Asking
  <2> QED
    BY <2>1
<1>2. ASSUME NEW x \in H PROVE x \in HitSet(KeyOf(c), w)
  <2>1. PICK d \in Asking : SameQuota(c, d) /\ x \in of(d)
    BY <1>2
  <2>2. PICK i \in DOMAIN callers[d].hits : x = <<d, i>> /\ callers[d].hits[i] = w
    BY <2>1
  <2>3. KeyOf(d) = KeyOf(c) /\ d \in Callers /\ callers[d].pc # "idle" /\ i \in Nat
    BY <1>1, <2>1, QuotaIsKey DEF Asking
  <2> QED
    BY <2>2, <2>3 DEF HitSet
<1>3. ASSUME NEW x \in HitSet(KeyOf(c), w) PROVE x \in H
  <2>1. PICK d \in Callers, i \in Nat : x = <<d, i>>
    BY DEF HitSet
  <2>2. /\ d \in Asking /\ KeyOf(d) = KeyOf(c)
        /\ i \in DOMAIN callers[d].hits /\ callers[d].hits[i] = w
    BY <2>1 DEF HitSet, Asking
  <2>3. SameQuota(c, d)
    BY <2>2, QuotaIsKey
  <2>4. x \in of(d)
    BY <2>1, <2>2
  <2> QED
    BY <2>2, <2>3, <2>4
<1>4. H = HitSet(KeyOf(c), w)
  BY <1>2, <1>3
<1>5. HitsIn(c, w) = Cardinality(H)
  BY DEF HitsIn
<1> QED
  BY <1>4, <1>5

\* RateInv for every set of callers, visitors, rules and window lengths: no
\* window admits more of a quota than its limit, every refusal has its reason
\* and is long enough, and every counter ends, whatever round trips fail.
THEOREM RateIsSafe == RateSpec => []RateInv
<1>1. RateStrong => RateInv
  <2> SUFFICES ASSUME RateStrong PROVE RateInv
    OBVIOUS
  <2>0. RateShape /\ EveryCounterEnds
    BY DEF RateStrong
  <2>1. RateTypeOK
    <3>1. ASSUME NEW c \in Callers
          PROVE  /\ callers[c].pc \in {"idle", "uncounted", "increx", "script", "ttl",
                                       "admitted", "degraded", "refused"}
                 /\ callers[c].window \in Nat /\ callers[c].told \in Nat
                 /\ \A i \in DOMAIN callers[c].hits : callers[c].hits[i] \in Nat
      <4>1. callers[c] \in CallerType
        BY <2>0 DEF RateShape
      <4>2. callers[c].hits \in Seq(Nat)
        BY <4>1 DEF CallerType
      <4> QED
        BY <4>1, <4>2 DEF CallerType, PCs
    <3>2. degradeCount \in 0..Cardinality(Callers)
      BY DegradedNumber DEF RateStrong
    <3> QED
      BY <2>0, <3>1, <3>2 DEF RateTypeOK, RateShape
  <2>2. ASSUME NEW c \in Callers, callers[c].pc = "admitted"
        PROVE  Cardinality({d \in Asking : /\ SameQuota(c, d) /\ callers[d].pc = "admitted"
                                           /\ callers[d].window = callers[c].window})
                 <= LimitOf[callers[c].q.scope]
    <3>1. c \in Asking
      BY <2>2 DEF Asking
    <3>2. {d \in Asking : /\ SameQuota(c, d) /\ callers[d].pc = "admitted"
                          /\ callers[d].window = callers[c].window}
            = LetThrough(KeyOf(c), callers[c].window)
      <4>1. \A d \in Callers : callers[d].pc = "admitted" => d \in Asking
        BY DEF Asking
      <4>2. \A d \in Asking : SameQuota(c, d) <=> KeyOf(d) = KeyOf(c)
        BY <2>0, <3>1, QuotaIsKey
      <4>3. Asking \subseteq Callers
        BY DEF Asking
      <4> QED
        BY <4>1, <4>2, <4>3 DEF LetThrough
    <3> QED
      BY <2>2, <3>2 DEF RateStrong, Decisions
  <2>3. ASSUME NEW c \in Callers, callers[c].pc \in {"ttl", "refused"}
        PROVE  HitsIn(c, callers[c].window) > LimitOf[callers[c].q.scope]
    <3>1. c \in Asking
      BY <2>3 DEF Asking
    <3>2. HitsIn(c, callers[c].window) = Cardinality(HitSet(KeyOf(c), callers[c].window))
      BY <2>0, <3>1, HitsInIsHitSet
    <3> QED
      BY <2>3, <3>2 DEF RateStrong, Decisions
  <2>4. WaitIsEnough
    BY DEF RateStrong, Decisions, WaitIsEnough
  <2> QED
    BY <2>0, <2>1, <2>2, <2>3, <2>4 DEF RateInv, QuotaIsKept, RefusedForAReason
<1> QED
  BY <1>1, RateInvariant, PTL

(***************************************************************************)
(* Accounts.  A row is the trace of one finished registration, a token of  *)
(* one answer to a registration or a login, and a clock that is off by no  *)
(* more than the leeway has seen its beginning.                            *)
(***************************************************************************)

Results == {"none", "session", "conflict", "unavailable", "credentials", "passed",
            "unauthorized", "not found"}

SessionType ==
  [pc       : {"idle", "register", "login", "compare", "handler", "done"},
   kind     : {"none", "register", "login", "require", "optional"},
   server   : Servers \cup {NoUser},
   address  : Addresses \cup {NoUser},
   spelling : Spellings \cup {NoUser},
   password : Passwords \cup {NoUser},
   row      : [id : Sessions, password : Passwords] \cup {NoUser},
   token    : Tokens \cup {NoUser},
   result   : Results,
   mine     : Sessions \cup {NoUser}]

\* Every token has begun on every clock.
AuthShape ==
  /\ today \in Nat /\ today >= Leeway /\ skew \in [Servers -> Skews]
  /\ users \in [Sessions -> Rows \cup {NoUser}]
  /\ sessions \in [Sessions -> SessionType]
  /\ tokens \subseteq Tokens
  /\ \A t \in tokens : \A s \in Servers : t.nbf <= Now(s)

\* Request u was the registration of address a with password p, and is over.
Registered(u, a, p) ==
  /\ u \in Sessions /\ sessions[u].pc = "done" /\ sessions[u].kind = "register"
  /\ sessions[u].address = a /\ sessions[u].password = p

RowsAreRegistrations ==
  \A u \in Existing : Registered(u, users[u].address, users[u].password)

\* What is true of a request at each point.
Stage(q) ==
  /\ q.pc \in {"register", "login", "compare"} =>
       /\ q.server \in Servers /\ q.address \in Addresses /\ q.spelling \in Spellings
       /\ q.password \in Passwords /\ q.result = "none"
  /\ q.pc = "register" => q.kind = "register"
  /\ q.pc = "idle" => q.result = "none" /\ q.mine = NoUser
  /\ q.pc = "handler" => q.result \in {"passed", "unauthorized"} /\ q.mine = NoUser

\* Whose account it has to do with.
Owner(q) ==
  /\ q.pc = "compare" => Registered(q.row.id, q.address, q.row.password)
  /\ q.result = "session" => Registered(q.token.sub, q.address, q.password)

\* The account its credentials named at its start is gone, or still has them
\* and is the one that it has read.
Mine(q) ==
  q.mine # NoUser =>
    /\ q.pc # "idle" /\ Registered(q.mine, q.address, q.password)
    /\ q.result = "credentials" => users[q.mine] = NoUser
    /\ q.pc = "compare" /\ users[q.mine] # NoUser => q.row.password = q.password

GoodRequest(q) == Stage(q) /\ Owner(q) /\ Mine(q)

AuthStrong ==
  /\ AuthShape /\ OneAccount /\ RowsAreRegistrations
  /\ \A r \in Sessions : GoodRequest(sessions[r])

-----------------------------------------------------------------------------

LEMMA RegisteredStays ==
  ASSUME AuthShape, NEW r \in Sessions, NEW q, sessions' = [sessions EXCEPT ![r] = q],
         sessions[r].pc # "done"
  PROVE  \A u, a, p : Registered(u, a, p) => Registered(u, a, p)'
BY DEF AuthShape, Registered

\* A request moves on, the table stays.
LEMMA RequestMoves ==
  ASSUME AuthStrong, NEW r \in Sessions, NEW q \in SessionType,
         sessions' = [sessions EXCEPT ![r] = q], sessions[r].pc # "done",
         UNCHANGED <<today, skew, users>>,
         tokens' \subseteq Tokens, \A t \in tokens' : \A s \in Servers : t.nbf <= Now(s),
         GoodRequest(q)'
  PROVE  AuthStrong'
<1>1. \A u, a, p : Registered(u, a, p) => Registered(u, a, p)'
  BY RegisteredStays DEF AuthStrong
<1>2. sessions'[r] = q /\ \A d \in Sessions \ {r} : sessions'[d] = sessions[d]
  BY DEF AuthStrong, AuthShape
<1>3. AuthShape'
  BY DEF AuthStrong, AuthShape, Now
<1>4. OneAccount'
  BY DEF AuthStrong, OneAccount, Existing
<1>5. RowsAreRegistrations'
  BY <1>1 DEF AuthStrong, RowsAreRegistrations, Existing
<1>6. ASSUME NEW d \in Sessions, NEW x, x = sessions'[d]
      PROVE  GoodRequest(x)'
  <2>1. CASE d = r
    BY <1>2, <1>6, <2>1
  <2>2. CASE d # r
    <3>1. x = sessions[d]
      BY <1>2, <1>6, <2>2
    <3>2. GoodRequest(x)
      BY <3>1 DEF AuthStrong
    <3>3. Owner(x)'
      BY <1>1, <3>2 DEF GoodRequest, Owner
    <3>4. Mine(x)'
      BY <1>1, <3>2 DEF GoodRequest, Mine
    <3> QED
      BY <3>2, <3>3, <3>4 DEF GoodRequest, Stage
  <2> QED
    BY <2>1, <2>2
<1> QED
  BY <1>3, <1>4, <1>5, <1>6 DEF AuthStrong

\* What a token is worth when it is handed out.
LEMMA IssueIsGood ==
  ASSUME AuthShape, NEW u \in Sessions, NEW s \in Servers
  PROVE  /\ Issue(u, s) \in Tokens /\ Issue(u, s).sub = u
         /\ \A x \in Servers : Issue(u, s).nbf <= Now(x)
<1>1. /\ today \in Nat /\ today >= Leeway /\ Leeway \in Nat /\ Expiry \in Nat
      /\ \A x \in Servers : skew[x] \in Skews /\ skew[x] \in Nat
  BY AuthAssumption DEF AuthShape
<1>2. PICK n \in Nat : n = Now(s) - Leeway
  BY <1>1 DEF Now
<1>3. PICK m \in Nat : m = Now(s) + Expiry
  BY <1>1 DEF Now
<1>4. Issue(u, s) = [sub |-> u, nbf |-> n, exp |-> m]
  BY <1>2, <1>3 DEF Issue
<1>5. ASSUME NEW x \in Servers PROVE n <= Now(x)
  <2>1. skew[s] <= skew[x] + Leeway
    BY <1>1, ClocksAssumption
  <2> QED
    BY <1>1, <1>2, <2>1 DEF Now
<1> QED
  BY <1>4, <1>5 DEF Tokens

LEMMA KnownResults ==
  /\ "none" \in Results /\ "session" \in Results /\ "conflict" \in Results
  /\ "unavailable" \in Results /\ "credentials" \in Results /\ "passed" \in Results
  /\ "unauthorized" \in Results /\ "not found" \in Results
BY DEF Results

\* A request that ends is a request, and keeps what it asked for.
LEMMA Answered ==
  ASSUME NEW o \in SessionType, NEW result \in Results
  PROVE  LET q == [o EXCEPT !.pc = "done", !.result = result]
         IN  /\ q \in SessionType /\ q.pc = "done" /\ q.result = result /\ q.mine = o.mine
             /\ q.address = o.address /\ q.password = o.password
BY ZenonT(60) DEF SessionType

LEMMA StartStep ==
  ASSUME AuthStrong, NEW r \in Sessions, NEW s \in Servers, NEW kind \in {"register", "login"},
         NEW a \in Addresses, NEW w \in Spellings, NEW p \in Passwords, Start(r, kind, s, a, w, p)
  PROVE  AuthStrong'
<1>1. PICK m : m = Named(a, p)
  OBVIOUS
<1>2. m \in Sessions \cup {NoUser} /\ (m # NoUser => m \in Existing /\ users[m].address = a /\ users[m].password = p)
  BY <1>1 DEF Named, Existing
<1> DEFINE q == [NewRequest EXCEPT !.pc = kind, !.kind = kind, !.server = s, !.address = a,
                   !.spelling = w, !.password = p, !.mine = m]
<1>3. /\ q \in SessionType /\ q.pc = kind /\ q.kind = kind /\ q.server = s /\ q.address = a
      /\ q.spelling = w /\ q.password = p /\ q.mine = m /\ q.result = "none"
  BY <1>2, KnownResults DEF NewRequest, SessionType
<1>4. /\ sessions[r].pc = "idle" /\ sessions' = [sessions EXCEPT ![r] = q]
      /\ UNCHANGED <<today, skew, users, tokens>>
  BY <1>1 DEF Start
<1> HIDE DEF q
<1>5. \A u, b, c : Registered(u, b, c) => Registered(u, b, c)'
  BY <1>4, RegisteredStays DEF AuthStrong
<1>6. m # NoUser => Registered(m, a, p)
  BY <1>2 DEF AuthStrong, RowsAreRegistrations
<1>7. GoodRequest(q)'
  BY <1>3, <1>5, <1>6 DEF GoodRequest, Stage, Owner, Mine
<1>8. \A t \in tokens : \A x \in Servers : t.nbf <= Now(x)
  BY DEF AuthStrong, AuthShape
<1> QED
  BY <1>3, <1>4, <1>7, <1>8, RequestMoves DEF AuthStrong, AuthShape

LEMMA FindUserStep ==
  ASSUME AuthStrong, NEW r \in Sessions, Lookup(r)
  PROVE  AuthStrong'
<1>1. PICK o : o = sessions[r]
  OBVIOUS
<1>2. o \in SessionType /\ o.pc = "login" /\ GoodRequest(o) /\ UNCHANGED <<today, skew, users, tokens>>
  BY <1>1 DEF AuthStrong, AuthShape, Lookup
<1>3. \A t \in tokens : \A x \in Servers : t.nbf <= Now(x)
  BY DEF AuthStrong, AuthShape
<1>4. ASSUME NEW result \in {"credentials", "unavailable"}, Respond(r, result),
             result = "credentials" => {u \in Existing : SameAddress(u, o)} = {}
      PROVE  AuthStrong'
  <2> DEFINE q == [o EXCEPT !.pc = "done", !.result = result]
  <2>1. /\ q \in SessionType /\ q.pc = "done" /\ q.result = result /\ q.mine = o.mine
        /\ q.address = o.address /\ q.password = o.password
    <3>1. result \in Results
      BY DEF Results
    <3> QED
      BY <1>2, <3>1, Answered
  <2>2. sessions' = [sessions EXCEPT ![r] = q]
    BY <1>1, <1>4 DEF Respond, AuthStrong, AuthShape
  <2> HIDE DEF q
  <2>3. \A u, b, c : Registered(u, b, c) => Registered(u, b, c)'
    BY <1>1, <1>2, <2>2, RegisteredStays DEF AuthStrong
  <2>4. q.mine # NoUser => Registered(q.mine, q.address, q.password)
    BY <1>2, <2>1 DEF GoodRequest, Mine
  <2>5. q.mine # NoUser /\ result = "credentials" => users[q.mine] = NoUser
    <3> SUFFICES ASSUME o.mine # NoUser, result = "credentials", users[o.mine] # NoUser
                 PROVE  FALSE
      BY <2>1
    <3>1. o.mine \in Existing
      BY <1>2 DEF SessionType, Existing
    <3>2. Registered(o.mine, users[o.mine].address, users[o.mine].password)
      BY <3>1 DEF AuthStrong, RowsAreRegistrations
    <3>3. users[o.mine].address = o.address
      BY <2>1, <2>4, <3>2 DEF Registered
    <3> QED
      BY <1>4, <3>1, <3>3 DEF SameAddress
  <2>6. GoodRequest(q)'
    BY <1>2, <2>1, <2>3, <2>4, <2>5 DEF GoodRequest, Stage, Owner, Mine
  <2> QED
    BY <1>1, <1>2, <1>3, <2>1, <2>2, <2>6, RequestMoves DEF AuthStrong, AuthShape
<1>5. ASSUME NEW u \in Existing, SameAddress(u, o),
             sessions' = [sessions EXCEPT ![r].pc = "compare",
                            ![r].row = [id |-> u, password |-> users[u].password]]
      PROVE  AuthStrong'
  <2>0. PICK p : p = users[u].password
    OBVIOUS
  <2>1. u \in Sessions /\ p \in Passwords /\ users[u].address = o.address /\ Registered(u, o.address, p)
    <3>1. u \in Sessions /\ users[u] \in Rows
      BY DEF Existing, AuthStrong, AuthShape
    <3>2. users[u].address = o.address
      BY <1>5 DEF SameAddress
    <3>3. Registered(u, users[u].address, users[u].password)
      BY DEF AuthStrong, RowsAreRegistrations
    <3> QED
      BY <2>0, <3>1, <3>2, <3>3 DEF Rows
  <2> DEFINE q == [o EXCEPT !.pc = "compare", !.row = [id |-> u, password |-> p]]
  <2>2. /\ q \in SessionType /\ q.pc = "compare" /\ q.result = o.result /\ q.mine = o.mine
        /\ q.address = o.address /\ q.password = o.password /\ q.server = o.server
        /\ q.spelling = o.spelling /\ q.row.id = u /\ q.row.password = p
    BY <1>2, <2>1, ZenonT(60) DEF SessionType
  <2>3. sessions' = [sessions EXCEPT ![r] = q]
    BY <1>1, <1>5, <2>0 DEF AuthStrong, AuthShape
  <2> HIDE DEF q
  <2>5. \A v, b, c : Registered(v, b, c) => Registered(v, b, c)'
    BY <1>1, <1>2, <2>3, RegisteredStays DEF AuthStrong
  <2>6. q.mine # NoUser /\ users[q.mine] # NoUser => q.row.password = q.password
    <3> SUFFICES ASSUME o.mine # NoUser, users[o.mine] # NoUser PROVE p = o.password
      BY <2>2
    <3>1. o.mine \in Existing
      BY <1>2 DEF SessionType, Existing
    <3>2. Registered(o.mine, users[o.mine].address, users[o.mine].password) /\ Registered(o.mine, o.address, o.password)
      BY <1>2, <3>1 DEF AuthStrong, RowsAreRegistrations, GoodRequest, Mine
    <3>3. users[o.mine].address = o.address /\ users[o.mine].password = o.password
      BY <3>2 DEF Registered
    <3>4. o.mine = u
      BY <2>1, <3>1, <3>3 DEF AuthStrong, OneAccount
    <3> QED
      BY <2>0, <3>3, <3>4
  <2>7. GoodRequest(q)'
    <3>1. Stage(q)'
      BY <1>2, <2>2 DEF GoodRequest, Stage
    <3>2. Owner(q)'
      BY <1>2, <2>1, <2>2, <2>5 DEF GoodRequest, Stage, Owner
    <3>3. Mine(q)'
      BY <1>2, <2>2, <2>5, <2>6 DEF GoodRequest, Stage, Mine
    <3> QED
      BY <3>1, <3>2, <3>3 DEF GoodRequest
  <2> QED
    BY <1>1, <1>2, <1>3, <2>2, <2>3, <2>7, RequestMoves DEF AuthStrong, AuthShape
<1> QED
  BY <1>1, <1>4, <1>5 DEF Lookup

\* A request ends without a session and without having said "credentials".
LEMMA EndStep ==
  ASSUME AuthStrong, NEW r \in Sessions, sessions[r].pc \notin {"idle", "done"},
         NEW result \in {"conflict", "unavailable", "passed", "unauthorized", "not found"},
         Respond(r, result), UNCHANGED <<today, skew, users, tokens>>
  PROVE  AuthStrong'
<1>1. PICK o : o = sessions[r]
  OBVIOUS
<1>2. o \in SessionType /\ GoodRequest(o) /\ o.pc \notin {"idle", "done"}
  BY <1>1 DEF AuthStrong, AuthShape
<1> DEFINE q == [o EXCEPT !.pc = "done", !.result = result]
<1>3. /\ q \in SessionType /\ q.pc = "done" /\ q.result = result /\ q.mine = o.mine
      /\ q.address = o.address /\ q.password = o.password
  <2>1. result \in Results
    BY DEF Results
  <2> QED
    BY <1>2, <2>1, Answered
<1>4. sessions' = [sessions EXCEPT ![r] = q]
  BY <1>1 DEF Respond, AuthStrong, AuthShape
<1> HIDE DEF q
<1>5. \A u, b, c : Registered(u, b, c) => Registered(u, b, c)'
  BY <1>1, <1>2, <1>4, RegisteredStays DEF AuthStrong
<1>6. GoodRequest(q)'
  BY <1>2, <1>3, <1>5 DEF GoodRequest, Stage, Owner, Mine
<1> QED
  BY <1>1, <1>2, <1>3, <1>4, <1>6, RequestMoves DEF AuthStrong, AuthShape

LEMMA CompareStep ==
  ASSUME AuthStrong, NEW r \in Sessions, Compare(r)
  PROVE  AuthStrong'
<1>1. PICK o : o = sessions[r]
  OBVIOUS
<1>2. /\ o \in SessionType /\ o.pc = "compare" /\ GoodRequest(o) /\ UNCHANGED <<today, skew, users>>
      /\ Registered(o.row.id, o.address, o.row.password) /\ o.server \in Servers
  BY <1>1 DEF AuthStrong, AuthShape, Compare, GoodRequest, Owner, Stage
<1>3. CASE o.row.password = o.password
  <2>1. PICK t : t = Issue(o.row.id, o.server)
    OBVIOUS
  <2>2. t \in Tokens /\ t.sub = o.row.id /\ \A s \in Servers : t.nbf <= Now(s)
    BY <1>2, <2>1, IssueIsGood DEF AuthStrong, Registered
  <2> DEFINE q == [o EXCEPT !.pc = "done", !.result = "session", !.token = t]
  <2>3. /\ q \in SessionType /\ q.pc = "done" /\ q.result = "session" /\ q.mine = o.mine
        /\ q.address = o.address /\ q.password = o.password /\ q.token = t
    BY <1>2, <2>2, KnownResults DEF SessionType
  <2>4. sessions' = [sessions EXCEPT ![r] = q] /\ tokens' = tokens \cup {t}
    BY <1>1, <1>2, <1>3, <2>1 DEF Compare, HandOut, AuthStrong, AuthShape
  <2> HIDE DEF q
  <2>5. \A u, b, c : Registered(u, b, c) => Registered(u, b, c)'
    BY <1>1, <1>2, <2>4, RegisteredStays DEF AuthStrong
  <2>6. GoodRequest(q)'
    BY <1>2, <1>3, <2>2, <2>3, <2>5 DEF GoodRequest, Stage, Owner, Mine
  <2>7. tokens' \subseteq Tokens /\ \A x \in tokens' : \A s \in Servers : x.nbf <= Now(s)
    BY <2>2, <2>4 DEF AuthStrong, AuthShape
  <2> QED
    BY <1>1, <1>2, <2>3, <2>4, <2>6, <2>7, RequestMoves
<1>4. CASE o.row.password # o.password
  <2> DEFINE q == [o EXCEPT !.pc = "done", !.result = "credentials"]
  <2>1. /\ q \in SessionType /\ q.pc = "done" /\ q.result = "credentials" /\ q.mine = o.mine
        /\ q.address = o.address /\ q.password = o.password
    BY <1>2, KnownResults DEF SessionType
  <2>2. sessions' = [sessions EXCEPT ![r] = q] /\ UNCHANGED tokens
    BY <1>1, <1>4 DEF Compare, Respond, AuthStrong, AuthShape
  <2> HIDE DEF q
  <2>3. \A u, b, c : Registered(u, b, c) => Registered(u, b, c)'
    BY <1>1, <1>2, <2>2, RegisteredStays DEF AuthStrong
  <2>4. GoodRequest(q)'
    BY <1>2, <1>4, <2>1, <2>3 DEF GoodRequest, Stage, Owner, Mine
  <2> QED
    BY <1>1, <1>2, <2>1, <2>2, <2>4, RequestMoves DEF AuthStrong, AuthShape
<1> QED
  BY <1>3, <1>4

LEMMA CallStep ==
  ASSUME AuthStrong, NEW r \in Sessions, NEW s \in Servers, NEW kind \in {"require", "optional"},
         NEW t \in tokens \cup {NoUser}, Call(r, kind, s, t)
  PROVE  AuthStrong'
<1>1. PICK result \in {"passed", "unauthorized"} :
        result = IF kind = "require" THEN RequireAuth(t, s) ELSE OptionalAuth(t, s)
  BY DEF RequireAuth, OptionalAuth
<1> DEFINE q == [NewRequest EXCEPT !.pc = "handler", !.kind = kind, !.server = s, !.token = t,
                   !.result = result]
<1>2. /\ q \in SessionType /\ q.pc = "handler" /\ q.mine = NoUser /\ q.result = result
  BY KnownResults DEF NewRequest, SessionType, AuthStrong, AuthShape
<1>3. /\ sessions[r].pc = "idle" /\ sessions' = [sessions EXCEPT ![r] = q]
      /\ UNCHANGED <<today, skew, users, tokens>>
  BY <1>1 DEF Call
<1> HIDE DEF q
<1>4. GoodRequest(q)'
  BY <1>2 DEF GoodRequest, Stage, Owner, Mine
<1> QED
  BY <1>2, <1>3, <1>4, RequestMoves DEF AuthStrong, AuthShape

LEMMA MeStep ==
  ASSUME AuthStrong, NEW r \in Sessions, Me(r)
  PROVE  AuthStrong'
<1>1. sessions[r].pc = "handler" /\ sessions[r].result \in {"passed", "unauthorized"}
  BY DEF Me, AuthStrong, GoodRequest, Stage
<1>2. PICK result \in {"passed", "unauthorized", "not found"} : Respond(r, result)
  BY <1>1 DEF Me
<1> QED
  BY <1>1, <1>2, EndStep DEF Me

\* A registration that finds its address free: the row, and perhaps a session.
LEMMA InsertStep ==
  ASSUME AuthStrong, NEW r \in Sessions, RegisterUser(r),
         ~\E u \in Existing : SameAddress(u, sessions[r]),
         users' = [users EXCEPT ![r] = [address |-> sessions[r].address,
                                        spelling |-> sessions[r].spelling,
                                        password |-> sessions[r].password]],
         HandOut(r, r) \/ (Respond(r, "unavailable") /\ UNCHANGED tokens)
  PROVE  AuthStrong'
<1>1. PICK o : o = sessions[r]
  OBVIOUS
<1>2. /\ o \in SessionType /\ o.pc = "register" /\ GoodRequest(o) /\ UNCHANGED <<today, skew>>
      /\ o.server \in Servers /\ o.address \in Addresses /\ o.spelling \in Spellings
      /\ o.password \in Passwords /\ o.kind = "register"
  BY <1>1 DEF AuthStrong, AuthShape, RegisterUser, GoodRequest, Stage
<1>3. PICK q : /\ q \in SessionType /\ q.pc = "done" /\ q.kind = "register" /\ q.mine = o.mine
               /\ q.address = o.address /\ q.password = o.password
               /\ q.result = "unavailable" \/ (q.result = "session" /\ q.token.sub = r)
               /\ sessions' = [sessions EXCEPT ![r] = q]
               /\ tokens' \subseteq Tokens /\ \A x \in tokens' : \A s \in Servers : x.nbf <= Now(s)
  <2>1. CASE HandOut(r, r)
    <3>1. PICK t : t = Issue(r, o.server)
      OBVIOUS
    <3>2. t \in Tokens /\ t.sub = r /\ \A s \in Servers : t.nbf <= Now(s)
      BY <1>2, <3>1, IssueIsGood DEF AuthStrong
    <3> DEFINE q == [o EXCEPT !.pc = "done", !.result = "session", !.token = t]
    <3>3. /\ q \in SessionType /\ q.pc = "done" /\ q.result = "session" /\ q.mine = o.mine
          /\ q.address = o.address /\ q.password = o.password /\ q.token = t /\ q.kind = "register"
      BY <1>2, <3>2, KnownResults DEF SessionType
    <3>4. sessions' = [sessions EXCEPT ![r] = q] /\ tokens' = tokens \cup {t}
      BY <1>1, <2>1, <3>1 DEF HandOut, AuthStrong, AuthShape
    <3>5. tokens' \subseteq Tokens /\ \A x \in tokens' : \A s \in Servers : x.nbf <= Now(s)
      BY <3>2, <3>4 DEF AuthStrong, AuthShape
    <3> HIDE DEF q
    <3> QED
      BY <3>2, <3>3, <3>4, <3>5
  <2>2. CASE Respond(r, "unavailable") /\ UNCHANGED tokens
    <3> DEFINE q == [o EXCEPT !.pc = "done", !.result = "unavailable"]
    <3>1. /\ q \in SessionType /\ q.pc = "done" /\ q.result = "unavailable" /\ q.mine = o.mine
          /\ q.address = o.address /\ q.password = o.password /\ q.kind = "register"
      BY <1>2, KnownResults DEF SessionType
    <3>2. sessions' = [sessions EXCEPT ![r] = q]
      BY <1>1, <2>2 DEF Respond, AuthStrong, AuthShape
    <3>3. tokens' \subseteq Tokens /\ \A x \in tokens' : \A s \in Servers : x.nbf <= Now(s)
      BY <2>2 DEF AuthStrong, AuthShape
    <3> HIDE DEF q
    <3> QED
      BY <3>1, <3>2, <3>3
  <2> QED
    BY <2>1, <2>2
<1>4. sessions'[r] = q /\ \A d \in Sessions \ {r} : sessions'[d] = sessions[d]
  BY <1>3 DEF AuthStrong, AuthShape
<1>5. PICK row \in Rows : /\ row.address = o.address /\ row.password = o.password
                          /\ users' = [users EXCEPT ![r] = row]
  <2> DEFINE row == [address |-> o.address, spelling |-> o.spelling, password |-> o.password]
  <2>1. row \in Rows /\ row.address = o.address /\ row.password = o.password
    BY <1>2 DEF Rows
  <2>2. users' = [users EXCEPT ![r] = row]
    BY <1>1
  <2> HIDE DEF row
  <2> QED
    BY <2>1, <2>2
<1>6. users'[r] = row /\ \A d \in Sessions \ {r} : users'[d] = users[d]
  BY <1>5 DEF AuthStrong, AuthShape
<1>7. AuthShape'
  BY <1>2, <1>3, <1>5 DEF AuthStrong, AuthShape, Now
<1>8. \A u, b, c : Registered(u, b, c) => Registered(u, b, c)' /\ u # r
  <2>1. \A u, b, c : Registered(u, b, c) => Registered(u, b, c)'
    BY <1>1, <1>2, <1>3, RegisteredStays DEF AuthStrong
  <2>2. \A u, b, c : Registered(u, b, c) => u # r
    BY <1>1, <1>2 DEF Registered
  <2> QED
    BY <2>1, <2>2
<1>9. Registered(r, o.address, o.password)'
  BY <1>3, <1>4 DEF Registered
<1>10. OneAccount'
  <2> SUFFICES ASSUME NEW u \in Sessions, NEW v \in Sessions, users'[u] # NoUser, users'[v] # NoUser,
                      users'[u].address = users'[v].address, u # v
               PROVE  FALSE
    BY DEF OneAccount, Existing
  <2>1. \A w \in Existing : users[w].address # o.address
    BY <1>1 DEF SameAddress
  <2>2. CASE u = r
    <3>1. v \in Existing /\ users'[v] = users[v]
      BY <1>6, <2>2 DEF Existing
    <3> QED
      BY <1>5, <1>6, <2>1, <2>2, <3>1
  <2>3. CASE v = r
    <3>1. u \in Existing /\ users'[u] = users[u]
      BY <1>6, <2>3 DEF Existing
    <3> QED
      BY <1>5, <1>6, <2>1, <2>3, <3>1
  <2>4. CASE u # r /\ v # r
    BY <1>6, <2>4 DEF AuthStrong, OneAccount, Existing
  <2> QED
    BY <2>2, <2>3, <2>4
<1>11. RowsAreRegistrations'
  <2> SUFFICES ASSUME NEW u \in Sessions, users'[u] # NoUser, NEW a, a = users'[u].address,
                      NEW p, p = users'[u].password
               PROVE  Registered(u, a, p)'
    BY DEF RowsAreRegistrations, Existing
  <2>1. CASE u = r
    BY <1>5, <1>6, <1>9, <2>1
  <2>2. CASE u # r
    BY <1>6, <1>8, <2>2 DEF AuthStrong, RowsAreRegistrations, Existing
  <2> QED
    BY <2>1, <2>2
<1>12. ASSUME NEW d \in Sessions, NEW x, x = sessions'[d]
       PROVE  GoodRequest(x)'
  <2>1. CASE d = r
    <3>1. x = q
      BY <1>4, <1>12, <2>1
    <3>2. o.mine # NoUser => Registered(o.mine, o.address, o.password)
      BY <1>2 DEF GoodRequest, Mine
    <3> QED
      BY <1>3, <1>8, <1>9, <3>1, <3>2 DEF GoodRequest, Stage, Owner, Mine
  <2>2. CASE d # r
    <3>1. x = sessions[d]
      BY <1>4, <1>12, <2>2
    <3>2. GoodRequest(x)
      BY <3>1 DEF AuthStrong
    <3>3. Owner(x)'
      BY <1>8, <3>2 DEF GoodRequest, Owner
    <3>4. Mine(x)'
      <4>1. x.mine # NoUser => users'[x.mine] = users[x.mine]
        BY <1>6, <1>8, <3>2 DEF GoodRequest, Mine, Registered
      <4> QED
        BY <1>8, <3>2, <4>1 DEF GoodRequest, Mine
    <3> QED
      BY <3>2, <3>3, <3>4 DEF GoodRequest, Stage
  <2> QED
    BY <2>1, <2>2
<1> QED
  BY <1>7, <1>10, <1>11, <1>12 DEF AuthStrong

LEMMA RegisterStep ==
  ASSUME AuthStrong, NEW r \in Sessions, RegisterUser(r)
  PROVE  AuthStrong'
<1>1. sessions[r].pc = "register" /\ UNCHANGED <<today, skew>>
  BY DEF RegisterUser
<1>2. ASSUME NEW result \in {"conflict", "unavailable"}, Respond(r, result), UNCHANGED <<users, tokens>>
      PROVE  AuthStrong'
  BY <1>1, <1>2, EndStep
<1> QED
  BY <1>2, InsertStep DEF RegisterUser

LEMMA DeleteStep ==
  ASSUME AuthStrong, NEW u \in Sessions, DeleteUser(u)
  PROVE  AuthStrong'
<1>1. UNCHANGED <<today, skew, sessions, tokens>> /\ users' = [users EXCEPT ![u] = NoUser]
  BY DEF DeleteUser
<1>2. \A v \in Sessions : users'[v] = IF v = u THEN NoUser ELSE users[v]
  BY <1>1 DEF AuthStrong, AuthShape
<1>3. AuthShape'
  BY <1>1 DEF AuthStrong, AuthShape, Now
<1>4. OneAccount'
  BY <1>2 DEF AuthStrong, OneAccount, Existing
<1>5. \A v, a, p : Registered(v, a, p)' <=> Registered(v, a, p)
  BY <1>1 DEF Registered
<1>6. RowsAreRegistrations'
  BY <1>2, <1>5 DEF AuthStrong, RowsAreRegistrations, Existing
<1>7. ASSUME NEW d \in Sessions, NEW x, x = sessions[d] PROVE GoodRequest(x)'
  <2>1. GoodRequest(x)
    BY <1>7 DEF AuthStrong
  <2>2. Owner(x)'
    BY <1>5, <2>1 DEF GoodRequest, Owner
  <2>3. Mine(x)'
    BY <1>2, <1>5, <2>1 DEF GoodRequest, Mine, Registered
  <2> QED
    BY <2>1, <2>2, <2>3 DEF GoodRequest, Stage
<1> QED
  BY <1>1, <1>3, <1>4, <1>6, <1>7 DEF AuthStrong

LEMMA AuthTickStep ==
  ASSUME AuthStrong, AuthTick \/ UNCHANGED authVars
  PROVE  AuthStrong'
<1>1. UNCHANGED <<skew, users, sessions, tokens>> /\ today' \in Nat /\ today' >= today
  BY DEF AuthTick, authVars, AuthStrong, AuthShape
<1>2. AuthShape'
  <2>1. ASSUME NEW t \in tokens, NEW s \in Servers PROVE t.nbf <= today' + skew[s]
    <3>1. t.nbf <= today + skew[s] /\ t.nbf \in Nat /\ skew[s] \in Nat /\ today \in Nat
      BY AuthAssumption DEF AuthStrong, AuthShape, Tokens, Now
    <3> QED
      BY <1>1, <3>1
  <2>2. today' >= Leeway
    BY <1>1, AuthAssumption DEF AuthStrong, AuthShape
  <2> QED
    BY <1>1, <2>1, <2>2 DEF AuthStrong, AuthShape, Now
<1>3. \A v, a, p : Registered(v, a, p)' <=> Registered(v, a, p)
  BY <1>1 DEF Registered
<1> QED
  BY <1>1, <1>2, <1>3 DEF AuthStrong, OneAccount, RowsAreRegistrations, Existing, GoodRequest, Stage, Owner, Mine

\* The inductive invariant of accounts and tokens: each row and each token is the
\* trace of one finished request, and no clock lags behind the start of a token.
THEOREM AuthInvariant == AuthSpec => []AuthStrong
<1>1. AuthInit => AuthStrong
  <2> SUFFICES ASSUME AuthInit PROVE AuthStrong
    OBVIOUS
  <2>1. NewRequest \in SessionType
    BY KnownResults DEF NewRequest, SessionType
  <2>2. AuthShape
    BY <2>1, AuthAssumption DEF AuthInit, AuthShape
  <2>3. Existing = {}
    BY DEF AuthInit, Existing
  <2>4. GoodRequest(NewRequest)
    BY DEF NewRequest, GoodRequest, Stage, Owner, Mine
  <2>5. \A r \in Sessions : sessions[r] = NewRequest
    BY DEF AuthInit
  <2> QED
    BY <2>2, <2>3, <2>4, <2>5 DEF AuthStrong, OneAccount, RowsAreRegistrations
<1>2. AuthStrong /\ [AuthNext]_authVars => AuthStrong'
  BY StartStep, CallStep, RegisterStep, FindUserStep, CompareStep, MeStep, DeleteStep, AuthTickStep DEF AuthNext
<1> QED
  BY <1>1, <1>2, PTL DEF AuthSpec

\* What registration, login and the two middlewares promise, for any number of
\* requests, users, servers and addresses, as long as the servers' clocks differ
\* by no more than the leeway: one account for an address, sessions only for its
\* owner, right credentials work, and a session works everywhere at once.
THEOREM AuthIsSafe == AuthSpec => []AuthInv
<1>1. AuthStrong => AuthInv
  <2> SUFFICES ASSUME AuthStrong PROVE AuthInv
    OBVIOUS
  <2>1. AuthTypeOK
    <3>1. \A r \in Sessions : sessions[r].pc \in {"idle", "register", "login", "compare", "handler", "done"}
      BY DEF AuthStrong, AuthShape, SessionType
    <3> QED
      BY <3>1 DEF AuthTypeOK, AuthStrong, AuthShape
  <2>2. OnlyTheOwner
    BY DEF OnlyTheOwner, AuthStrong, GoodRequest, Owner, Registered
  <2>3. RightCredentialsWork
    BY DEF RightCredentialsWork, AuthStrong, GoodRequest, Mine
  <2>4. WorksEverywhere
    BY DEF WorksEverywhere, ParseToken, AuthStrong, AuthShape
  <2> QED
    BY <2>1, <2>2, <2>3, <2>4 DEF AuthInv, AuthStrong
<1> QED
  BY <1>1, AuthInvariant, PTL

(***************************************************************************)
(* Answers.  Each writer keeps a response well formed and the log in step  *)
(* with the connection; the marks of an error fix the status.              *)
(***************************************************************************)

Headers == [type : {"none", "json", "text", "page"}, retry : BOOLEAN]
Codes == {200, 204, 404, 405, 409, 422, 500, 503}
Chunks == {JSON, Text, "page"}
Outs == [header : Headers, status : Codes \cup {0}, sent : Headers, body : Seq(Chunks), recorded : Codes,
         wrote : BOOLEAN, decided : BOOLEAN, swallow : BOOLEAN]

\* The access log's recorder and the connection agree, or neither has a head.
Agree(x) == x.recorded = (IF x.status = 0 THEN 200 ELSE x.status) /\ (x.wrote <=> x.status # 0)

LEMMA KnownCodes ==
  /\ 200 \in Codes /\ 204 \in Codes /\ 404 \in Codes /\ 405 \in Codes /\ 409 \in Codes /\ 422 \in Codes
  /\ 500 \in Codes /\ 503 \in Codes /\ 0 \notin Codes
BY DEF Codes

LEMMA NothingIsOut == Nothing \in Outs /\ Agree(Nothing)
<1>1. <<>> \in Seq(Chunks)
  OBVIOUS
<1>2. NoHeader \in Headers
  BY DEF NoHeader, Headers
<1> QED
  BY <1>1, <1>2, KnownCodes DEF Nothing, Outs, Agree

LEMMA NetHeadKeeps ==
  ASSUME NEW x \in Outs, NEW s \in Codes
  PROVE  /\ NetHead(x, s) \in Outs
         /\ NetHead(x, s).status = IF x.status = 0 THEN s ELSE x.status
         /\ NetHead(x, s).sent = IF x.status = 0 THEN x.header ELSE x.sent
         /\ NetHead(x, s).header = x.header /\ NetHead(x, s).body = x.body
         /\ NetHead(x, s).recorded = x.recorded /\ NetHead(x, s).wrote = x.wrote
         /\ NetHead(x, s).decided = x.decided /\ NetHead(x, s).swallow = x.swallow
BY DEF NetHead, Outs

LEMMA NetWriteKeeps ==
  ASSUME NEW x \in Outs, NEW c \in Chunks
  PROVE  /\ NetWrite(x, c) \in Outs
         /\ NetWrite(x, c).status = IF x.status = 0 THEN 200 ELSE x.status
         /\ NetWrite(x, c).sent = IF x.status = 0 THEN x.header ELSE x.sent
         /\ NetWrite(x, c).header = x.header /\ NetWrite(x, c).body = Append(x.body, c)
         /\ NetWrite(x, c).recorded = x.recorded /\ NetWrite(x, c).wrote = x.wrote
         /\ NetWrite(x, c).decided = x.decided /\ NetWrite(x, c).swallow = x.swallow
<1>1. PICK y : y = NetHead(x, 200)
  OBVIOUS
<1>2. /\ y \in Outs /\ y.body = x.body /\ y.header = x.header
      /\ y.status = (IF x.status = 0 THEN 200 ELSE x.status)
      /\ y.sent = (IF x.status = 0 THEN x.header ELSE x.sent)
      /\ y.recorded = x.recorded /\ y.wrote = x.wrote /\ y.decided = x.decided /\ y.swallow = x.swallow
  <2>1. 200 \in Codes
    BY KnownCodes
  <2> QED
    BY <1>1, <2>1, NetHeadKeeps
<1>3. PICK b : b = Append(x.body, c)
  OBVIOUS
<1>4. b \in Seq(Chunks)
  BY <1>3 DEF Outs
<1>5. NetWrite(x, c) = [y EXCEPT !.body = b]
  BY <1>1, <1>2, <1>3, SMTT(30) DEF NetWrite, Outs
<1>6. /\ [y EXCEPT !.body = b] \in Outs /\ [y EXCEPT !.body = b].body = b
      /\ [y EXCEPT !.body = b].status = y.status /\ [y EXCEPT !.body = b].sent = y.sent
      /\ [y EXCEPT !.body = b].header = y.header /\ [y EXCEPT !.body = b].recorded = y.recorded
      /\ [y EXCEPT !.body = b].wrote = y.wrote /\ [y EXCEPT !.body = b].decided = y.decided
      /\ [y EXCEPT !.body = b].swallow = y.swallow
  BY <1>2, <1>4 DEF Outs
<1> QED
  BY <1>2, <1>3, <1>5, <1>6

LEMMA RecordKeeps ==
  ASSUME NEW x \in Outs, NEW s \in Codes
  PROVE  /\ Record(x, s) \in Outs /\ Record(x, s).wrote
         /\ Record(x, s).recorded = IF x.wrote THEN x.recorded ELSE s
         /\ Record(x, s).status = x.status /\ Record(x, s).sent = x.sent
         /\ Record(x, s).header = x.header /\ Record(x, s).body = x.body
         /\ Record(x, s).decided = x.decided /\ Record(x, s).swallow = x.swallow
BY DEF Record, Outs

LEMMA RecHeadKeeps ==
  ASSUME NEW x \in Outs, Agree(x), NEW s \in Codes
  PROVE  /\ RecHead(x, s) \in Outs /\ Agree(RecHead(x, s))
         /\ RecHead(x, s).status = IF x.status = 0 THEN s ELSE x.status
         /\ RecHead(x, s).sent = IF x.status = 0 THEN x.header ELSE x.sent
         /\ RecHead(x, s).header = x.header /\ RecHead(x, s).body = x.body
         /\ RecHead(x, s).decided = x.decided /\ RecHead(x, s).swallow = x.swallow
<1>1. PICK y : y = Record(x, s)
  OBVIOUS
<1>2. y \in Outs /\ RecHead(x, s) = NetHead(y, s)
  BY <1>1, RecordKeeps DEF RecHead
<1>3. PICK z : z = NetHead(y, s)
  OBVIOUS
<1>4. /\ z \in Outs /\ z.status = (IF y.status = 0 THEN s ELSE y.status)
      /\ z.sent = (IF y.status = 0 THEN y.header ELSE y.sent) /\ z.header = y.header /\ z.body = y.body
      /\ z.recorded = y.recorded /\ z.wrote = y.wrote /\ z.decided = y.decided /\ z.swallow = y.swallow
  BY <1>2, <1>3, NetHeadKeeps
<1>5. /\ y.wrote /\ y.recorded = (IF x.wrote THEN x.recorded ELSE s)
      /\ y.status = x.status /\ y.sent = x.sent /\ y.header = x.header /\ y.body = x.body
      /\ y.decided = x.decided /\ y.swallow = x.swallow
  BY <1>1, RecordKeeps
<1>6. Agree(z)
  BY <1>4, <1>5, KnownCodes DEF Agree
<1> QED
  BY <1>2, <1>3, <1>4, <1>5, <1>6

LEMMA RecWriteKeeps ==
  ASSUME NEW x \in Outs, Agree(x), NEW c \in Chunks
  PROVE  /\ RecWrite(x, c) \in Outs /\ Agree(RecWrite(x, c))
         /\ RecWrite(x, c).status = IF x.status = 0 THEN 200 ELSE x.status
         /\ RecWrite(x, c).sent = IF x.status = 0 THEN x.header ELSE x.sent
         /\ RecWrite(x, c).header = x.header /\ RecWrite(x, c).body = Append(x.body, c)
         /\ RecWrite(x, c).decided = x.decided /\ RecWrite(x, c).swallow = x.swallow
<1>1. PICK s : s = IF x.wrote THEN x.recorded ELSE 200
  OBVIOUS
<1>2. s \in Codes
  BY <1>1, KnownCodes DEF Outs
<1>3. PICK y : y = Record(x, s)
  OBVIOUS
<1>4. y \in Outs /\ RecWrite(x, c) = NetWrite(y, c)
  BY <1>1, <1>2, <1>3, RecordKeeps DEF RecWrite
<1>5. PICK z : z = NetWrite(y, c)
  OBVIOUS
<1>6. /\ z \in Outs /\ z.status = (IF y.status = 0 THEN 200 ELSE y.status)
      /\ z.sent = (IF y.status = 0 THEN y.header ELSE y.sent) /\ z.header = y.header
      /\ z.body = Append(y.body, c)
      /\ z.recorded = y.recorded /\ z.wrote = y.wrote /\ z.decided = y.decided /\ z.swallow = y.swallow
  BY <1>4, <1>5, NetWriteKeeps
<1>7. /\ y.wrote /\ y.recorded = (IF x.wrote THEN x.recorded ELSE s)
      /\ y.status = x.status /\ y.sent = x.sent /\ y.header = x.header /\ y.body = x.body
      /\ y.decided = x.decided /\ y.swallow = x.swallow
  BY <1>2, <1>3, RecordKeeps
<1>8. Agree(z)
  BY <1>1, <1>6, <1>7, KnownCodes DEF Agree
<1> QED
  BY <1>4, <1>5, <1>6, <1>7, <1>8

LEMMA HeaderIsFree ==
  ASSUME NEW x \in Outs, Agree(x), NEW h \in Headers
  PROVE  /\ [x EXCEPT !.header = h] \in Outs /\ Agree([x EXCEPT !.header = h])
         /\ [x EXCEPT !.header = h].header = h /\ [x EXCEPT !.header = h].status = x.status
         /\ [x EXCEPT !.header = h].sent = x.sent /\ [x EXCEPT !.header = h].body = x.body
         /\ [x EXCEPT !.header = h].decided = x.decided /\ [x EXCEPT !.header = h].swallow = x.swallow
BY DEF Outs, Agree

LEMMA TypedHeader ==
  ASSUME NEW x \in Outs, Agree(x), NEW t \in {"json", "text", "page"}
  PROVE  LET y == [x EXCEPT !.header.type = t]
         IN  /\ y \in Outs /\ Agree(y) /\ y.header.type = t /\ y.header.retry = x.header.retry
             /\ y.status = x.status /\ y.sent = x.sent /\ y.body = x.body
             /\ y.decided = x.decided /\ y.swallow = x.swallow
<1>1. PICK h : h = [x.header EXCEPT !.type = t]
  OBVIOUS
<1>2. h \in Headers /\ h.type = t /\ h.retry = x.header.retry
  BY <1>1 DEF Headers, Outs
<1>3. PICK y : y = [x EXCEPT !.header = h]
  OBVIOUS
<1>4. [x EXCEPT !.header.type = t] = y
  <2>1. [x EXCEPT !.header.type = t] = [x EXCEPT !.header = [x.header EXCEPT !.type = t]]
    OBVIOUS
  <2> QED
    BY <1>1, <1>3, <2>1, Zenon
<1>5. /\ y \in Outs /\ Agree(y) /\ y.header = h /\ y.status = x.status /\ y.sent = x.sent
      /\ y.body = x.body /\ y.decided = x.decided /\ y.swallow = x.swallow
  BY <1>2, <1>3, HeaderIsFree
<1> QED
  BY <1>2, <1>4, <1>5, Zenon

LEMMA RetryHeader ==
  ASSUME NEW x \in Outs, Agree(x), NEW b \in BOOLEAN
  PROVE  LET y == [x EXCEPT !.header.retry = b]
         IN  /\ y \in Outs /\ Agree(y) /\ y.header.retry = b /\ y.header.type = x.header.type
             /\ y.status = x.status /\ y.sent = x.sent /\ y.body = x.body
             /\ y.decided = x.decided /\ y.swallow = x.swallow
<1>1. PICK h : h = [x.header EXCEPT !.retry = b]
  OBVIOUS
<1>2. h \in Headers /\ h.retry = b /\ h.type = x.header.type
  BY <1>1 DEF Headers, Outs
<1>3. PICK y : y = [x EXCEPT !.header = h]
  OBVIOUS
<1>4. [x EXCEPT !.header.retry = b] = y
  <2>1. [x EXCEPT !.header.retry = b] = [x EXCEPT !.header = [x.header EXCEPT !.retry = b]]
    OBVIOUS
  <2> QED
    BY <1>1, <1>3, <2>1, Zenon
<1>5. /\ y \in Outs /\ Agree(y) /\ y.header = h /\ y.status = x.status /\ y.sent = x.sent
      /\ y.body = x.body /\ y.decided = x.decided /\ y.swallow = x.swallow
  BY <1>2, <1>3, HeaderIsFree
<1> QED
  BY <1>2, <1>4, <1>5, Zenon

Decides(x) == [x EXCEPT !.decided = TRUE]

LEMMA DecidesKeeps ==
  ASSUME NEW x \in Outs, Agree(x)
  PROVE  /\ Decides(x) \in Outs /\ Agree(Decides(x)) /\ Decides(x).decided
         /\ Decides(x).header = x.header /\ Decides(x).status = x.status /\ Decides(x).sent = x.sent
         /\ Decides(x).body = x.body /\ Decides(x).swallow = x.swallow
BY ZenonT(60) DEF Decides, Outs, Agree

LEMMA SwallowsKeeps ==
  ASSUME NEW x \in Outs, Agree(x)
  PROVE  LET y == [x EXCEPT !.swallow = TRUE]
         IN  /\ y \in Outs /\ Agree(y) /\ y.swallow /\ y.decided = x.decided
             /\ y.header = x.header /\ y.status = x.status /\ y.sent = x.sent /\ y.body = x.body
BY DEF Outs, Agree

\* The whole of a JSON answer: what it puts on the wire, if nothing is there yet.
LEMMA RecJSONKeeps ==
  ASSUME NEW x \in Outs, Agree(x), NEW s \in Codes
  PROVE  /\ RecJSON(x, s) \in Outs /\ Agree(RecJSON(x, s)) /\ RecJSON(x, s).swallow = x.swallow
         /\ RecJSON(x, s).status = IF x.status = 0 THEN s ELSE x.status
         /\ x.status = 0 => RecJSON(x, s).sent.type = JSON /\ RecJSON(x, s).sent.retry = x.header.retry
         /\ RecJSON(x, s).body = Append(x.body, JSON)
<1>1. PICK y : y = AsJSON(x)
  OBVIOUS
<1>2. /\ y \in Outs /\ Agree(y) /\ y.header.type = JSON /\ y.header.retry = x.header.retry
      /\ y.status = x.status /\ y.sent = x.sent /\ y.body = x.body /\ y.swallow = x.swallow
  BY <1>1, TypedHeader DEF AsJSON, JSON
<1>3. PICK z : z = RecHead(y, s)
  OBVIOUS
<1>4. /\ z \in Outs /\ Agree(z) /\ z.status = (IF y.status = 0 THEN s ELSE y.status)
      /\ z.sent = (IF y.status = 0 THEN y.header ELSE y.sent) /\ z.body = y.body /\ z.swallow = y.swallow
  BY <1>2, <1>3, RecHeadKeeps
<1>5. JSON \in Chunks /\ z.status # 0
  BY <1>2, <1>4, KnownCodes DEF Chunks
<1>6. /\ RecWrite(z, JSON) \in Outs /\ Agree(RecWrite(z, JSON)) /\ RecWrite(z, JSON).status = z.status
      /\ RecWrite(z, JSON).sent = z.sent /\ RecWrite(z, JSON).body = Append(z.body, JSON)
      /\ RecWrite(z, JSON).swallow = z.swallow
  BY <1>4, <1>5, RecWriteKeeps
<1>7. RecJSON(x, s) = RecWrite(z, JSON)
  BY <1>1, <1>3 DEF RecJSON
<1> QED
  BY <1>2, <1>4, <1>6, <1>7

\* A handler's calls on the writer it is given, under /api and elsewhere.
LEMMA HeadKeeps ==
  ASSUME NEW x \in Outs, Agree(x), NEW s \in Codes
  PROVE  /\ WriteHeader(x, s) \in Outs /\ Agree(WriteHeader(x, s))
         /\ x.status = 0 /\ ~x.decided /\ ~x.swallow /\ (ask.api => ~IsBareMuxError(x, s)) =>
              /\ WriteHeader(x, s).status = s /\ WriteHeader(x, s).sent = x.header
              /\ WriteHeader(x, s).body = x.body /\ ~WriteHeader(x, s).swallow
         /\ x.status = 0 /\ ~x.decided /\ ask.api /\ IsBareMuxError(x, s) =>
              /\ WriteHeader(x, s).status = s /\ WriteHeader(x, s).sent.type = JSON
              /\ WriteHeader(x, s).body = Append(x.body, JSON) /\ WriteHeader(x, s).swallow
<1>1. CASE ~ask.api
  <2>1. WriteHeader(x, s) = RecHead(x, s)
    BY <1>1 DEF WriteHeader
  <2> QED
    BY <1>1, <2>1, RecHeadKeeps
<1>2. CASE ask.api
  <2>1. WriteHeader(x, s) = ContractHead(x, s)
    BY <1>2 DEF WriteHeader
  <2>2. CASE x.decided /\ x.swallow
    <3>1. ContractHead(x, s) = x
      BY <2>2 DEF ContractHead
    <3> QED
      BY <2>1, <2>2, <3>1
  <2>3. CASE x.decided /\ ~x.swallow
    <3>1. ContractHead(x, s) = RecHead(x, s)
      BY <2>3 DEF ContractHead
    <3> QED
      BY <2>1, <2>3, <3>1, RecHeadKeeps
  <2>4. PICK d : d = Decides(x)
    OBVIOUS
  <2>5. /\ d \in Outs /\ Agree(d) /\ d.header = x.header /\ d.status = x.status /\ d.sent = x.sent
        /\ d.body = x.body /\ d.swallow = x.swallow
    BY <2>4, DecidesKeeps
  <2>6. CASE ~x.decided /\ IsBareMuxError(x, s)
    <3>1. PICK e : e = [d EXCEPT !.swallow = TRUE]
      OBVIOUS
    <3>2. e \in Outs /\ Agree(e) /\ e.swallow /\ e.status = x.status /\ e.body = x.body
      BY <2>5, <3>1, SwallowsKeeps
    <3>3. ContractHead(x, s) = RecJSON(e, s)
      BY <2>4, <2>6, <3>1 DEF ContractHead, Decides
    <3>4. /\ RecJSON(e, s) \in Outs /\ Agree(RecJSON(e, s)) /\ RecJSON(e, s).swallow
          /\ x.status = 0 => /\ RecJSON(e, s).status = s /\ RecJSON(e, s).sent.type = JSON
                             /\ RecJSON(e, s).body = Append(x.body, JSON)
      BY <3>2, RecJSONKeeps
    <3> QED
      BY <1>2, <2>1, <2>6, <3>3, <3>4
  <2>7. CASE ~x.decided /\ ~IsBareMuxError(x, s)
    <3>1. ContractHead(x, s) = RecHead(d, s)
      BY <2>4, <2>7 DEF ContractHead, Decides
    <3>2. /\ RecHead(d, s) \in Outs /\ Agree(RecHead(d, s)) /\ RecHead(d, s).swallow = x.swallow
          /\ RecHead(d, s).body = x.body
          /\ x.status = 0 => RecHead(d, s).status = s /\ RecHead(d, s).sent = x.header
      BY <2>5, RecHeadKeeps
    <3> QED
      BY <1>2, <2>1, <2>7, <3>1, <3>2
  <2> QED
    BY <2>2, <2>3, <2>6, <2>7
<1> QED
  BY <1>1, <1>2

LEMMA BodyKeeps ==
  ASSUME NEW x \in Outs, Agree(x), NEW c \in Chunks
  PROVE  /\ WriteBody(x, c) \in Outs /\ Agree(WriteBody(x, c))
         /\ x.status # 0 => WriteBody(x, c).status = x.status /\ WriteBody(x, c).sent = x.sent
         /\ ask.api /\ x.swallow => WriteBody(x, c) = x
<1>1. CASE ~ask.api
  <2>1. WriteBody(x, c) = RecWrite(x, c)
    BY <1>1 DEF WriteBody
  <2> QED
    BY <1>1, <2>1, RecWriteKeeps
<1>2. CASE ask.api /\ x.swallow
  BY <1>2 DEF WriteBody, ContractWrite
<1>3. CASE ask.api /\ ~x.swallow
  <2>1. PICK d : d = Decides(x)
    OBVIOUS
  <2>2. d \in Outs /\ Agree(d) /\ d.status = x.status /\ d.sent = x.sent
    BY <2>1, DecidesKeeps
  <2>3. WriteBody(x, c) = RecWrite(d, c)
    BY <1>3, <2>1 DEF WriteBody, ContractWrite, Decides
  <2> QED
    BY <1>3, <2>2, <2>3, RecWriteKeeps
<1> QED
  BY <1>1, <1>2, <1>3

\* A whole answer of a handler.
LEMMA JSONKeeps ==
  ASSUME NEW x \in Outs, Agree(x), NEW s \in Codes
  PROVE  /\ WriteJSON(x, s) \in Outs /\ Agree(WriteJSON(x, s))
         /\ x.status = 0 /\ ~x.decided /\ ~x.swallow =>
              WriteJSON(x, s).status = s /\ WriteJSON(x, s).sent.retry = x.header.retry
<1>1. PICK y : y = AsJSON(x)
  OBVIOUS
<1>2. /\ y \in Outs /\ Agree(y) /\ y.header.type = JSON /\ y.header.retry = x.header.retry
      /\ y.status = x.status /\ y.decided = x.decided /\ y.swallow = x.swallow
  BY <1>1, TypedHeader DEF AsJSON, JSON
<1>3. ~IsBareMuxError(y, s)
  BY <1>2 DEF IsBareMuxError, JSON, Text
<1>4. PICK z : z = WriteHeader(y, s)
  OBVIOUS
<1>5. /\ z \in Outs /\ Agree(z)
      /\ y.status = 0 /\ ~y.decided /\ ~y.swallow => z.status = s /\ z.sent = y.header
  BY <1>2, <1>3, <1>4, HeadKeeps
<1>6. JSON \in Chunks
  BY DEF Chunks
<1>7. /\ WriteBody(z, JSON) \in Outs /\ Agree(WriteBody(z, JSON))
      /\ z.status # 0 => WriteBody(z, JSON).status = z.status /\ WriteBody(z, JSON).sent = z.sent
  BY <1>5, <1>6, BodyKeeps
<1>8. WriteJSON(x, s) = WriteBody(z, JSON)
  BY <1>1, <1>4 DEF WriteJSON
<1> QED
  BY <1>2, <1>5, <1>7, <1>8, KnownCodes

-----------------------------------------------------------------------------

Helps(f) == f.error \in Passing \/ f = [op |-> "generate", error |-> "23505"]

LEMMA UnavailableIsTold ==
  ASSUME NEW marks, "unavailable" \in marks, "invalid" \notin marks PROVE StatusOf(marks) = 503
BY DEF StatusOf

MarksOf(op, e) ==
  IF op = "generate" /\ e = "23505" THEN {"unavailable", "conflict"} ELSE ErrorOf(op, e)

LEMMA HelpsOf ==
  ASSUME NEW op, NEW e
  PROVE  Helps([op |-> op, error |-> e]) <=> e \in Passing \/ (op = "generate" /\ e = "23505")
<1>1. PICK f : f = [op |-> op, error |-> e]
  OBVIOUS
<1>2. f = [op |-> "generate", error |-> "23505"] <=> op = "generate" /\ e = "23505"
  BY <1>1
<1>3. f.error = e
  BY <1>1
<1> QED
  BY <1>1, <1>2, <1>3, Zenon DEF Helps

LEMMA PassingMarks ==
  ASSUME NEW op, NEW e \in Passing PROVE MarksOf(op, e) = {"unavailable", e}
<1>1. e # "no rows" /\ e # "23505" /\ e # "23514"
  BY DEF Passing
<1>2. StorageError(e) = {"unavailable", e}
  BY <1>1 DEF Passing, StorageError, PgUnavailableCode
<1>3. MapWriteError(e) = StorageError(e)
  BY <1>1 DEF MapWriteError
<1> QED
  BY <1>1, <1>2, <1>3 DEF MarksOf, ErrorOf

LEMMA OtherMarks ==
  ASSUME NEW op, NEW e \in {"57014", "40001", "23503"} PROVE MarksOf(op, e) = {e}
<1>1. e # "no rows" /\ e # "23505" /\ e # "23514" /\ e # "no sqlstate"
  OBVIOUS
<1>2. StorageError(e) = {e}
  BY <1>1 DEF StorageError, PgUnavailableCode
<1>3. MapWriteError(e) = StorageError(e)
  BY <1>1 DEF MapWriteError
<1> QED
  BY <1>1, <1>2, <1>3 DEF MarksOf, ErrorOf

LEMMA RefusedMarks ==
  ASSUME NEW op, NEW e, CanFail(op, e)
  PROVE  /\ e = "23514" => MarksOf(op, e) = {"invalid"}
         /\ e = "23505" /\ op # "generate" => MarksOf(op, e) = {"conflict"}
         /\ e = "no rows" => MarksOf(op, e) = {"not found"} /\ op # "generate"
BY DEF CanFail, MarksOf, ErrorOf, MapWriteError

\* The marks of a failure decide what its client is told.
LEMMA StatusTells ==
  ASSUME NEW op \in Operations, NEW e \in DriverErrors, CanFail(op, e),
         NEW marks, marks = MarksOf(op, e)
  PROVE  /\ StatusOf(marks) \in Codes
         /\ (StatusOf(marks) = 503) <=> Helps([op |-> op, error |-> e])
         /\ op = "generate" => StatusOf(marks) # 409
<1>1. Helps([op |-> op, error |-> e]) <=> e \in Passing \/ (op = "generate" /\ e = "23505")
  BY HelpsOf
<1>2. CASE op = "generate" /\ e = "23505"
  <2>1. "unavailable" \in marks /\ "invalid" \notin marks
    BY <1>2 DEF MarksOf
  <2>2. StatusOf(marks) = 503
    BY <2>1, UnavailableIsTold
  <2> QED
    BY <1>1, <1>2, <2>2, KnownCodes
<1>3. CASE e \in Passing
  <2>1. "unavailable" \in marks /\ "invalid" \notin marks
    <3>1. marks = {"unavailable", e}
      BY <1>3, PassingMarks, Zenon
    <3>2. e # "invalid"
      BY <1>3 DEF Passing
    <3> QED
      BY <3>1, <3>2
  <2>2. StatusOf(marks) = 503
    BY <2>1, UnavailableIsTold
  <2> QED
    BY <1>1, <1>3, <2>2, KnownCodes
<1>4. CASE e = "23514"
  <2>1. e \notin Passing /\ marks = {"invalid"}
    <3>1. marks = {"invalid"}
      BY <1>4, RefusedMarks, Zenon
    <3> QED
      BY <1>4, <3>1 DEF Passing
  <2>2. StatusOf(marks) = 422
    <3>1. StatusOf({"invalid"}) = 422
      BY DEF StatusOf
    <3> QED
      BY <2>1, <3>1, Zenon
  <2> QED
    BY <1>1, <1>4, <2>1, <2>2, KnownCodes
<1>5. CASE e = "23505" /\ op # "generate"
  <2>1. e \notin Passing /\ marks = {"conflict"}
    <3>1. marks = {"conflict"}
      BY <1>5, RefusedMarks, Zenon
    <3> QED
      BY <1>5, <3>1 DEF Passing
  <2>2. StatusOf(marks) = 409
    <3>1. StatusOf({"conflict"}) = 409
      BY DEF StatusOf
    <3> QED
      BY <2>1, <3>1, Zenon
  <2> QED
    BY <1>1, <1>5, <2>1, <2>2, KnownCodes
<1>6. CASE e = "no rows"
  <2>1. e \notin Passing /\ marks = {"not found"} /\ op # "generate"
    <3>1. marks = {"not found"} /\ op # "generate"
      BY <1>6, RefusedMarks, Zenon
    <3> QED
      BY <1>6, <3>1 DEF Passing
  <2>2. StatusOf(marks) = 404
    <3>1. StatusOf({"not found"}) = 404
      BY DEF StatusOf
    <3> QED
      BY <2>1, <3>1, Zenon
  <2>3. StatusOf(marks) \in Codes /\ StatusOf(marks) # 503
    BY <2>2, KnownCodes
  <2> QED
    BY <1>1, <1>6, <2>1, <2>3, Zenon
<1>7. CASE e \in {"57014", "40001", "23503"}
  <2>1. e \notin Passing /\ marks = {e} /\ e # "23505"
    BY <1>7, OtherMarks DEF Passing
  <2>2. e \notin {"invalid", "unavailable", "conflict", "not found"}
    BY <1>7
  <2>3. StatusOf(marks) = 500
    <3>1. StatusOf({e}) = 500
      BY <2>2, ZenonT(60) DEF StatusOf
    <3> QED
      BY <2>1, <3>1, Zenon
  <2> QED
    BY <1>1, <2>1, <2>3, KnownCodes
<1> QED
  BY <1>2, <1>3, <1>4, <1>5, <1>6, <1>7 DEF DriverErrors, Passing

Routes == {"handler", "no path", "no method", "preflight"}

\* What the client is told of a failure.
ToldOf(f, x) ==
  /\ x.status # 0
  /\ x.status = 503 <=> Helps(f)
  /\ x.sent.retry <=> Helps(f)
  /\ f.op = "generate" => x.status # 409

\* The answer to an unknown path or method under /api.
BareError(x) ==
  /\ x.swallow /\ x.body = <<JSON>> /\ x.sent.type = JSON
  /\ x.status = IF ask.route = "no path" THEN 404 ELSE 405

AnswerStrong ==
  /\ ask \in [api : BOOLEAN, route : Routes]
  /\ at \in {"arrived", "mux", "handler", "returned", "done"}
  /\ tried \in 0..Attempts /\ calls \in 0..MaxCalls /\ logged \in Codes \cup {0}
  /\ out \in Outs
  /\ at # "done" => Agree(out) /\ logged = 0
  /\ at = "arrived" => out = Nothing /\ tried < Attempts /\ calls = 0
  /\ at = "handler" => ask.route = "handler" /\ tried < Attempts /\ (calls = 0 => out = Nothing)
  /\ failure # NoFailure => at \in {"returned", "done"} /\ ToldOf(failure, out)
  /\ ask.api /\ ask.route \in {"no path", "no method"} /\ at # "arrived" => BareError(out)
  /\ LogIsTrue

LEMMA AnswerStarts == ASSUME AnswerInit PROVE AnswerStrong
<1>1. 0 \in 0..Attempts /\ 0 \in 0..MaxCalls /\ 0 < Attempts
  BY AnswerAssumption
<1> QED
  BY <1>1, NothingIsOut DEF AnswerInit, AnswerStrong, Routes, LogIsTrue

LEMMA NothingIsThere ==
  /\ Nothing.status = 0 /\ ~Nothing.decided /\ ~Nothing.swallow /\ ~Nothing.header.retry
  /\ Nothing.body = <<>>
BY DEF Nothing, NoHeader

LEMMA DispatchStep == ASSUME AnswerStrong, Dispatch PROVE AnswerStrong'
<1>1. /\ at = "arrived" /\ out = Nothing /\ tried < Attempts /\ calls = 0 /\ failure = NoFailure /\ logged = 0
      /\ UNCHANGED <<ask, tried, failure, calls, logged>> /\ ask.route \in Routes /\ ask.api \in BOOLEAN
  BY DEF Dispatch, AnswerStrong
<1>2. out \in Outs /\ Agree(out)
  BY <1>1, NothingIsOut
<1>3. CASE ask.route = "preflight"
  <2>1. at' = "returned" /\ out' = RecHead(out, 204)
    BY <1>3 DEF Dispatch
  <2>2. out' \in Outs /\ Agree(out)'
    <3>1. RecHead(out, 204) \in Outs /\ Agree(RecHead(out, 204))
      BY <1>2, RecHeadKeeps, KnownCodes
    <3> QED
      BY <2>1, <3>1 DEF Agree
  <2> QED
    BY <1>1, <1>3, <2>1, <2>2 DEF AnswerStrong, LogIsTrue
<1>4. CASE ask.route = "handler"
  <2>1. at' = "handler" /\ out' = out
    BY <1>4 DEF Dispatch
  <2> QED
    BY <1>1, <1>2, <1>4, <2>1 DEF AnswerStrong, LogIsTrue, Agree
<1>5. CASE ask.route \in {"no path", "no method"}
  <2>1. PICK s : s = IF ask.route = "no path" THEN 404 ELSE 405
    BY ZenonT(30)
  <2>2. PICK x : x = [out EXCEPT !.header.type = Text]
    OBVIOUS
  <2>3. at' = "mux" /\ out' = WriteHeader(x, s)
    BY <1>5, <2>1, <2>2 DEF Dispatch
  <2>4. s \in Codes /\ s \in {404, 405}
    BY <2>1, KnownCodes, ZenonT(60)
  <2>5. /\ x \in Outs /\ Agree(x) /\ x.header.type = Text /\ x.status = 0 /\ ~x.decided /\ x.body = <<>>
    <3>1. Text \in {"json", "text", "page"}
      BY DEF Text
    <3>2. /\ x \in Outs /\ Agree(x) /\ x.header.type = Text /\ x.status = out.status
          /\ x.decided = out.decided /\ x.body = out.body
      BY <1>2, <2>2, <3>1, TypedHeader, Zenon
    <3> QED
      BY <1>1, <3>2, NothingIsThere
  <2>6. IsBareMuxError(x, s)
    BY <2>4, <2>5 DEF IsBareMuxError
  <2>7. PICK y : y = WriteHeader(x, s)
    OBVIOUS
  <2>8. /\ y \in Outs /\ Agree(y)
        /\ ask.api => y.status = s /\ y.sent.type = JSON /\ y.body = Append(x.body, JSON) /\ y.swallow
    BY <2>4, <2>5, <2>6, <2>7, HeadKeeps
  <2>9. Append(x.body, JSON) = <<JSON>>
    BY <2>5
  <2>10. ask.api => BareError(out)'
    <3>1. out' = y /\ ask' = ask
      BY <1>1, <2>3, <2>7
    <3>2. ask.api => y.swallow /\ y.body = <<JSON>> /\ y.sent.type = JSON /\ y.status = s
      BY <2>8, <2>9
    <3> QED
      BY <2>1, <3>1, <3>2, Zenon DEF BareError
  <2>11. out' \in Outs /\ Agree(out)'
    BY <2>3, <2>7, <2>8 DEF Agree
  <2> QED
    BY <1>1, <1>5, <2>3, <2>10, <2>11 DEF AnswerStrong, LogIsTrue
<1> QED
  BY <1>1, <1>3, <1>4, <1>5 DEF Routes

LEMMA MuxTextStep == ASSUME AnswerStrong, MuxText PROVE AnswerStrong'
<1>1. /\ at = "mux" /\ at' = "returned" /\ out' = WriteBody(out, Text) /\ Text \in Chunks
      /\ UNCHANGED <<ask, tried, failure, calls, logged>> /\ out \in Outs /\ Agree(out) /\ logged = 0
      /\ failure = NoFailure
  BY DEF MuxText, AnswerStrong, Chunks
<1>2. /\ WriteBody(out, Text) \in Outs /\ Agree(WriteBody(out, Text))
      /\ ask.api /\ out.swallow => WriteBody(out, Text) = out
  BY <1>1, BodyKeeps
<1>3. out' \in Outs /\ Agree(out)'
  BY <1>1, <1>2 DEF Agree
<1>4. ask.api /\ ask.route \in {"no path", "no method"} => BareError(out)'
  BY <1>1, <1>2, ZenonT(60) DEF AnswerStrong, BareError
<1> QED
  BY <1>1, <1>3, <1>4 DEF AnswerStrong, LogIsTrue

LEMMA SucceedStep == ASSUME AnswerStrong, Succeed PROVE AnswerStrong'
<1>1. /\ at = "handler" /\ at' = "returned" /\ out' = WriteJSON(out, 200)
      /\ UNCHANGED <<ask, tried, failure, calls, logged>> /\ out \in Outs /\ Agree(out) /\ logged = 0
      /\ failure = NoFailure /\ ask.route = "handler"
  BY DEF Succeed, AnswerStrong
<1>2. WriteJSON(out, 200) \in Outs /\ Agree(WriteJSON(out, 200))
  BY <1>1, JSONKeeps, KnownCodes
<1>3. out' \in Outs /\ Agree(out)'
  BY <1>1, <1>2 DEF Agree
<1> QED
  BY <1>1, <1>3 DEF AnswerStrong, LogIsTrue

LEMMA FailureStep ==
  ASSUME AnswerStrong, NEW op \in Operations, NEW e \in DriverErrors, OperationFails(op, e)
  PROVE  AnswerStrong'
<1>1. /\ at = "handler" /\ calls = 0 /\ CanFail(op, e) /\ out = Nothing /\ logged = 0 /\ failure = NoFailure
      /\ ask.route = "handler" /\ tried \in Nat /\ tried < Attempts /\ UNCHANGED <<ask, calls, logged>>
  <2>1. at = "handler" /\ calls = 0 /\ CanFail(op, e) /\ UNCHANGED <<ask, calls, logged>>
    BY DEF OperationFails
  <2>2. at # "done" /\ at \notin {"returned", "done"}
    BY <2>1
  <2>3. out = Nothing /\ ask.route = "handler" /\ tried < Attempts
    BY <2>1, Zenon DEF AnswerStrong
  <2>4. logged = 0 /\ failure = NoFailure
    BY <2>2, Zenon DEF AnswerStrong
  <2>5. tried \in 0..Attempts
    BY DEF AnswerStrong
  <2> QED
    BY <2>1, <2>3, <2>4, <2>5, AnswerAssumption
<1>2. out \in Outs /\ Agree(out)
  BY <1>1, NothingIsOut
<1>3. tried' \in 0..Attempts
  BY <1>1, AnswerAssumption DEF OperationFails
<1>4. CASE op = "generate" /\ e = "23505" /\ tried' < Attempts
  <2>1. UNCHANGED <<at, out, failure>>
    BY <1>4 DEF OperationFails
  <2> QED
    BY <1>1, <1>2, <1>3, <1>4, <2>1 DEF AnswerStrong, LogIsTrue, Agree
<1>5. CASE ~(op = "generate" /\ e = "23505" /\ tried' < Attempts)
  <2>1. PICK marks : marks = MarksOf(op, e)
    OBVIOUS
  <2>2. failure' = [op |-> op, error |-> e] /\ Reply(marks)
    BY <1>5, <2>1 DEF OperationFails, MarksOf
  <2>3. PICK s : s = StatusOf(marks)
    OBVIOUS
  <2>4. /\ s \in Codes /\ (s = 503 <=> Helps([op |-> op, error |-> e])) /\ (op = "generate" => s # 409)
    BY <1>1, <2>1, <2>3, StatusTells
  <2>5. PICK b : b = (out.header.retry \/ s = 503)
    OBVIOUS
  <2>6. b \in BOOLEAN /\ (b <=> s = 503)
    BY <1>1, <2>5, NothingIsThere
  <2>7. PICK x : x = [out EXCEPT !.header.retry = b]
    OBVIOUS
  <2>8. /\ x \in Outs /\ Agree(x) /\ x.header.retry = b /\ x.status = 0 /\ ~x.decided /\ ~x.swallow
    <3>1. /\ x \in Outs /\ Agree(x) /\ x.header.retry = b /\ x.status = out.status
          /\ x.decided = out.decided /\ x.swallow = out.swallow
      <4>1. b \in BOOLEAN
        BY <2>6
      <4> HIDE <2>6
      <4> QED
        BY <1>2, <2>7, <4>1, RetryHeader
    <3> QED
      BY <1>1, <3>1, NothingIsThere, Zenon
  <2>9. at' = "returned" /\ out' = WriteJSON(x, s)
    BY <2>2, <2>3, <2>5, <2>7 DEF Reply
  <2>10. PICK y : y = WriteJSON(x, s)
    OBVIOUS
  <2>11. y \in Outs /\ Agree(y) /\ y.status = s /\ y.sent.retry = b
    BY <2>4, <2>8, <2>10, JSONKeeps
  <2>12. out' \in Outs /\ Agree(out)'
    BY <2>9, <2>10, <2>11 DEF Agree
  <2>13. ToldOf(failure, out)'
    <3>1. failure'.op = op
      BY <2>2
    <3> QED
      BY <2>2, <2>4, <2>6, <2>9, <2>10, <2>11, <3>1, KnownCodes DEF ToldOf, Helps
  <2> QED
    BY <1>1, <1>3, <2>9, <2>12, <2>13 DEF AnswerStrong, LogIsTrue
<1> QED
  BY <1>4, <1>5

LEMMA OwnStep == ASSUME AnswerStrong, OwnCall \/ OwnEnd PROVE AnswerStrong'
<1>1. /\ at = "handler" /\ out \in Outs /\ Agree(out) /\ logged = 0 /\ failure = NoFailure
      /\ ask.route = "handler" /\ UNCHANGED <<ask, tried, failure, logged>>
  BY DEF OwnCall, OwnEnd, AnswerStrong
<1>2. CASE OwnCall
  <2>1. calls' \in 0..MaxCalls /\ calls' # 0 /\ at' = at
    <3>1. calls < MaxCalls /\ calls' = calls + 1 /\ at' = at
      BY <1>2 DEF OwnCall
    <3>2. calls \in 0..MaxCalls
      BY DEF AnswerStrong
    <3> QED
      BY <3>1, <3>2, AnswerAssumption
  <2>2. out' \in Outs /\ Agree(out)'
    <3>1. ASSUME NEW s \in {200, 404, 500}, out' = WriteHeader([out EXCEPT !.header.type = "page"], s)
          PROVE  out' \in Outs /\ Agree(out)'
      <4>1. PICK x : x = [out EXCEPT !.header.type = "page"]
        OBVIOUS
      <4>2. x \in Outs /\ Agree(x)
        BY <1>1, <4>1, TypedHeader
      <4>3. WriteHeader(x, s) \in Outs /\ Agree(WriteHeader(x, s))
        <5>1. s \in Codes
          BY DEF Codes
        <5> QED
          BY <4>2, <5>1, HeadKeeps
      <4> QED
        BY <3>1, <4>1, <4>3 DEF Agree
    <3>2. ASSUME out' = WriteBody(out, "page") PROVE out' \in Outs /\ Agree(out)'
      <4>1. WriteBody(out, "page") \in Outs /\ Agree(WriteBody(out, "page"))
        BY <1>1, BodyKeeps DEF Chunks
      <4> QED
        BY <3>2, <4>1 DEF Agree
    <3> QED
      BY <1>2, <3>1, <3>2 DEF OwnCall
  <2> QED
    BY <1>1, <2>1, <2>2 DEF AnswerStrong, LogIsTrue
<1>3. CASE OwnEnd
  <2>1. at' = "returned" /\ UNCHANGED <<calls, out>>
    BY <1>3 DEF OwnEnd
  <2> QED
    BY <1>1, <2>1 DEF AnswerStrong, LogIsTrue, Agree
<1> QED
  BY <1>2, <1>3

LEMMA PanicStep == ASSUME AnswerStrong, Panic PROVE AnswerStrong'
<1>1. /\ at = "handler" /\ at' = "done" /\ out' = NetJSON(out, 500) /\ out \in Outs /\ Agree(out) /\ logged = 0
      /\ failure = NoFailure /\ ask.route = "handler" /\ UNCHANGED <<ask, tried, failure, calls, logged>>
  BY DEF Panic, AnswerStrong
<1>2. PICK x : x = AsJSON(out)
  OBVIOUS
<1>3. x \in Outs
  BY <1>1, <1>2, TypedHeader DEF AsJSON, JSON
<1>4. NetHead(x, 500) \in Outs
  BY <1>3, NetHeadKeeps, KnownCodes
<1>5. NetWrite(NetHead(x, 500), JSON) \in Outs
  BY <1>4, NetWriteKeeps DEF Chunks
<1>6. out' \in Outs
  BY <1>1, <1>2, <1>5 DEF NetJSON
<1> QED
  BY <1>1, <1>6 DEF AnswerStrong, LogIsTrue

LEMMA ReturnStep == ASSUME AnswerStrong, Return PROVE AnswerStrong'
<1>1. /\ at = "returned" /\ at' = "done" /\ logged' = out.recorded /\ out' = NetHead(out, 200)
      /\ UNCHANGED <<ask, tried, failure, calls>> /\ out \in Outs /\ Agree(out)
  BY DEF Return, AnswerStrong
<1>2. PICK y : y = NetHead(out, 200)
  OBVIOUS
<1>3. /\ y \in Outs /\ y.status = (IF out.status = 0 THEN 200 ELSE out.status)
      /\ y.sent = (IF out.status = 0 THEN out.header ELSE out.sent) /\ y.body = out.body
      /\ y.swallow = out.swallow
  <2>1. 200 \in Codes
    BY KnownCodes
  <2> QED
    BY <1>1, <1>2, <2>1, NetHeadKeeps
<1>4. logged' \in Codes /\ logged' = y.status
  BY <1>1, <1>3 DEF Outs, Agree
<1>5. LogIsTrue'
  BY <1>1, <1>2, <1>4 DEF LogIsTrue
<1>6. failure # NoFailure => ToldOf(failure, out)'
  <2>1. SUFFICES ASSUME failure # NoFailure PROVE ToldOf(failure, out)'
    OBVIOUS
  <2>2. ToldOf(failure, out)
    BY <2>1 DEF AnswerStrong
  <2>3. y.status = out.status /\ y.sent = out.sent
    BY <1>3, <2>2 DEF ToldOf
  <2> QED
    BY <1>1, <1>2, <2>2, <2>3 DEF ToldOf, Helps
<1>7. ask.api /\ ask.route \in {"no path", "no method"} => BareError(out)'
  <2>1. SUFFICES ASSUME ask.api, ask.route \in {"no path", "no method"} PROVE BareError(out)'
    OBVIOUS
  <2>2. BareError(out)
    BY <1>1, <2>1 DEF AnswerStrong
  <2>3. y.status = out.status /\ y.sent = out.sent
    <3>1. out.status = 404 \/ out.status = 405
      BY <2>2 DEF BareError
    <3> QED
      BY <1>3, <3>1
  <2>4. out' = y /\ ask' = ask
    BY <1>1, <1>2
  <2>5. /\ y.swallow /\ y.body = <<JSON>> /\ y.sent.type = JSON
        /\ y.status = IF ask.route = "no path" THEN 404 ELSE 405
    BY <1>3, <2>2, <2>3, ZenonT(40) DEF BareError
  <2> QED
    BY <2>4, <2>5, Zenon DEF BareError
<1> QED
  BY <1>1, <1>2, <1>3, <1>4, <1>5, <1>6, <1>7 DEF AnswerStrong

\* The inductive invariant of a request.
THEOREM AnswerInvariant == AnswerSpec => []AnswerStrong
<1>1. AnswerInit => AnswerStrong
  BY AnswerStarts
<1>2. AnswerStrong /\ [AnswerNext]_answerVars => AnswerStrong'
  <2>1. ASSUME AnswerStrong, UNCHANGED answerVars PROVE AnswerStrong'
    <3>1. UNCHANGED <<ask, at, tried, failure, calls, out, logged>>
      BY <2>1 DEF answerVars
    <3>2. ask' = ask /\ at' = at /\ tried' = tried /\ failure' = failure /\ calls' = calls /\ out' = out
          /\ logged' = logged
      BY <3>1
    <3>3. /\ Agree(out)' <=> Agree(out)
          /\ ToldOf(failure, out)' <=> ToldOf(failure, out)
          /\ BareError(out)' <=> BareError(out)
          /\ LogIsTrue' <=> LogIsTrue
      BY <3>2 DEF LogIsTrue, Agree, BareError, ToldOf, Helps
    <3> QED
      BY <2>1, <3>3, <3>2, Zenon DEF AnswerStrong
  <2> QED
    BY <2>1, DispatchStep, MuxTextStep, SucceedStep, FailureStep, OwnStep, PanicStep, ReturnStep DEF AnswerNext
<1> QED
  BY <1>1, <1>2, PTL DEF AnswerSpec

\* handler/, httpx/: a client is told to try again exactly where that may help,
\* errors under /api are JSON in one piece, the access log has the client's status.
THEOREM AnswerIsTrue == AnswerSpec => []AnswerInv
<1>1. ASSUME AnswerStrong PROVE AnswerInv
  <2>1. \A i \in DOMAIN out.body : out.body[i] \in {JSON, Text, "page"}
    <3>1. PICK s : s = out.body
      OBVIOUS
    <3>2. s \in Seq(Chunks)
      BY <1>1, <3>1 DEF AnswerStrong, Outs
    <3>3. \A i \in DOMAIN s : s[i] \in Chunks
      BY <3>2
    <3> QED
      BY <3>1, <3>3, Zenon DEF Chunks
  <2>2. AnswerTypeOK
    <3>1. out.status \in Codes \cup {0} /\ logged \in Codes \cup {0}
      BY <1>1 DEF AnswerStrong, Outs
    <3>2. /\ out.status \in {0, 200, 204, 404, 405, 409, 422, 500, 503}
          /\ logged \in {0, 200, 204, 404, 405, 409, 422, 500, 503}
      BY <3>1 DEF Codes
    <3> QED
      BY <1>1, <2>1, <3>2, ZenonT(40) DEF AnswerStrong, AnswerTypeOK, Routes
  <2>3. RetryOnlyIfItHelps
    BY <1>1 DEF AnswerStrong, RetryOnlyIfItHelps, ToldOf, Helps
  <2>4. ApiErrorsAreJSON
    BY <1>1 DEF AnswerStrong, ApiErrorsAreJSON, BareError
  <2> QED
    BY <1>1, <2>2, <2>3, <2>4 DEF AnswerStrong, AnswerInv
<1> QED
  BY <1>1, AnswerInvariant, PTL

=============================================================================
