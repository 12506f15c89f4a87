-------------------------- MODULE DomainSnapshot ---------------------------
(***************************************************************************)
(* Custom domains: the table of registered domains, the snapshot of it     *)
(* that every process keeps and refreshes while it answers requests, and   *)
(* the three things a request asks of the snapshot: the domain of a host   *)
(* it resolves a code in, the domain a new link goes to, and the host of a *)
(* link's short URL.                                                       *)
(*                                                                         *)
(* A lookup loads the pointer, tries to become the one that refreshes,     *)
(* reads the table, stores the pointer and releases the flag, each a step  *)
(* of its own.  Domains are registered and removed by an operator.         *)
(***************************************************************************)
EXTENDS Naturals

CONSTANTS
  Domains,          \* ids of custom domains
  NameOf,           \* the host name of each id
  Hosts,            \* the hosts that requests and creations name
  Links,            \* links
  Lookups,          \* requests that ask the snapshot
  Default,          \* the default domain: a link without a domain, no entry
  NoSnap,           \* no snapshot: the nil pointer of a process that starts
  SnapshotTTL,      \* domainSnapshotTTL, in clock ticks
  ResolveTimeout,   \* how long one refresh may take
  MaxSnapTime,      \* bound: ticks of the clock
  MaxChanges        \* bound: registrations and removals

Absent == "absent"      \* a link that is not stored
NoHost == ""            \* what a missing Host header normalises to

ASSUME SnapAssumption ==
  /\ NameOf \in [Domains -> Hosts]
  /\ Default \notin Domains /\ Absent \notin Domains \cup {Default}
  /\ NoSnap \notin [ids : SUBSET Domains, readAt : Nat]
  /\ SnapshotTTL \in Nat \ {0} /\ ResolveTimeout \in Nat
  /\ MaxSnapTime \in Nat /\ MaxChanges \in Nat

VARIABLES
  time,        \* the clock, in ticks
  domains,     \* the table of registered domains
  linkDomain,  \* domain_id of each stored link
  createdAt,   \* when each link was stored
  snap,        \* domainsSnap: its ids, and when they were read from the table
  loadedAt,    \* domainsSnap.loadedAt
  refreshing,  \* domainsRefreshing
  lookups,     \* requests in flight
  changes      \* registrations and removals so far

snapVars == <<time, domains, linkDomain, createdAt, snap, loadedAt, refreshing, lookups, changes>>

\* byName: names are unique in the table, and so in every snapshot of it.
ByName(ids, h) == {d \in ids : NameOf[d] = h}
IdOf(s, h) ==
  IF s = NoSnap \/ h = NoHost THEN Default
  ELSE IF ByName(s.ids, h) = {} THEN Default
  ELSE CHOOSE d \in ByName(s.ids, h) : TRUE

\* domainName, and ShortURL's fallback to PUBLIC_BASE_URL.
HostOf(s, d) == IF s # NoSnap /\ d \in s.ids THEN NameOf[d] ELSE NoHost

NoLookup == [pc |-> "idle", kind |-> "none", host |-> NoHost, link |-> Absent,
             answer |-> NoSnap, began |-> 0, result |-> NoHost]

Fresh(s) == s # NoSnap /\ time - loadedAt < SnapshotTTL

-----------------------------------------------------------------------------
(* snapshot(). *)

\* A lookup starts and loads the pointer; a fresh snapshot is the answer.
Load(k, kind, h, l) ==
  /\ lookups[k].pc \in {"idle", "done"}
  /\ kind = "create" => linkDomain[l] = Absent
  /\ kind = "url" => h = NoHost /\ linkDomain[l] \notin {Absent, Default}
  /\ lookups' = [lookups EXCEPT ![k] =
       [NoLookup EXCEPT !.kind = kind, !.host = h, !.link = l, !.answer = snap,
                        !.pc = IF Fresh(snap) THEN "answered" ELSE "cas"]]
  /\ UNCHANGED <<time, domains, linkDomain, createdAt, snap, loadedAt, refreshing, changes>>

\* While another request refreshes, what was loaded is the answer.
CompareAndSwap_Unguarded(k) ==
  /\ lookups[k].pc = "cas"
  /\ refreshing' = TRUE
  /\ lookups' = [lookups EXCEPT ![k].pc = "list", ![k].began = time]
  /\ UNCHANGED <<time, domains, linkDomain, createdAt, snap, loadedAt, changes>>

CompareAndSwap(k) ==
  /\ lookups[k].pc = "cas"
  /\ refreshing' = TRUE
  /\ lookups' = [lookups EXCEPT ![k].pc = IF refreshing THEN "answered" ELSE "list",
                                ![k].began = IF refreshing THEN 0 ELSE time]
  /\ UNCHANGED <<time, domains, linkDomain, createdAt, snap, loadedAt, changes>>

\* ListAll reads the whole table in one statement.
List(k) ==
  /\ lookups[k].pc = "list"
  /\ lookups' = [lookups EXCEPT ![k].pc = "store",
                                ![k].answer = [ids |-> domains, readAt |-> time]]
  /\ UNCHANGED <<time, domains, linkDomain, createdAt, snap, loadedAt, refreshing, changes>>

\* A refresh that fails answers with the snapshot that was loaded before it.
ListFails(k) ==
  /\ lookups[k].pc = "list"
  /\ lookups' = [lookups EXCEPT ![k].pc = "release"]
  /\ UNCHANGED <<time, domains, linkDomain, createdAt, snap, loadedAt, refreshing, changes>>

Store(k) ==
  /\ lookups[k].pc = "store"
  /\ snap' = lookups[k].answer /\ loadedAt' = time
  /\ lookups' = [lookups EXCEPT ![k].pc = "release"]
  /\ UNCHANGED <<time, domains, linkDomain, createdAt, refreshing, changes>>

Release(k) ==
  /\ lookups[k].pc = "release"
  /\ refreshing' = FALSE
  /\ lookups' = [lookups EXCEPT ![k].pc = "answered", ![k].began = 0]
  /\ UNCHANGED <<time, domains, linkDomain, createdAt, snap, loadedAt, changes>>

-----------------------------------------------------------------------------
(* What the answer is used for. *)

Forgotten(k) == lookups' = [lookups EXCEPT ![k] = NoLookup]

\* The parts of a request that a property asks for later.
Finished(k, host, answer, result) ==
  lookups' = [lookups EXCEPT ![k] =
    [NoLookup EXCEPT !.pc = "done", !.kind = lookups[k].kind, !.link = lookups[k].link,
                     !.host = host, !.answer = answer, !.result = result]]

\* domainIDForHost and the query "domain_id IS NOT DISTINCT FROM": the link is
\* found only in the domain of the host.
Resolve_AnyDomain(k) ==
  LET c == lookups[k]
  IN  /\ c.pc = "answered" /\ c.kind = "resolve"
      /\ IF linkDomain[c.link] # Absent
         THEN Finished(k, c.host, NoSnap, "served") ELSE Forgotten(k)
      /\ UNCHANGED <<time, domains, linkDomain, createdAt, snap, loadedAt, refreshing, changes>>

Resolve(k) ==
  LET c == lookups[k]
  IN  /\ c.pc = "answered" /\ c.kind = "resolve"
      /\ IF linkDomain[c.link] = IdOf(c.answer, c.host)
         THEN Finished(k, c.host, NoSnap, "served") ELSE Forgotten(k)
      /\ UNCHANGED <<time, domains, linkDomain, createdAt, snap, loadedAt, refreshing, changes>>

\* resolveCreateDomain, and the insert with its foreign key: no host means the
\* default domain, an unknown one is 422, and one removed since is an error.
Create(k) ==
  LET c == lookups[k]  d == IdOf(c.answer, c.host)
      stored == linkDomain[c.link] = Absent /\ (c.host = NoHost \/ d \in domains)
  IN  /\ c.pc = "answered" /\ c.kind = "create"
      /\ linkDomain' = IF stored THEN [linkDomain EXCEPT ![c.link] = d] ELSE linkDomain
      /\ createdAt' = IF stored THEN [createdAt EXCEPT ![c.link] = time] ELSE createdAt
      /\ Forgotten(k)
      /\ UNCHANGED <<time, domains, snap, loadedAt, refreshing, changes>>

\* ShortURL: the host of the link's domain, or the default one.
ShortURL(k) ==
  LET c == lookups[k]
  IN  /\ c.pc = "answered" /\ c.kind = "url"
      /\ Finished(k, NoHost, c.answer, HostOf(c.answer, linkDomain[c.link]))
      /\ UNCHANGED <<time, domains, linkDomain, createdAt, snap, loadedAt, refreshing, changes>>

-----------------------------------------------------------------------------
(* The operator and the clock. *)

RegisterDomain(d) ==
  /\ d \notin domains /\ changes < MaxChanges
  /\ ByName(domains, NameOf[d]) = {}
  /\ domains' = domains \cup {d} /\ changes' = changes + 1
  /\ UNCHANGED <<time, linkDomain, createdAt, snap, loadedAt, refreshing, lookups>>

\* ON DELETE RESTRICT: not while a link is in the domain.
RemoveDomain(d) ==
  /\ d \in domains /\ changes < MaxChanges
  /\ \A l \in Links : linkDomain[l] # d
  /\ domains' = domains \ {d} /\ changes' = changes + 1
  /\ UNCHANGED <<time, linkDomain, createdAt, snap, loadedAt, refreshing, lookups>>

\* A refresh ends, with an error if need be, within its timeout.
SnapTick ==
  /\ time < MaxSnapTime
  /\ \A k \in Lookups : lookups[k].pc \in {"list", "store"} =>
       time < lookups[k].began + ResolveTimeout
  /\ time' = time + 1
  /\ UNCHANGED <<domains, linkDomain, createdAt, snap, loadedAt, refreshing, lookups, changes>>

SnapInit ==
  /\ time = 0
  /\ domains \in {ids \in SUBSET Domains : \A h \in Hosts : \A c, d \in ByName(ids, h) : c = d}
  /\ linkDomain \in [Links -> domains \cup {Default, Absent}]
  /\ createdAt = [l \in Links |-> 0]
  /\ snap = NoSnap /\ loadedAt = 0 /\ refreshing = FALSE
  /\ lookups = [k \in Lookups |-> NoLookup]
  /\ changes = 0

SnapNext ==
  \/ \E k \in Lookups :
       \/ \E kind \in {"resolve", "create", "url"}, h \in Hosts \cup {NoHost}, l \in Links :
            Load(k, kind, h, l)
       \/ CompareAndSwap(k) \/ List(k) \/ ListFails(k) \/ Store(k) \/ Release(k)
       \/ Resolve(k) \/ Create(k) \/ ShortURL(k)
  \/ \E d \in Domains : RegisterDomain(d) \/ RemoveDomain(d)
  \/ SnapTick

SnapSpec == SnapInit /\ [][SnapNext]_snapVars

-----------------------------------------------------------------------------
(* Properties. *)

Snapshots == [ids : SUBSET Domains, readAt : 0..MaxSnapTime]

SnapTypeOK ==
  /\ time \in 0..MaxSnapTime /\ loadedAt \in 0..time /\ changes \in 0..MaxChanges /\ refreshing \in BOOLEAN
  /\ domains \subseteq Domains
  /\ linkDomain \in [Links -> Domains \cup {Default, Absent}]
  /\ snap = NoSnap \/ snap \in Snapshots
  /\ \A k \in Lookups :
       /\ lookups[k].pc \in {"idle", "cas", "list", "store", "release", "answered", "done"}
       /\ lookups[k].answer = NoSnap \/ lookups[k].answer \in Snapshots

LookupsAt(pcs) == {k \in Lookups : lookups[k].pc \in pcs}
Refreshing == LookupsAt({"list", "store", "release"})

\* A lookup that is answered at once, without a refresh, gets domains that were in
\* the table less than one TTL and one refresh ago.
AtOnceStep ==
  \A k \in LookupsAt({"idle", "done"}) : lookups'[k].pc = "answered" =>
    time < lookups'[k].answer.readAt + SnapshotTTL + ResolveTimeout

\* A failed refresh, or one in progress elsewhere, never takes the domains away
\* from a lookup that found some: it answers with what it had.
KeepsStep ==
  \A k \in LookupsAt({"cas"}) \cup Refreshing :
    lookups[k].answer # NoSnap => lookups'[k].answer # NoSnap

\* At most one request reads the table at a time: an expired TTL does not send
\* every request to PostgreSQL.
OneRefresh == \A j, k \in Refreshing : j = k

\* The snapshot never goes back to an older reading of the table.
OlderStep == snap # NoSnap => snap' # NoSnap /\ snap.readAt <= snap'.readAt

\* A link of a custom domain is served on that domain's host and on no other,
\* however old the snapshot of the request is.
ServedAtHome ==
  \A k \in Lookups :
    LET c == lookups[k]
    IN  c.pc = "done" /\ c.kind = "resolve" /\ linkDomain[c.link] \in Domains
          => c.host = NameOf[linkDomain[c.link]]

\* Every link's domain is registered, whatever stale snapshot it was created by.
NoOrphanLink == \A l \in Links : linkDomain[l] \in Domains => linkDomain[l] \in domains

\* A short URL computed from a table read after the link was stored opens: its
\* host is the one that resolves in the link's domain.
ShortURLOpens ==
  \A k \in Lookups :
    LET c == lookups[k]
    IN  c.pc = "done" /\ c.kind = "url" /\ c.answer # NoSnap =>
          (c.answer.readAt > createdAt[c.link] => c.result = NameOf[linkDomain[c.link]])

\* What holds of the table, the snapshot and the lookups in every state.
SnapInv == SnapTypeOK /\ OneRefresh /\ ServedAtHome /\ NoOrphanLink /\ ShortURLOpens

\* What no step of a refresh or a lookup may do: answer at once with domains that
\* are too old, forget the ones it had, or store an older reading over a newer one.
SnapSteps == [][AtOnceStep /\ KeepsStep /\ OlderStep]_snapVars

=============================================================================
