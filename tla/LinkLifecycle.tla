---------------------------- MODULE LinkLifecycle ----------------------------
(***************************************************************************)
(* The rows of PostgreSQL's table links under concurrent requests: create, *)
(* PATCH, DELETE and claim, and the worker's expiry sweep.  A request      *)
(* reads its link in one statement, checks what it read, and writes in     *)
(* another that finds the row by its short code; the sweep is one          *)
(* statement whose sub-select and whose update see the table at different  *)
(* moments, because READ COMMITTED checks only the short code again when   *)
(* a row has changed in between.                                           *)
(*                                                                         *)
(* A row is its status, owner, whether it has the hash of a manage key,    *)
(* and its expiry; a PATCH of other columns is a write that changes none   *)
(* of these.  Every code has at most one manage key, so an actor presents  *)
(* the right one or none.  Evictions are in LinkCache, counts in           *)
(* CountSync.                                                              *)
(***************************************************************************)
EXTENDS Naturals, FiniteSets

CONSTANTS
  Codes,        \* short codes
  Users,        \* accounts
  None,         \* no account, no owner, no code yet
  Workers,      \* worker processes that sweep
  MaxRequests,  \* bound: requests that write
  MaxAttempts,  \* shortcode.MaxAttempts
  ExpireBatch,  \* rows one sweep disables at most
  Horizon,      \* bound: the last instant
  Deadlines     \* the instants that requests ask for as expiry

ASSUME NoneAssumption   == None \notin Users \cup Codes
ASSUME LimitsAssumption == MaxAttempts \in Nat \ {0} /\ ExpireBatch \in Nat \ {0}
ASSUME BoundsAssumption == MaxRequests \in Nat /\ Horizon \in Nat /\ Deadlines \subseteq 0..Horizon
ASSUME NamesAssumption  == Workers \cap (1..MaxRequests) = {}

Requests == 1..MaxRequests

\* An expiry of NULL comes after every instant; a field a PATCH leaves
\* alone is Keep.
Never    == Horizon + 1
Keep     == Horizon + 2
Expiries == Deadlines \cup {Never}

Statuses == {"none", "active", "disabled", "deleted"}
Row      == [status : Statuses, owner : Users \cup {None}, key : BOOLEAN, expiry : Expiries]
Actors   == [user : Users \cup {None}, key : BOOLEAN]
Patches  == [status : {"keep", "active", "disabled"}, expiry : Expiries \cup {Keep}]

NoRow   == [status |-> "none", owner |-> None, key |-> FALSE, expiry |-> Never]
NoPatch == [status |-> "keep", expiry |-> Keep]

VARIABLES
  row,      \* the rows
  req,      \* each request
  picked,   \* what each worker's sub-select found, its update to come
  now,
  stale     \* history: who read the row of a code before its last change

vars == <<row, req, picked, now, stale>>

\* pc is the next statement; said is the answer once pc is "done".
Request == [pc : {"idle", "insert", "update", "delete", "claim", "reread", "done"},
            said : {"", "created", "updated", "deleted", "claimed", "conflict", "refused", "unavailable"},
            code : Codes \cup {None}, user : Users \cup {None},
            patch : Patches, at : 0..Horizon, tries : 0..(MaxAttempts - 1)]

Idle == [pc |-> "idle", said |-> "", code |-> None, user |-> None,
         patch |-> NoPatch, at |-> 0, tries |-> 0]

Init ==
  /\ row    = [c \in Codes |-> NoRow]
  /\ req    = [r \in Requests |-> Idle]
  /\ picked = [w \in Workers |-> {}]
  /\ now    = 0
  /\ stale  = [c \in Codes |-> {}]

(***************************************************************************)
(* Helpers.                                                                *)
(***************************************************************************)

\* Requests are numbered as they arrive.
Arrives(r) == req[r].pc = "idle" /\ \A q \in 1..(r - 1) : req[q].pc # "idle"

Become(r, new) == req' = [req EXCEPT ![r] = new]

\* The final answer; of a created or claimed link it names code and owner.
Say(word) == [Idle EXCEPT !.pc = "done", !.said = word]

Grant(word, c, u) == [Say(word) EXCEPT !.code = c, !.user = u]

Refuse(r) == Become(r, Say("refused"))

\* Who has read the row of c and will write it.
Readers(c) ==
  {r \in Requests : req[r].code = c /\ req[r].pc \in {"update", "delete", "claim"}}
    \cup {w \in Workers : c \in picked[w]}

\* a writes the rows of the codes in S.
Overtake(a, S) ==
  stale' = [c \in Codes |-> IF c \in S THEN (stale[c] \cup Readers(c)) \ {a} ELSE stale[c]]

Write(r, c, l) == row' = [row EXCEPT ![c] = l] /\ Overtake(r, {c})

Expired(l) == l.expiry < now

\* Authorize.
Authorized(l, a) ==
  \/ l.owner # None /\ l.owner = a.user
  \/ l.key /\ a.key

\* What loadAuthorized and claim ask of the link they read.
Found_Deleted(l) == l.status # "none"

Found(l) == l.status \notin {"none", "deleted"}

(***************************************************************************)
(* Create.                                                                 *)
(***************************************************************************)

\* The expiry is checked now and stored later.  A custom code is known, a
\* generated one is drawn at every attempt.
BeginCreate(r) ==
  /\ Arrives(r)
  /\ \E c \in Codes \cup {None}, u \in Users \cup {None}, e \in Expiries :
       /\ e > now
       /\ Become(r, [Idle EXCEPT !.pc = "insert", !.code = c, !.user = u, !.patch = [NoPatch EXCEPT !.expiry = e]])
  /\ UNCHANGED <<row, picked, now, stale>>

NewRow(q) == [status |-> "active", owner |-> q.user, key |-> q.user = None, expiry |-> q.patch.expiry]

\* links_short_code_key: every row counts, soft-deleted ones too.
InsertRow(r, c) ==
  /\ row[c].status = "none"
  /\ Write(r, c, NewRow(req[r]))
  /\ Become(r, Grant("created", c, req[r].user))

\* A conflict is final for a custom code and another attempt for a
\* generated one.
Collide(r, c) ==
  /\ row[c].status # "none"
  /\ Become(r, IF req[r].code = c THEN Say("conflict")
               ELSE IF req[r].tries + 1 = MaxAttempts THEN Say("unavailable")
               ELSE [req[r] EXCEPT !.tries = @ + 1])
  /\ UNCHANGED <<row, stale>>

Insert(r) ==
  /\ req[r].pc = "insert"
  /\ \E c \in IF req[r].code = None THEN Codes ELSE {req[r].code} : InsertRow(r, c) \/ Collide(r, c)
  /\ UNCHANGED <<picked, now>>

(***************************************************************************)
(* PATCH and DELETE.                                                       *)
(***************************************************************************)

Coalesce(new, null, old) == IF new = null THEN old ELSE new

Patched(l, p) == [l EXCEPT !.status = Coalesce(p.status, "keep", @),
                           !.expiry = Coalesce(p.expiry, Keep, @)]

PatchAllowed_NewExpiryOnly(l, p) == p.expiry > now

\* buildPatch and normalizeExpiry: a new expiry is in the future, and what
\* is to be active must not be past the expiry it will then have.
PatchAllowed(l, p) ==
  /\ p.expiry > now
  /\ p.status = "active" => Patched(l, p).expiry > now

BeginUpdate(r) ==
  /\ Arrives(r)
  /\ \E c \in Codes, a \in Actors, p \in Patches :
       IF Found(row[c]) /\ Authorized(row[c], a) /\ PatchAllowed(row[c], p)
       THEN Become(r, [Idle EXCEPT !.pc = "update", !.code = c, !.user = a.user, !.patch = p, !.at = now])
       ELSE Refuse(r)
  /\ UNCHANGED <<row, picked, now, stale>>

\* WHERE short_code = $1, whatever became of the row since it was read.
Update(r) ==
  /\ req[r].pc = "update"
  /\ LET c == req[r].code IN Write(r, c, Patched(row[c], req[r].patch))
  /\ Become(r, Say("updated"))
  /\ UNCHANGED <<picked, now>>

BeginDelete(r) ==
  /\ Arrives(r)
  /\ \E c \in Codes, a \in Actors :
       IF Found(row[c]) /\ Authorized(row[c], a)
       THEN Become(r, [Idle EXCEPT !.pc = "delete", !.code = c, !.user = a.user])
       ELSE Refuse(r)
  /\ UNCHANGED <<row, picked, now, stale>>

\* The row is read once more before, for its domain only.
SoftDelete(r) ==
  /\ req[r].pc = "delete"
  /\ LET c == req[r].code IN Write(r, c, [row[c] EXCEPT !.status = "deleted"])
  /\ Become(r, Say("deleted"))
  /\ UNCHANGED <<picked, now>>

(***************************************************************************)
(* Claim.                                                                  *)
(***************************************************************************)

\* Only the manage key counts here.
BeginClaim(r) ==
  /\ Arrives(r)
  /\ \E c \in Codes, u \in Users, k \in BOOLEAN :
       IF Found(row[c]) /\ row[c].owner = None /\ Authorized(row[c], [user |-> None, key |-> k])
       THEN Become(r, [Idle EXCEPT !.pc = "claim", !.code = c, !.user = u])
       ELSE Refuse(r)
  /\ UNCHANGED <<row, picked, now, stale>>

Claimable_NoOwnerCheck(l) == l.status # "deleted"

Claimable(l) == l.owner = None /\ l.status # "deleted"

Owned_KeepsKey(l, u) == [l EXCEPT !.owner = u]

Owned(l, u) == [l EXCEPT !.owner = u, !.key = FALSE]

Claim(r) ==
  /\ req[r].pc = "claim"
  /\ LET c == req[r].code IN
       IF Claimable(row[c])
       THEN /\ Write(r, c, Owned(row[c], req[r].user))
            /\ Become(r, Grant("claimed", c, req[r].user))
       ELSE /\ Become(r, [req[r] EXCEPT !.pc = "reread"])
            /\ UNCHANGED <<row, stale>>
  /\ UNCHANGED <<picked, now>>

\* No row was updated: another read tells the answer.
Reread(r) ==
  /\ req[r].pc = "reread"
  /\ Become(r, Say(IF row[req[r].code].status = "deleted" THEN "refused" ELSE "conflict"))
  /\ UNCHANGED <<row, picked, now, stale>>

(***************************************************************************)
(* The expiry sweep.                                                       *)
(***************************************************************************)

Due_NotDeleted(c) == row[c].status \in {"active", "disabled"} /\ Expired(row[c])

Due(c) == row[c].status = "active" /\ Expired(row[c])

\* ORDER BY expires_at LIMIT: the earliest of those that are due.
SubSelect(P) ==
  LET due == {c \in Codes : Due(c)} IN
  /\ P \subseteq due
  /\ \A c \in P, d \in due \ P : row[c].expiry <= row[d].expiry
  /\ Cardinality(P) = IF Cardinality(due) < ExpireBatch THEN Cardinality(due) ELSE ExpireBatch

Select(w) ==
  /\ picked[w] = {}
  /\ \E P \in SUBSET Codes \ {{}} :
       /\ SubSelect(P)
       /\ picked' = [picked EXCEPT ![w] = P]
  /\ stale' = [c \in Codes |-> stale[c] \ {w}]
  /\ UNCHANGED <<row, req, now>>

Disable(w) ==
  /\ picked[w] # {}
  /\ row' = [c \in Codes |-> IF c \in picked[w] THEN [row[c] EXCEPT !.status = "disabled"] ELSE row[c]]
  /\ Overtake(w, picked[w])
  /\ picked' = [picked EXCEPT ![w] = {}]
  /\ UNCHANGED <<req, now>>

(***************************************************************************)
(* The specification.                                                      *)
(***************************************************************************)

Tick == now < Horizon /\ now' = now + 1 /\ UNCHANGED <<row, req, picked, stale>>

RequestStep(r) ==
  \/ BeginCreate(r) \/ Insert(r)
  \/ BeginUpdate(r) \/ Update(r)
  \/ BeginDelete(r) \/ SoftDelete(r)
  \/ BeginClaim(r)  \/ Claim(r) \/ Reread(r)

Sweep(w) == Select(w) \/ Disable(w)

Next ==
  \/ \E r \in Requests : RequestStep(r)
  \/ \E w \in Workers  : Sweep(w)
  \/ Tick

Spec == Init /\ [][Next]_vars

\* The sweep ticks for ever; a client may vanish at any step.
FairSpec == Spec /\ \A w \in Workers : WF_vars(Sweep(w))

(***************************************************************************)
(* Properties.                                                             *)
(***************************************************************************)

\* Every variable stays in its domain; in particular a generated code is
\* drawn MaxAttempts times at most.
TypeOK ==
  /\ row    \in [Codes -> Row]
  /\ req    \in [Requests -> Request]
  /\ picked \in [Workers -> SUBSET Codes]
  /\ now    \in 0..Horizon
  /\ stale  \in [Codes -> SUBSET (Requests \cup Workers)]

\* Who was told that a link is theirs, by creating it under an account or
\* by claiming it, owns it from then on: nobody else was told the same, and
\* no later create, claim, edit, deletion or expiry takes it away.
OwnershipIsFinal ==
  \A r \in Requests :
    \/ req[r].said = "claimed"
    \/ req[r].said = "created" /\ req[r].user # None
    => row[req[r].code].owner = req[r].user

\* r edits or deletes the link c.
Writes(r, c) == req[r].code = c /\ (Update(r) \/ SoftDelete(r))

ByOwner ==
  \A r \in Requests, c \in Codes :
    Writes(r, c) /\ row[c].owner # None => req[r].user = row[c].owner \/ r \in stale[c]

\* A link with an owner is edited and deleted by its owner alone.  The
\* manage key dies with the claim: only a request that had passed its
\* checks before the row last changed can still act on it.
OwnerOnly == [][ByOwner]_vars

RevivedByOvertaken ==
  \A c \in Codes :
    row[c].status = "deleted" /\ row'[c].status # "deleted" =>
      \/ \E r \in stale[c] \cap Requests : Update(r) /\ req[r].code = c
      \/ \E w \in stale[c] \cap Workers  : Disable(w) /\ c \in picked[w]

\* A deleted link comes back only by a write that was decided before the
\* deletion: by a PATCH that passed its checks, or by a sweep that had
\* picked the row.  Once these are through it is deleted for good.
DeletedForGood == [][RevivedByOvertaken]_vars

EnabledUnexpired ==
  \A r \in Requests :
    LET c == req[r].code IN
    Update(r) /\ req[r].patch.status = "active" /\ r \notin stale[c] => row'[c].expiry > req[r].at

\* A PATCH that enables a link does not enable one that had expired when it
\* was checked, unless the row changed after the check.
EnabledIsLive == [][EnabledUnexpired]_vars

\* The sweep reaches every expired link, however many there are and however
\* few it takes at a time.
ExpiredGetsDisabled ==
  \A c \in Codes : row[c].status = "active" /\ Expired(row[c])
                     ~> ~(row[c].status = "active" /\ Expired(row[c]))

\* The comment on ExpireDue: it disables links that are expired and still
\* active.
ExpiresOnlyDue ==
  [][\A w \in Workers : Disable(w) => \A c \in picked[w] : Due(c)]_vars

(***************************************************************************)
(* The inductive invariant behind the safety properties.                   *)
(***************************************************************************)

\* Without a row there is no owner; an owned link has no manage key.
RowInv ==
  \A c \in Codes :
    /\ row[c].status = "none" => row[c].owner = None
    /\ row[c].key => row[c].owner = None

\* What a request knows of itself at each of its statements.
ReqInv ==
  \A r \in Requests :
    /\ req[r].pc \in {"update", "delete", "claim", "reread"} =>
         req[r].code \in Codes /\ row[req[r].code].status # "none"
    /\ req[r].pc = "insert" => req[r].patch.expiry # Keep
    /\ req[r].pc = "claim" => req[r].user \in Users
    /\ req[r].said \in {"created", "claimed"} => req[r].pc = "done" /\ req[r].code \in Codes
    /\ req[r].said = "claimed" => req[r].user # None

\* What a request has checked holds as long as the row does not change.
FreshInv ==
  \A r \in Requests :
    LET c == req[r].code IN
    req[r].pc \in {"update", "delete"} /\ r \notin stale[c] =>
      /\ row[c].status # "deleted"
      /\ row[c].owner # None => req[r].user = row[c].owner
      /\ req[r].pc = "update" /\ req[r].patch.status = "active"
           => Patched(row[c], req[r].patch).expiry > req[r].at

PickInv ==
  \A w \in Workers : \A c \in picked[w] : w \notin stale[c] => row[c].status # "deleted"

\* All of it, for every reachable state: what the statements that write may
\* still rely on.
IInv == TypeOK /\ RowInv /\ ReqInv /\ FreshInv /\ PickInv /\ OwnershipIsFinal

=============================================================================
