------------------------- MODULE LinkLifecycleProofs -------------------------
(* Theorems about LinkLifecycle, for every value of its constants. *)
EXTENDS LinkLifecycle, TLAPS

(***************************************************************************)
(* The pieces requests are made of.                                        *)
(***************************************************************************)

LEMMA PieceTypes ==
  /\ Never \in Nat /\ Keep \in Nat /\ Keep > Never /\ Never > Horizon
  /\ NoRow \in Row /\ NoPatch \in Patches /\ Idle \in Request
  /\ 0 \in 0..Horizon /\ 0 \in 0..(MaxAttempts - 1)
BY BoundsAssumption, LimitsAssumption
DEF Never, Keep, NoRow, Row, Statuses, Expiries, NoPatch, Patches, Idle, Request

\* An answer without a grant.
LEMMA SayType ==
  ASSUME NEW word \in {"updated", "deleted", "conflict", "refused", "unavailable"}
  PROVE  /\ Say(word) \in Request
         /\ Say(word).pc = "done"
         /\ Say(word).said = word
BY PieceTypes DEF Say, Idle, Request

LEMMA GrantType ==
  ASSUME NEW word \in {"created", "claimed"}, NEW c \in Codes, NEW u \in Users \cup {None}
  PROVE  /\ Grant(word, c, u) \in Request
         /\ Grant(word, c, u).pc = "done"
         /\ Grant(word, c, u).said = word
         /\ Grant(word, c, u).code = c
         /\ Grant(word, c, u).user = u
BY PieceTypes DEF Grant, Say, Idle, Request

\* A PATCH yields a row; it touches neither owner nor key, and makes no row
\* "none" or "deleted".
LEMMA PatchedType ==
  ASSUME NEW l \in Row, NEW p \in Patches
  PROVE  /\ Patched(l, p) \in Row
         /\ Patched(l, p).owner = l.owner
         /\ Patched(l, p).key = l.key
         /\ Patched(l, p).status \in {l.status, "active", "disabled"}
BY PieceTypes DEF Patched, Coalesce, Row, Patches, Statuses, Expiries

(***************************************************************************)
(* Steps that write no row.                                                *)
(***************************************************************************)

\* A request moves on.
LEMMA RequestMoves ==
  ASSUME IInv, NEW r \in Requests, NEW new \in Request, Become(r, new),
         UNCHANGED <<row, picked, now, stale>>,
         new.pc # "idle", new.said \notin {"created", "claimed"},
         new.pc \in {"update", "delete", "claim", "reread"} =>
           new.code \in Codes /\ row[new.code].status # "none",
         new.pc = "insert" => new.patch.expiry # Keep,
         new.pc = "claim" => new.user \in Users,
         new.pc \in {"update", "delete"} =>
           LET c == new.code IN
           /\ row[c].status # "deleted"
           /\ row[c].owner # None => new.user = row[c].owner
           /\ new.pc = "update" /\ new.patch.status = "active"
                => Patched(row[c], new.patch).expiry > new.at
  PROVE  IInv'
<1>1. req' \in [Requests -> Request] /\ req'[r] = new
      /\ \A q \in Requests : q # r => req'[q] = req[q]
  BY DEF Become, IInv, TypeOK
<1>2. TypeOK' /\ RowInv' /\ PickInv'
  BY <1>1 DEF IInv, TypeOK, RowInv, PickInv
<1>3. ReqInv'
  BY <1>1 DEF IInv, ReqInv
<1>4. FreshInv'
  <2> SUFFICES ASSUME NEW q \in Requests, req'[q].pc \in {"update", "delete"}, q \notin stale[req'[q].code]
               PROVE  LET c == req'[q].code IN
                      /\ row[c].status # "deleted"
                      /\ row[c].owner # None => req'[q].user = row[c].owner
                      /\ req'[q].pc = "update" /\ req'[q].patch.status = "active"
                           => Patched(row[c], req'[q].patch).expiry > req'[q].at
    BY DEF FreshInv
  <2>1. CASE q = r
    BY <2>1, <1>1
  <2>2. CASE q # r
    BY <2>2, <1>1 DEF IInv, FreshInv
  <2> QED
    BY <2>1, <2>2
<1>5. OwnershipIsFinal'
  BY <1>1 DEF IInv, OwnershipIsFinal
<1> QED
  BY <1>2, <1>3, <1>4, <1>5 DEF IInv

LEMMA RequestRefused ==
  ASSUME IInv, NEW r \in Requests, Refuse(r), UNCHANGED <<row, picked, now, stale>>
  PROVE  IInv'
<1>1. Become(r, Say("refused"))
  BY DEF Refuse
<1> QED
  BY <1>1, SayType, RequestMoves

(***************************************************************************)
(* Steps of a request that write the row of one code.                      *)
(***************************************************************************)

\* Whoever has read the row is overtaken, except for its writer, who has
\* nothing left to do.
LEMMA RequestWrites ==
  ASSUME IInv, NEW r \in Requests, NEW c \in Codes, NEW l \in Row, NEW new \in Request,
         Write(r, c, l), Become(r, new), UNCHANGED <<picked, now>>,
         new.pc = "done",
         new.said = "created" => new.code = c /\ new.user = l.owner,
         new.said = "claimed" => new.code = c /\ new.user = l.owner /\ new.user # None,
         l.status # "none",
         l.key => l.owner = None,
         row[c].owner # None => l.owner = row[c].owner
  PROVE  IInv'
<1>1. /\ req' \in [Requests -> Request] /\ req'[r] = new
      /\ \A q \in Requests : q # r => req'[q] = req[q]
      /\ row' \in [Codes -> Row] /\ row'[c] = l
      /\ \A d \in Codes : d # c => row'[d] = row[d]
  BY DEF Become, Write, IInv, TypeOK
<1>2. /\ stale' = [d \in Codes |-> IF d \in {c} THEN (stale[d] \cup Readers(d)) \ {r} ELSE stale[d]]
      /\ Readers(c) \subseteq Requests \cup Workers
  BY DEF Write, Overtake, Readers
<1>3. TypeOK'
  BY <1>1, <1>2 DEF IInv, TypeOK
<1>4. RowInv'
  BY <1>1 DEF IInv, RowInv
<1>5. ReqInv'
  BY <1>1 DEF IInv, ReqInv
<1>6. FreshInv'
  <2> SUFFICES ASSUME NEW q \in Requests, req'[q].pc \in {"update", "delete"}, q \notin stale'[req'[q].code]
               PROVE  LET d == req'[q].code IN
                      /\ row'[d].status # "deleted"
                      /\ row'[d].owner # None => req'[q].user = row'[d].owner
                      /\ req'[q].pc = "update" /\ req'[q].patch.status = "active"
                           => Patched(row'[d], req'[q].patch).expiry > req'[q].at
    BY DEF FreshInv
  <2>1. q # r /\ req'[q] = req[q]
    BY <1>1
  <2>2. req[q].code \in Codes
    BY <2>1 DEF IInv, ReqInv
  <2>3. req[q].code # c
    <3> SUFFICES ASSUME req[q].code = c PROVE FALSE
      OBVIOUS
    <3>1. q \in Readers(c)
      BY <2>1 DEF Readers
    <3> QED
      BY <3>1, <2>1, <1>2
  <2> QED
    BY <2>1, <2>2, <2>3, <1>1, <1>2 DEF IInv, FreshInv
<1>7. PickInv'
  <2> SUFFICES ASSUME NEW w \in Workers, NEW d \in picked[w], w \notin stale'[d]
               PROVE  row'[d].status # "deleted"
    BY DEF PickInv
  <2>1. d \in Codes
    BY DEF IInv, TypeOK
  <2>2. w # r
    BY NamesAssumption DEF Requests
  <2>3. d # c
    BY <2>1, <2>2, <1>2 DEF Readers
  <2> QED
    BY <2>1, <2>3, <1>1, <1>2 DEF IInv, PickInv
<1>8. OwnershipIsFinal'
  <2> SUFFICES ASSUME NEW q \in Requests,
                      \/ req'[q].said = "claimed"
                      \/ req'[q].said = "created" /\ req'[q].user # None
               PROVE  row'[req'[q].code].owner = req'[q].user
    BY DEF OwnershipIsFinal
  <2>1. CASE q = r
    BY <2>1, <1>1
  <2>2. CASE q # r
    <3>1. req'[q] = req[q] /\ req[q].code \in Codes
      BY <2>2, <1>1 DEF IInv, ReqInv
    <3>2. row[req[q].code].owner = req[q].user
      BY <3>1 DEF IInv, OwnershipIsFinal
    <3>3. CASE req[q].code # c
      BY <3>1, <3>2, <3>3, <1>1
    <3>4. CASE req[q].code = c /\ req[q].user # None
      BY <3>1, <3>2, <3>4, <1>1
    <3>5. CASE req[q].code = c /\ req[q].user = None
      BY <3>1, <3>5 DEF IInv, ReqInv
    <3> QED
      BY <3>3, <3>4, <3>5
  <2> QED
    BY <2>1, <2>2
<1> QED
  BY <1>3, <1>4, <1>5, <1>6, <1>7, <1>8 DEF IInv

(***************************************************************************)
(* Each action of a request.                                               *)
(***************************************************************************)

LEMMA BeginCreateStep ==
  ASSUME IInv, NEW r \in Requests, BeginCreate(r)
  PROVE  IInv'
<1>1. PICK c \in Codes \cup {None}, u \in Users \cup {None}, e \in Expiries :
        Become(r, [Idle EXCEPT !.pc = "insert", !.code = c, !.user = u, !.patch = [NoPatch EXCEPT !.expiry = e]])
  BY DEF BeginCreate
<1> DEFINE new == [Idle EXCEPT !.pc = "insert", !.code = c, !.user = u, !.patch = [NoPatch EXCEPT !.expiry = e]]
<1>2. new \in Request /\ new.pc = "insert" /\ new.said = "" /\ new.patch.expiry # Keep
  <2>1. [NoPatch EXCEPT !.expiry = e] \in Patches /\ [NoPatch EXCEPT !.expiry = e].expiry = e
    BY DEF NoPatch, Patches
  <2>2. e # Keep
    BY PieceTypes, BoundsAssumption DEF Expiries
  <2> QED
    BY <2>1, <2>2, PieceTypes DEF Idle, Request
<1>3. UNCHANGED <<row, picked, now, stale>>
  BY DEF BeginCreate
<1> HIDE DEF new
<1> QED
  BY <1>1, <1>2, <1>3, RequestMoves DEF new

LEMMA InsertStep ==
  ASSUME IInv, NEW r \in Requests, Insert(r)
  PROVE  IInv'
<1>1. PICK c \in Codes : InsertRow(r, c) \/ Collide(r, c)
  BY DEF Insert, IInv, TypeOK, Request
<1>2. UNCHANGED <<picked, now>>
  BY DEF Insert
<1>3. req[r] \in Request /\ req[r].pc = "insert" /\ req[r].patch.expiry # Keep
  BY DEF Insert, IInv, TypeOK, ReqInv
<1>4. CASE InsertRow(r, c)
  <2>1. /\ NewRow(req[r]) \in Row
        /\ NewRow(req[r]).owner = req[r].user
        /\ NewRow(req[r]).status = "active"
        /\ NewRow(req[r]).key => req[r].user = None
    BY <1>3 DEF NewRow, Row, Statuses, Request, Patches
  <2>2. row[c].owner = None
    BY <1>4 DEF InsertRow, IInv, RowInv
  <2>3. req[r].user \in Users \cup {None}
    BY <1>3 DEF Request
  <2>4. Write(r, c, NewRow(req[r])) /\ Become(r, Grant("created", c, req[r].user))
    BY <1>4 DEF InsertRow
  <2> QED
    BY <1>2, <2>1, <2>2, <2>3, <2>4, GrantType, RequestWrites
<1>5. CASE Collide(r, c)
  <2>1. CASE Become(r, Say("conflict"))
    BY <1>2, <1>5, <2>1, SayType, RequestMoves DEF Collide
  <2>2. CASE Become(r, Say("unavailable"))
    BY <1>2, <1>5, <2>2, SayType, RequestMoves DEF Collide
  <2>3. CASE Become(r, [req[r] EXCEPT !.tries = @ + 1]) /\ req[r].tries + 1 # MaxAttempts
    <3> DEFINE n == req[r].tries
    <3>0. n + 1 \in 0..(MaxAttempts - 1)
      <4>1. n \in 0..(MaxAttempts - 1) /\ MaxAttempts \in Nat /\ n + 1 # MaxAttempts
        BY <1>3, <2>3, LimitsAssumption DEF Request
      <4> HIDE DEF n
      <4> QED
        BY <4>1
    <3>1. /\ [req[r] EXCEPT !.tries = @ + 1] \in Request
          /\ [req[r] EXCEPT !.tries = @ + 1].pc = "insert"
          /\ [req[r] EXCEPT !.tries = @ + 1].said = req[r].said
          /\ [req[r] EXCEPT !.tries = @ + 1].patch = req[r].patch
      BY <1>3, <3>0 DEF Request
    <3>2. req[r].said \notin {"created", "claimed"}
      BY <1>3 DEF IInv, ReqInv
    <3> QED
      BY <1>2, <1>3, <1>5, <2>3, <3>1, <3>2, RequestMoves DEF Collide
  <2> QED
    BY <1>5, <2>1, <2>2, <2>3 DEF Collide
<1> QED
  BY <1>1, <1>4, <1>5

LEMMA BeginUpdateStep ==
  ASSUME IInv, NEW r \in Requests, BeginUpdate(r)
  PROVE  IInv'
<1>1. UNCHANGED <<row, picked, now, stale>>
  BY DEF BeginUpdate
<1>2. CASE Refuse(r)
  BY <1>1, <1>2, RequestRefused
<1>3. ASSUME NEW c \in Codes, NEW a \in Actors, NEW p \in Patches,
             Found(row[c]), Authorized(row[c], a), PatchAllowed(row[c], p),
             Become(r, [Idle EXCEPT !.pc = "update", !.code = c, !.user = a.user, !.patch = p, !.at = now])
      PROVE  IInv'
  <2> DEFINE new == [Idle EXCEPT !.pc = "update", !.code = c, !.user = a.user, !.patch = p, !.at = now]
  <2>1. /\ new \in Request /\ new.pc = "update" /\ new.said = ""
        /\ new.code = c /\ new.user = a.user /\ new.patch = p /\ new.at = now
    BY PieceTypes DEF IInv, TypeOK, Actors, Idle, Request
  <2>2. /\ row[c].status \notin {"none", "deleted"}
        /\ row[c].owner # None => a.user = row[c].owner
        /\ p.status = "active" => Patched(row[c], p).expiry > now
    BY <1>3 DEF Found, Authorized, PatchAllowed, IInv, RowInv
  <2> HIDE DEF new
  <2> QED
    BY <1>1, <1>3, <2>1, <2>2, RequestMoves DEF new
<1> QED
  BY <1>2, <1>3 DEF BeginUpdate

LEMMA UpdateStep ==
  ASSUME IInv, NEW r \in Requests, Update(r)
  PROVE  IInv'
<1> DEFINE c == req[r].code
           l == Patched(row[c], req[r].patch)
<1>1. c \in Codes /\ row[c] \in Row /\ row[c].status # "none" /\ req[r].patch \in Patches
  BY DEF Update, IInv, TypeOK, ReqInv, Request
<1>2. /\ l \in Row /\ l.owner = row[c].owner /\ l.key = row[c].key
      /\ l.status \in {row[c].status, "active", "disabled"}
  BY <1>1, PatchedType
<1>3. l.status # "none" /\ (l.key => l.owner = None)
  BY <1>1, <1>2 DEF IInv, RowInv
<1>4. Write(r, c, l) /\ Become(r, Say("updated")) /\ UNCHANGED <<picked, now>>
  BY DEF Update
<1> HIDE DEF c, l
<1> QED
  BY <1>1, <1>2, <1>3, <1>4, SayType, RequestWrites

LEMMA BeginDeleteStep ==
  ASSUME IInv, NEW r \in Requests, BeginDelete(r)
  PROVE  IInv'
<1>1. UNCHANGED <<row, picked, now, stale>>
  BY DEF BeginDelete
<1>2. CASE Refuse(r)
  BY <1>1, <1>2, RequestRefused
<1>3. ASSUME NEW c \in Codes, NEW a \in Actors, Found(row[c]), Authorized(row[c], a),
             Become(r, [Idle EXCEPT !.pc = "delete", !.code = c, !.user = a.user])
      PROVE  IInv'
  <2> DEFINE new == [Idle EXCEPT !.pc = "delete", !.code = c, !.user = a.user]
  <2>1. /\ new \in Request /\ new.pc = "delete" /\ new.said = ""
        /\ new.code = c /\ new.user = a.user
    BY PieceTypes DEF Actors, Idle, Request
  <2>2. /\ row[c].status \notin {"none", "deleted"}
        /\ row[c].owner # None => a.user = row[c].owner
    BY <1>3 DEF Found, Authorized, IInv, RowInv
  <2> HIDE DEF new
  <2> QED
    BY <1>1, <1>3, <2>1, <2>2, RequestMoves DEF new
<1> QED
  BY <1>2, <1>3 DEF BeginDelete

LEMMA SoftDeleteStep ==
  ASSUME IInv, NEW r \in Requests, SoftDelete(r)
  PROVE  IInv'
<1> DEFINE c == req[r].code
           l == [row[c] EXCEPT !.status = "deleted"]
<1>1. c \in Codes /\ row[c] \in Row
  BY DEF SoftDelete, IInv, TypeOK, ReqInv
<1>2. l \in Row /\ l.owner = row[c].owner /\ l.key = row[c].key /\ l.status = "deleted"
  BY <1>1 DEF Row, Statuses
<1>3. l.key => l.owner = None
  BY <1>1, <1>2 DEF IInv, RowInv
<1>4. Write(r, c, l) /\ Become(r, Say("deleted")) /\ UNCHANGED <<picked, now>>
  BY DEF SoftDelete
<1> HIDE DEF c, l
<1> QED
  BY <1>1, <1>2, <1>3, <1>4, SayType, RequestWrites

LEMMA BeginClaimStep ==
  ASSUME IInv, NEW r \in Requests, BeginClaim(r)
  PROVE  IInv'
<1>1. UNCHANGED <<row, picked, now, stale>>
  BY DEF BeginClaim
<1>2. CASE Refuse(r)
  BY <1>1, <1>2, RequestRefused
<1>3. ASSUME NEW c \in Codes, NEW u \in Users, Found(row[c]),
             Become(r, [Idle EXCEPT !.pc = "claim", !.code = c, !.user = u])
      PROVE  IInv'
  <2> DEFINE new == [Idle EXCEPT !.pc = "claim", !.code = c, !.user = u]
  <2>1. /\ new \in Request /\ new.pc = "claim" /\ new.said = ""
        /\ new.code = c /\ new.user = u
    BY PieceTypes DEF Idle, Request
  <2> HIDE DEF new
  <2> QED
    BY <1>1, <1>3, <2>1, RequestMoves DEF new, Found
<1> QED
  BY <1>2, <1>3 DEF BeginClaim

LEMMA ClaimStep ==
  ASSUME IInv, NEW r \in Requests, Claim(r)
  PROVE  IInv'
<1> DEFINE c == req[r].code
           u == req[r].user
           l == Owned(row[c], u)
<1>1. c \in Codes /\ row[c] \in Row /\ row[c].status # "none" /\ u \in Users /\ u # None /\ req[r] \in Request
  BY NoneAssumption DEF Claim, IInv, TypeOK, ReqInv
<1>2. UNCHANGED <<picked, now>>
  BY DEF Claim
<1>3. CASE Claimable(row[c])
  <2>1. l \in Row /\ l.owner = u /\ l.key = FALSE /\ l.status = row[c].status
    BY <1>1 DEF Owned, Row
  <2>2. Write(r, c, l) /\ Become(r, Grant("claimed", c, u))
    BY <1>3 DEF Claim
  <2>3. row[c].owner = None
    BY <1>3 DEF Claimable
  <2> HIDE DEF c, u, l
  <2> QED
    BY <1>1, <1>2, <2>1, <2>2, <2>3, GrantType, RequestWrites
<1>4. CASE ~Claimable(row[c])
  <2>1. Become(r, [req[r] EXCEPT !.pc = "reread"]) /\ UNCHANGED <<row, stale>>
    BY <1>4 DEF Claim
  <2>2. /\ [req[r] EXCEPT !.pc = "reread"] \in Request
        /\ [req[r] EXCEPT !.pc = "reread"].pc = "reread"
        /\ [req[r] EXCEPT !.pc = "reread"].said = req[r].said
        /\ [req[r] EXCEPT !.pc = "reread"].code = c
    BY <1>1 DEF Request
  <2>3. req[r].said \notin {"created", "claimed"}
    BY DEF Claim, IInv, ReqInv
  <2> HIDE DEF c, u, l
  <2> QED
    BY <1>1, <1>2, <2>1, <2>2, <2>3, RequestMoves
<1> QED
  BY <1>3, <1>4

LEMMA RereadStep ==
  ASSUME IInv, NEW r \in Requests, Reread(r)
  PROVE  IInv'
<1>1. UNCHANGED <<row, picked, now, stale>>
  BY DEF Reread
<1>2. CASE Become(r, Say("refused"))
  BY <1>1, <1>2, SayType, RequestMoves
<1>3. CASE Become(r, Say("conflict"))
  BY <1>1, <1>3, SayType, RequestMoves
<1> QED
  BY <1>2, <1>3 DEF Reread

(***************************************************************************)
(* The sweep and the clock.                                                *)
(***************************************************************************)

LEMMA SelectStep ==
  ASSUME IInv, NEW w \in Workers, Select(w)
  PROVE  IInv'
<1>1. PICK P \in SUBSET Codes \ {{}} : SubSelect(P) /\ picked' = [picked EXCEPT ![w] = P]
  BY DEF Select
<1>2. /\ stale' = [c \in Codes |-> stale[c] \ {w}]
      /\ UNCHANGED <<row, req, now>>
  BY DEF Select
<1>3. TypeOK'
  BY <1>1, <1>2 DEF IInv, TypeOK
<1>4. RowInv' /\ ReqInv' /\ OwnershipIsFinal'
  BY <1>2 DEF IInv, RowInv, ReqInv, OwnershipIsFinal
<1>5. FreshInv'
  <2>1. \A r \in Requests : r # w
    BY NamesAssumption DEF Requests
  <2> SUFFICES ASSUME NEW r \in Requests, req[r].pc \in {"update", "delete"}, r \notin stale'[req[r].code]
               PROVE  r \notin stale[req[r].code]
    BY <1>2 DEF IInv, FreshInv
  <2> QED
    BY <1>2, <2>1 DEF IInv, ReqInv
<1>6. PickInv'
  <2> SUFFICES ASSUME NEW v \in Workers, NEW c \in picked'[v], v \notin stale'[c]
               PROVE  row[c].status # "deleted"
    BY <1>2 DEF PickInv
  <2>1. CASE v = w
    BY <2>1, <1>1 DEF SubSelect, Due, IInv, TypeOK
  <2>2. CASE v # w
    <3>1. c \in picked[v] /\ c \in Codes
      BY <2>2, <1>1 DEF IInv, TypeOK
    <3> QED
      BY <2>2, <3>1, <1>2 DEF IInv, PickInv
  <2> QED
    BY <2>1, <2>2
<1> QED
  BY <1>3, <1>4, <1>5, <1>6 DEF IInv

\* Whoever has read one of the rows is overtaken.
LEMMA DisableStep ==
  ASSUME IInv, NEW w \in Workers, Disable(w)
  PROVE  IInv'
<1> DEFINE P == picked[w]
<1>1. /\ row' = [c \in Codes |-> IF c \in P THEN [row[c] EXCEPT !.status = "disabled"] ELSE row[c]]
      /\ stale' = [c \in Codes |-> IF c \in P THEN (stale[c] \cup Readers(c)) \ {w} ELSE stale[c]]
      /\ picked' = [picked EXCEPT ![w] = {}]
      /\ UNCHANGED <<req, now>>
  BY DEF Disable, Overtake
<1> HIDE DEF P
<1>2. \A c \in Codes :
        /\ row'[c] \in Row
        /\ row'[c].owner = row[c].owner /\ row'[c].key = row[c].key
        /\ c \in P => row'[c].status = "disabled"
        /\ c \notin P => row'[c] = row[c] /\ stale'[c] = stale[c]
  BY <1>1 DEF IInv, TypeOK, Row, Statuses
<1>3. TypeOK'
  <2>1. row' \in [Codes -> Row]
    <3>1. row' = [c \in Codes |-> row'[c]]
      BY <1>1
    <3> QED
      BY <1>2, <3>1
  <2>2. \A c \in Codes : Readers(c) \subseteq Requests \cup Workers
    BY DEF Readers
  <2> QED
    BY <1>1, <2>1, <2>2 DEF IInv, TypeOK
<1>4. RowInv' /\ ReqInv' /\ OwnershipIsFinal'
  <2>1. RowInv'
    <3> SUFFICES ASSUME NEW c \in Codes
                 PROVE  /\ row'[c].status = "none" => row'[c].owner = None
                        /\ row'[c].key => row'[c].owner = None
      BY DEF RowInv
    <3>1. row'[c].status = "none" => row[c].status = "none"
      BY <1>2
    <3> QED
      BY <1>2, <3>1 DEF IInv, RowInv
  <2>2. ReqInv'
    BY <1>1, <1>2 DEF IInv, ReqInv
  <2>3. OwnershipIsFinal'
    BY <1>1, <1>2 DEF IInv, OwnershipIsFinal, ReqInv
  <2> QED
    BY <2>1, <2>2, <2>3
<1>5. FreshInv'
  <2> SUFFICES ASSUME NEW r \in Requests, req[r].pc \in {"update", "delete"}, r \notin stale'[req[r].code]
               PROVE  row'[req[r].code] = row[req[r].code] /\ r \notin stale[req[r].code]
    BY <1>1 DEF IInv, FreshInv
  <2>1. req[r].code \in Codes /\ r # w
    BY NamesAssumption DEF IInv, ReqInv, Requests
  <2>2. r \in Readers(req[r].code)
    BY DEF Readers
  <2> QED
    BY <1>1, <1>2, <2>1, <2>2
<1>6. PickInv'
  <2> SUFFICES ASSUME NEW v \in Workers, NEW c \in picked'[v], v \notin stale'[c]
               PROVE  row'[c].status # "deleted"
    BY DEF PickInv
  <2>1. c \in picked[v] /\ c \in Codes
    BY <1>1 DEF IInv, TypeOK
  <2>2. CASE c \in P
    BY <2>1, <2>2, <1>2
  <2>3. CASE c \notin P
    <3>1. row'[c] = row[c] /\ stale'[c] = stale[c]
      BY <2>1, <2>3, <1>2
    <3> QED
      BY <2>1, <3>1 DEF IInv, PickInv
  <2> QED
    BY <2>2, <2>3
<1> QED
  BY <1>3, <1>4, <1>5, <1>6 DEF IInv

LEMMA TickStep ==
  ASSUME IInv, Tick
  PROVE  IInv'
BY BoundsAssumption DEF Tick, IInv, TypeOK, RowInv, ReqInv, FreshInv, PickInv, OwnershipIsFinal

(***************************************************************************)
(* Theorems.                                                               *)
(***************************************************************************)

LEMMA IInvInit == Init => IInv
<1> SUFFICES ASSUME Init PROVE IInv
  OBVIOUS
<1>1. TypeOK
  BY PieceTypes, BoundsAssumption DEF Init, TypeOK
<1>2. RowInv
  BY DEF Init, RowInv, NoRow
<1>3. ReqInv /\ FreshInv /\ OwnershipIsFinal
  BY DEF Init, ReqInv, FreshInv, OwnershipIsFinal, Idle
<1>4. PickInv
  BY DEF Init, PickInv
<1> QED
  BY <1>1, <1>2, <1>3, <1>4 DEF IInv

LEMMA IInvNext == IInv /\ [Next]_vars => IInv'
<1> SUFFICES ASSUME IInv, [Next]_vars PROVE IInv'
  OBVIOUS
<1>1. ASSUME NEW r \in Requests, RequestStep(r) PROVE IInv'
  BY <1>1, BeginCreateStep, InsertStep, BeginUpdateStep, UpdateStep, BeginDeleteStep,
     SoftDeleteStep, BeginClaimStep, ClaimStep, RereadStep DEF RequestStep
<1>2. ASSUME NEW w \in Workers, Sweep(w) PROVE IInv'
  BY <1>2, SelectStep, DisableStep DEF Sweep
<1>3. CASE Tick
  BY <1>3, TickStep
<1>4. CASE UNCHANGED vars
  BY <1>4 DEF vars, IInv, TypeOK, RowInv, ReqInv, FreshInv, PickInv, OwnershipIsFinal
<1> QED
  BY <1>1, <1>2, <1>3, <1>4 DEF Next

\* The checks of every request and every sweep stay true until the row
\* changes, and ownership stays as it was answered, in every reachable
\* state.
THEOREM LifecycleInvariance == Spec => []IInv
BY IInvInit, IInvNext, PTL DEF Spec

\* Rows, requests and sweeps keep their types; a generated code is drawn
\* MaxAttempts times at most.
THEOREM LifecycleTypes == Spec => []TypeOK
<1>1. IInv => TypeOK
  BY DEF IInv
<1> QED
  BY <1>1, LifecycleInvariance, PTL

\* Who was told that a link is theirs owns it for ever.
THEOREM OwnersKeepTheirLinks == Spec => []OwnershipIsFinal
<1>1. IInv => OwnershipIsFinal
  BY DEF IInv
<1> QED
  BY <1>1, LifecycleInvariance, PTL

LEMMA ByOwnerStep == IInv => ByOwner
<1> SUFFICES ASSUME IInv, NEW r \in Requests, NEW c \in Codes, Writes(r, c),
                    row[c].owner # None, r \notin stale[c]
             PROVE  req[r].user = row[c].owner
  BY DEF ByOwner
<1>1. req[r].code = c /\ req[r].pc \in {"update", "delete"}
  BY DEF Writes, Update, SoftDelete
<1> QED
  BY <1>1 DEF IInv, FreshInv

LEMMA EnabledStep == IInv => EnabledUnexpired
<1> SUFFICES ASSUME IInv, NEW r \in Requests, Update(r), req[r].patch.status = "active",
                    r \notin stale[req[r].code]
             PROVE  row'[req[r].code].expiry > req[r].at
  BY DEF EnabledUnexpired
<1> DEFINE c == req[r].code
<1>1. c \in Codes /\ row'[c] = Patched(row[c], req[r].patch)
  BY DEF Update, Write, IInv, TypeOK, ReqInv
<1>2. Patched(row[c], req[r].patch).expiry > req[r].at
  BY DEF Update, IInv, FreshInv
<1> QED
  BY <1>1, <1>2

LEMMA RevivedStep == IInv /\ [Next]_vars => RevivedByOvertaken
<1> SUFFICES ASSUME IInv, [Next]_vars, NEW c \in Codes,
                    row[c].status = "deleted", row'[c].status # "deleted"
             PROVE  \/ \E r \in stale[c] \cap Requests : Update(r) /\ req[r].code = c
                    \/ \E w \in stale[c] \cap Workers  : Disable(w) /\ c \in picked[w]
  BY DEF RevivedByOvertaken
<1>1. row'[c] # row[c] /\ row \in [Codes -> Row]
  BY DEF IInv, TypeOK
<1>2. ASSUME NEW r \in Requests, RequestStep(r)
      PROVE  r \in stale[c] /\ Update(r) /\ req[r].code = c
  <2>1. CASE Insert(r)
    <3>1. PICK d \in Codes : InsertRow(r, d) \/ Collide(r, d)
      BY <2>1 DEF Insert, IInv, TypeOK, Request
    <3>2. CASE InsertRow(r, d)
      BY <3>2, <1>1 DEF InsertRow, Write
    <3>3. CASE Collide(r, d)
      BY <3>3, <1>1 DEF Collide
    <3> QED
      BY <3>1, <3>2, <3>3
  <2>2. CASE Update(r)
    <3>1. req[r].code = c
      BY <2>2, <1>1 DEF Update, Write
    <3> QED
      BY <2>2, <3>1 DEF Update, IInv, FreshInv
  <2>3. CASE SoftDelete(r)
    <3>1. row' = [row EXCEPT ![req[r].code] = [row[req[r].code] EXCEPT !.status = "deleted"]]
      BY <2>3 DEF SoftDelete, Write
    <3>2. row'[c].status = "deleted"
      <4>1. CASE req[r].code = c
        BY <3>1, <4>1, <1>1 DEF Row
      <4>2. CASE req[r].code # c
        BY <3>1, <4>2, <1>1
      <4> QED
        BY <4>1, <4>2
    <3> QED
      BY <3>2
  <2>4. CASE Claim(r)
    BY <2>4, <1>1 DEF Claim, Claimable, Write
  <2>5. CASE BeginCreate(r) \/ BeginUpdate(r) \/ BeginDelete(r) \/ BeginClaim(r) \/ Reread(r)
    BY <2>5, <1>1 DEF BeginCreate, BeginUpdate, BeginDelete, BeginClaim, Reread
  <2> QED
    BY <1>2, <2>1, <2>2, <2>3, <2>4, <2>5 DEF RequestStep
<1>3. ASSUME NEW w \in Workers, Sweep(w)
      PROVE  w \in stale[c] /\ Disable(w) /\ c \in picked[w]
  <2>1. Disable(w)
    BY <1>1, <1>3 DEF Sweep, Select
  <2>2. c \in picked[w]
    BY <1>1, <2>1 DEF Disable
  <2> QED
    BY <2>1, <2>2 DEF IInv, PickInv
<1>4. \/ \E r \in Requests : RequestStep(r)
      \/ \E w \in Workers : Sweep(w)
  BY <1>1 DEF Next, Tick, vars
<1> QED
  BY <1>2, <1>3, <1>4

\* An owned link is edited and deleted by its owner alone, requests apart
\* that passed their checks before the row last changed.
THEOREM OnlyOwnersWrite == Spec => OwnerOnly
BY LifecycleInvariance, ByOwnerStep, PTL DEF OwnerOnly

\* A deleted link is revived only by a statement that was decided before
\* the deletion.
THEOREM DeletionsLast == Spec => DeletedForGood
BY LifecycleInvariance, RevivedStep, PTL DEF Spec, DeletedForGood

\* A PATCH whose row has not changed since its check enables no link that
\* had expired by then.
THEOREM EnablingIsChecked == Spec => EnabledIsLive
BY LifecycleInvariance, EnabledStep, PTL DEF EnabledIsLive

=============================================================================
