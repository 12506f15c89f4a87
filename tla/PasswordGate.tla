---------------------------- MODULE PasswordGate ----------------------------
(***************************************************************************)
(* Who gets through a link, on top of its cache: every version of the link *)
(* is active or not (disabled or deleted) and has a password or none; the  *)
(* cache carries its status, only that there is a password and how often   *)
(* it was changed; and a visitor who gave the password to the database     *)
(* once shows a signed cookie to the cache from then on.  An expiry is     *)
(* compared with the clock at each visit and needs no version of its own.  *)
(*                                                                         *)
(* There is one browser; it tries any password at any time, and another    *)
(* cookie replaces the one it has.                                         *)
(***************************************************************************)
EXTENDS LinkCache

CONSTANTS
  LinkPasswords,    \* access passwords
  NoPassword,   \* a link without a password; a visitor who gave none
  UnlockTTL     \* LINK_UNLOCK_TTL, in ticks

ASSUME GateAssumption == NoPassword \notin LinkPasswords /\ UnlockTTL \in Nat \ {0}

VARIABLES
  guard,   \* of each version: status = active, password_hash and password_version
  jar      \* the browser's cookie: the version it is signed for and its time left;
           \* history: what its owner gave for it, and which row he met

gateVars == <<guard, jar>>

Unguarded == [active |-> TRUE, password |-> NoPassword, version |-> 0]
HasPassword(g) == g.password # NoPassword

GateInit ==
  /\ Init
  /\ guard = [v \in Versions |-> Unguarded]
  /\ jar = {}

-----------------------------------------------------------------------------
(* The owner's writes. *)

\* password_version moves with every write of password_hash, clearing it too.
SetPassword(g, p) == [g EXCEPT !.password = p, !.version = @ + 1]

\* Create writes the password of version 0; Update keeps it or sets it anew,
\* and like Delete and expireLinks it may change the status.
Guards(g) ==
  IF row = 0 THEN {[g EXCEPT !.password = p] : p \in LinkPasswords \cup {NoPassword}}
  ELSE LET kept == {g} \cup {SetPassword(g, p) : p \in LinkPasswords \cup {NoPassword}}
       IN  {[h EXCEPT !.active = b] : h \in kept, b \in BOOLEAN}

Write ==
  /\ Commit \/ CommitUnseen
  /\ \E g \in Guards(guard[row]) : guard' = [guard EXCEPT ![row + 1] = g]
  /\ UNCHANGED jar

-----------------------------------------------------------------------------
(* The visitor. *)

\* Verify: the signature covers the version, and the cookie has time left.
Verify_Unversioned(c, version) == c.left > 0

Verify(c, version) == c.version = version /\ c.left > 0

Unlocked(g) == \E c \in jar : Verify(c, g.version)

\* Redirectable, then the password: the answer's version decides between 404
\* or 410, the password page (of which no click is recorded) and the redirect.
Opens(v) == v > 0 /\ guard[v].active /\ (HasPassword(guard[v]) => Unlocked(guard[v]))

\* A visit changes nothing but what a lookup does.
Visit ==
  /\ Hit \/ HitMissing \/ \E p \in Processes : Fill(p) \/ FillFails(p)
  /\ UNCHANGED gateVars

\* unlock: VerifiedPassword reads the database; it refuses a link that does not
\* redirect, and without a password anything is right.  The cookie is signed for the version of the row it read.
Unlock(p) ==
  /\ row > 0 /\ guard[row].active
  /\ guard[row].password \in {NoPassword, p}
  /\ jar' = {[version |-> guard[row].version, left |-> UnlockTTL, given |-> p, at |-> row]}
  /\ UNCHANGED <<vars, guard>>

-----------------------------------------------------------------------------

\* Max-Age lets the browser drop the cookie; its own time ends with it.
GateTick ==
  /\ Tick
  /\ jar' = {[c EXCEPT !.left = @ - 1] : c \in {d \in jar : d.left > 0}}
  /\ UNCHANGED guard

Behind ==
  /\ \/ \E p \in Processes : StartFlight(p) \/ ReadRow(p) \/ Abandon(p)
     \/ \E v \in Versions : EvictAfter(v) \/ EvictFails(v)
  /\ UNCHANGED gateVars

GateNext == Write \/ Visit \/ GateTick \/ Behind \/ \E p \in LinkPasswords : Unlock(p)

GateProceed(p) == Proceed(p) /\ (Visit \/ Behind)

GateSpec ==
  /\ GateInit /\ [][GateNext]_<<vars, gateVars>>
  /\ WF_<<vars, gateVars>>(GateTick)
  /\ \A p \in Processes : WF_<<vars, gateVars>>(GateProceed(p))

-----------------------------------------------------------------------------
(* Properties. *)

GateTypeOK ==
  /\ guard \in [Versions -> [active : BOOLEAN, password : LinkPasswords \cup {NoPassword},
                          version : 0..MaxVersion]]
  /\ jar \subseteq [version : 0..MaxVersion, left : 0..UnlockTTL,
              given : LinkPasswords, at : Versions]
  /\ Cardinality(jar) <= 1

\* The versions of the link that a visit may be answered with now.
Shown == {e.ver : e \in link} \cup UNION {{f.ver : f \in {x \in flight[p] : x.stage = "put"}} : p \in Processes}

\* What the visitor gave for the cookie, and the versions of the link that are
\* meant for one who gave it.
Given == IF jar = {} THEN NoPassword ELSE (CHOOSE c \in jar : TRUE).given
MeantFor(given) == {v \in 1..row : guard[v].active /\ guard[v].password \in {NoPassword, given}}

\* Ticks since the last version that was meant for the visitor was replaced.
ShutOutFor ==
  LET open == MeantFor(Given)
  IN  IF open = {} THEN MaxAge ELSE age[CHOOSE v \in open : \A u \in open : u <= v]

\* Whoever does not know a link's password - and everybody, once it is disabled or
\* deleted - gets through for at most one fetch and one cache lifetime after the
\* change that shut him out, whatever evictions fail and whichever cookie he has.
ShutOutInTime == \A v \in Shown : Opens(v) => ShutOutFor <= Fetch + TTL

\* A cookie opens no version that is guarded by another password than the one it
\* was given for, even if that password, or none, came and went in between.
CookieOpensItsPassword ==
  \A v \in 1..row : HasPassword(guard[v]) /\ Opens(v) => guard[v].password = Given

\* Who gave the password is let in until it changes, the link is closed or his
\* cookie ends, except by an answer from before that; it heals as SelfHeals says.
RightPasswordOpens ==
  \A c \in jar : c.left > 0 /\ guard[c.at] = guard[row]
    => \A v \in Shown : v > 0 /\ guard[v] = guard[row] => Opens(v)

\* What the password page and its cookie promise together.
GateInv == GateTypeOK /\ ShutOutInTime /\ CookieOpensItsPassword /\ RightPasswordOpens

=============================================================================
