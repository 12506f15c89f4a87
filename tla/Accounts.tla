------------------------------ MODULE Accounts ------------------------------
(***************************************************************************)
(* Accounts: registration, login, the signed token they hand out, and the  *)
(* two middlewares that turn the token of a request into an identity.      *)
(*                                                                         *)
(* A registration hashes, then inserts; a login reads, then compares.      *)
(* Either can meet another one in between, and the answer of PostgreSQL    *)
(* can be lost after the insert.  Servers' clocks differ.  A token is      *)
(* checked by its signature and its times alone, never against the table.  *)
(***************************************************************************)
EXTENDS Naturals, FiniteSets

CONSTANTS
  Addresses,       \* mail addresses, in lower case
  Spellings,       \* ways to write an address that differ in case
  Passwords,       \* passwords
  Sessions,        \* requests; a registration takes its id for the user's
  Servers,         \* API processes
  Skews,           \* how far a server's clock may be ahead, in ticks
  Leeway,          \* nbf lies this far in the past: a minute, in ticks
  Expiry,          \* life of a token, in ticks
  MaxAuthTime,     \* bound: ticks of the clock
  NoUser           \* no row, no token, no identity

ASSUME AuthAssumption ==
  /\ Skews \subseteq Nat /\ Leeway \in Nat /\ Expiry \in Nat /\ MaxAuthTime \in Nat
  /\ NoUser \notin Sessions

\* The drift that nbf allows for, and no more.
ASSUME ClocksAssumption == \A a, b \in Skews : a <= b + Leeway

VARIABLES
  today,      \* true time, in ticks
  skew,       \* clock of each server, ahead of true time
  users,      \* the table: [address, spelling, password] by id, or NoUser
  sessions,   \* requests: registrations, logins and requests with a token
  tokens      \* tokens handed out

authVars == <<today, skew, users, sessions, tokens>>

Now(s) == today + skew[s]
Existing == {u \in Sessions : users[u] # NoUser}

NewRequest == [pc |-> "idle", kind |-> "none", server |-> NoUser, address |-> NoUser,
               spelling |-> NoUser, password |-> NoUser, row |-> NoUser,
               token |-> NoUser, result |-> "none",
               mine |-> NoUser]   \* history: the account the request's credentials named at its start

\* Claims are signed; only their times and subject matter here.
Issue(u, s) == [sub |-> u, nbf |-> Now(s) - Leeway, exp |-> Now(s) + Expiry]

\* ParseToken: signature, issuer, audience and subject are as issued; the times
\* are read on the clock of the server that asks.
ParseToken(t, s) == t.nbf <= Now(s) /\ Now(s) < t.exp

Respond(r, result) == sessions' = [sessions EXCEPT ![r].pc = "done", ![r].result = result]

HandOut(r, u) ==
  LET t == Issue(u, sessions[r].server)
  IN  /\ tokens' = tokens \cup {t}
      /\ sessions' = [sessions EXCEPT ![r].pc = "done", ![r].result = "session", ![r].token = t]

-----------------------------------------------------------------------------
(* Registration and login. Malformed addresses and weak passwords are      *)
(* answered 422 before anything is read, and leave no trace.               *)

Named(a, p) ==
  LET named == {u \in Existing : users[u].address = a /\ users[u].password = p}
  IN  IF named = {} THEN NoUser ELSE CHOOSE u \in named : TRUE

Start(r, kind, s, a, w, p) ==
  /\ sessions[r].pc = "idle"
  /\ sessions' = [sessions EXCEPT ![r] =
       [NewRequest EXCEPT !.pc = kind, !.kind = kind, !.server = s, !.address = a,
          !.spelling = w, !.password = p, !.mine = Named(a, p)]]
  /\ UNCHANGED <<today, skew, users, tokens>>

SameAddress_CaseSensitive(u, q) ==
  users[u].address = q.address /\ users[u].spelling = q.spelling

SameAddress(u, q) == users[u].address = q.address     \* lower(email) = lower($1)

\* Create: the unique index is on lower(email); the row keeps the spelling.
RegisterUser(r) ==
  LET q == sessions[r]
      taken == \E u \in Existing : SameAddress(u, q)
      row == [address |-> q.address, spelling |-> q.spelling, password |-> q.password]
  IN  /\ q.pc = "register"
      /\ \/ /\ taken
            /\ Respond(r, "conflict") /\ UNCHANGED <<users, tokens>>
         \/ /\ ~taken
            /\ users' = [users EXCEPT ![r] = row]
            /\ \/ HandOut(r, r)
               \/ Respond(r, "unavailable") /\ UNCHANGED tokens   \* the answer is lost
         \/ Respond(r, "unavailable") /\ UNCHANGED <<users, tokens>>
      /\ UNCHANGED <<today, skew>>

\* GetByEmail; without a row a dummy hash is compared, for the time it takes.
Lookup(r) ==
  LET q == sessions[r]
      rows == {u \in Existing : SameAddress(u, q)}
  IN  /\ q.pc = "login"
      /\ \/ /\ rows = {}
            /\ Respond(r, "credentials")
         \/ \E u \in rows :
              sessions' = [sessions EXCEPT ![r].pc = "compare",
                ![r].row = [id |-> u, password |-> users[u].password]]
         \/ Respond(r, "unavailable")
      /\ UNCHANGED <<today, skew, users, tokens>>

Compare(r) ==
  LET q == sessions[r]
  IN  /\ q.pc = "compare"
      /\ IF q.row.password = q.password
         THEN HandOut(r, q.row.id)
         ELSE Respond(r, "credentials") /\ UNCHANGED tokens
      /\ UNCHANGED <<today, skew, users>>

-----------------------------------------------------------------------------
(* Requests that may carry a token. *)

\* requireAuth: no identity, no handler.
RequireAuth(t, s) == IF t # NoUser /\ ParseToken(t, s) THEN "passed" ELSE "unauthorized"

\* optionalAuth: no token passes, a bad one does not.
OptionalAuth(t, s) == IF t = NoUser \/ ParseToken(t, s) THEN "passed" ELSE "unauthorized"

Call(r, kind, s, t) ==
  /\ sessions[r].pc = "idle"
  /\ sessions' = [sessions EXCEPT ![r] =
       [NewRequest EXCEPT !.pc = "handler", !.kind = kind, !.server = s, !.token = t,
          !.result = IF kind = "require" THEN RequireAuth(t, s) ELSE OptionalAuth(t, s)]]
  /\ UNCHANGED <<today, skew, users, tokens>>

\* me: the account may be gone while its token lives on.
Me(r) ==
  LET q == sessions[r]
  IN  /\ q.pc = "handler"
      /\ Respond(r, IF q.kind = "require" /\ q.result = "passed" /\ users[q.token.sub] = NoUser
                   THEN "not found" ELSE q.result)
      /\ UNCHANGED <<today, skew, users, tokens>>

\* An operator removes an account: no code of this repository does.
DeleteUser(u) ==
  /\ u \in Existing
  /\ users' = [users EXCEPT ![u] = NoUser]
  /\ UNCHANGED <<today, skew, sessions, tokens>>

AuthTick ==
  /\ today < MaxAuthTime
  /\ today' = today + 1
  /\ UNCHANGED <<skew, users, sessions, tokens>>

AuthInit ==
  /\ today = Leeway
  /\ skew \in [Servers -> Skews]
  /\ users = [u \in Sessions |-> NoUser]
  /\ sessions = [r \in Sessions |-> NewRequest]
  /\ tokens = {}

AuthNext ==
  \/ \E r \in Sessions, s \in Servers :
       \/ \E kind \in {"register", "login"}, a \in Addresses, w \in Spellings, p \in Passwords :
            Start(r, kind, s, a, w, p)
       \/ \E kind \in {"require", "optional"}, t \in tokens \cup {NoUser} : Call(r, kind, s, t)
  \/ \E r \in Sessions : RegisterUser(r) \/ Lookup(r) \/ Compare(r) \/ Me(r)
  \/ \E u \in Sessions : DeleteUser(u)
  \/ AuthTick

AuthSpec == AuthInit /\ [][AuthNext]_authVars

-----------------------------------------------------------------------------
(* Properties. *)

Rows == [address : Addresses, spelling : Spellings, password : Passwords]
Tokens == [sub : Sessions, nbf : Nat, exp : Nat]

AuthTypeOK ==
  /\ today \in Nat /\ skew \in [Servers -> Skews]
  /\ \A u \in Sessions : users[u] = NoUser \/ users[u] \in Rows
  /\ \A t \in tokens : t \in Tokens
  /\ \A r \in Sessions : sessions[r].pc \in {"idle", "register", "login", "compare", "handler", "done"}

\* However registrations interleave, and whichever answers are lost, an address
\* has one account, in whatever case it is written.
OneAccount ==
  \A u, v \in Existing : users[u].address = users[v].address => u = v

\* A session goes only to a request that gave the address and the password the
\* account was registered with: no login is confused with another one's account.
OnlyTheOwner ==
  \A r \in Sessions : sessions[r].result = "session" =>
    LET u == sessions[r].token.sub
    IN  /\ sessions[u].kind = "register"
        /\ sessions[u].address = sessions[r].address
        /\ sessions[u].password = sessions[r].password

\* Who had an account when the login began, and still has it, is not told that
\* its credentials are wrong, in whatever case the address was typed then or now.
RightCredentialsWork ==
  \A r \in Sessions :
    sessions[r].result = "credentials" /\ sessions[r].mine # NoUser
      => users[sessions[r].mine] = NoUser

\* A session that was handed out works at once on every server, as long as their
\* clocks differ by no more than the leeway.
WorksEverywhere ==
  \A t \in tokens, s \in Servers : Now(s) < t.exp => ParseToken(t, s)

\* What registration, login and the two middlewares promise together.
AuthInv == AuthTypeOK /\ OneAccount /\ OnlyTheOwner /\ RightCredentialsWork /\ WorksEverywhere

=============================================================================
