---------------------------- MODULE RateLimiter ----------------------------
(***************************************************************************)
(* The fixed-window rate limiter: the middleware that derives a key from   *)
(* the rule and the visitor, the counter in Redis that INCREX or, without  *)
(* it, a Lua script moves, and the answer with its Retry-After header.     *)
(*                                                                         *)
(* One count is one round trip that can go wrong in three ways: refused,   *)
(* lost before it ran, or run with its answer lost.  INCREX that fails     *)
(* falls back to the script; a script that fails lets the request pass.    *)
(***************************************************************************)
EXTENDS Naturals, FiniteSets, Sequences

CONSTANTS
  Callers,           \* the requests
  Visitors,          \* client addresses
  Paths,             \* URL paths
  Proxy,             \* the address of the reverse proxy
  LimitOf,           \* a quota for each scope; 0 turns its rule off
  ByIPAndCode,       \* the scopes whose rule counts per address and path
  Window,            \* the length of a window, in clock ticks
  Second,            \* the clock ticks of one second
  MaxRateTime,       \* bound: ticks of the clock
  MaxRateFaults      \* bound: round trips that fail

Scopes == DOMAIN LimitOf

ASSUME RateAssumption ==
  /\ IsFiniteSet(Callers)
  /\ LimitOf \in [Scopes -> Nat]
  /\ ByIPAndCode \subseteq Scopes
  /\ Window \in Nat \ {0}
  /\ Second \in Nat \ {0}
  /\ MaxRateTime \in Nat /\ MaxRateFaults \in Nat

VARIABLES
  clock,         \* time, in ticks
  increx,        \* the server knows INCREX (probed once when the client opens)
  disabled,      \* RATE_LIMIT_DISABLED
  trustProxy,    \* TRUST_PROXY, set where a proxy stands in front
  counters,      \* rate-limit keys in Redis: [n, expires]
  callers,       \* requests in the middleware
  degradeCount,  \* requests let through because Redis failed
  rateFaults     \* failed round trips so far

rateVars == <<clock, increx, disabled, trustProxy, counters, callers,
              degradeCount, rateFaults>>

-----------------------------------------------------------------------------
(* Keys. *)

Asks == [scope : Scopes, peer : Visitors \cup {Proxy}, realIP : Visitors, path : Paths]

\* A proxy is in front exactly where the deployment says so; it sets X-Real-IP
\* to the address of its peer.
CanAsk(q) == q.peer = IF trustProxy THEN Proxy ELSE q.realIP

ClientIP_Peer(q) == q.peer

ClientIP(q) == IF trustProxy THEN q.realIP ELSE q.peer

RateLimitKey(q) ==
  IF q.scope \in ByIPAndCode THEN <<q.scope, ClientIP(q), q.path>>
                             ELSE <<q.scope, ClientIP(q)>>

Keys == {<<s, v>> : s \in Scopes, v \in Visitors \cup {Proxy}}
          \cup {<<s, v, p>> : s \in Scopes, v \in Visitors \cup {Proxy}, p \in Paths}

\* PTTL's answer for a key that does not exist or never expires.
NoTTL == 0

Gone == [n |-> 0, expires |-> NoTTL]
Live(k) == counters[k].n > 0 /\ (counters[k].expires = NoTTL \/ clock < counters[k].expires)
Counter(k) == IF Live(k) THEN counters[k] ELSE Gone

\* INCR, and a time to live where the key has none.
IncrexOn(c) == [n |-> c.n + 1,
                expires |-> IF c.expires = NoTTL THEN clock + Window ELSE c.expires]

\* INCR, and a time to live for the first one of a window.
IncrWindowScript(c) == [n |-> c.n + 1,
                        expires |-> IF c.n = 0 THEN clock + Window ELSE c.expires]

\* Seconds, rounded up, one at least.
RetryAfterHeader(ticks) ==
  LET whole == ticks \div Second
      up    == IF ticks > whole * Second THEN whole + 1 ELSE whole
  IN  IF up < 1 THEN 1 ELSE up

-----------------------------------------------------------------------------
(* One request. "hits" are the windows its executions counted in (each     *)
(* named by its end), "window" the one whose answer decided.               *)

Idle == [pc |-> "idle", q |-> [scope |-> "none"], hits |-> <<>>,
         window |-> 0, told |-> 0]

RateFault == rateFaults < MaxRateFaults /\ rateFaults' = rateFaults + 1
NoFault == UNCHANGED rateFaults

\* RateLimit and the head of Allow: no quota or the emergency switch lets all pass.
Ask(c, q) ==
  /\ callers[c].pc = "idle" /\ CanAsk(q)
  /\ callers' = [callers EXCEPT ![c] =
       [Idle EXCEPT !.q = q,
          !.pc = IF LimitOf[q.scope] = 0 \/ disabled THEN "uncounted"
                 ELSE IF increx THEN "increx" ELSE "script"]]
  /\ UNCHANGED <<clock, increx, disabled, trustProxy, counters, degradeCount, rateFaults>>

\* The answer of the count: over the limit the middleware asks for the TTL.
Decided(c, counted) ==
  [callers[c] EXCEPT !.pc = IF counted.n > LimitOf[callers[c].q.scope] THEN "ttl" ELSE "admitted",
                     !.hits = Append(@, counted.expires), !.window = counted.expires]

\* A count that ran: its answer decides, or is lost and the request goes on.
Execute(c, counted, onLoss) ==
  /\ counters' = [counters EXCEPT ![RateLimitKey(callers[c].q)] = counted]
  /\ \/ callers' = [callers EXCEPT ![c] = Decided(c, counted)] /\ NoFault
     \/ /\ RateFault
        /\ \E next \in onLoss :
             callers' = [callers EXCEPT ![c].pc = next,
                                        ![c].hits = Append(@, counted.expires)]

\* INCREX; go-redis sends a command again when the connection broke, and any
\* error in the end falls back to the script.
Increx(c) ==
  /\ callers[c].pc = "increx"
  /\ \/ Execute(c, IncrexOn(Counter(RateLimitKey(callers[c].q))), {"increx", "script"})
     \/ /\ RateFault
        /\ callers' = [callers EXCEPT ![c].pc = "script"]
        /\ UNCHANGED counters
  /\ UNCHANGED <<clock, increx, disabled, trustProxy, degradeCount>>

\* The Lua script, which go-redis may send again as well.
Script(c) ==
  /\ callers[c].pc = "script"
  /\ Execute(c, IncrWindowScript(Counter(RateLimitKey(callers[c].q))), {"script"})
  /\ UNCHANGED <<clock, increx, disabled, trustProxy, degradeCount>>

\* An error of the script is Allow's error: the request passes uncounted.
Degrade(c) ==
  /\ callers[c].pc = "script"
  /\ RateFault
  /\ degradeCount' = degradeCount + 1
  /\ callers' = [callers EXCEPT ![c].pc = "degraded"]
  /\ UNCHANGED <<clock, increx, disabled, trustProxy, counters>>

Refused(c, ticks) ==
  callers' = [callers EXCEPT ![c].pc = "refused",
                             ![c].told = clock + RetryAfterHeader(ticks) * Second]

\* ttl: what is left of the window, or all of it when Redis does not say.
Refuse(c) ==
  LET k == RateLimitKey(callers[c].q)
  IN  /\ callers[c].pc = "ttl"
      /\ \/ /\ NoFault
            /\ Refused(c, IF Live(k) /\ counters[k].expires # NoTTL
                          THEN counters[k].expires - clock ELSE Window)
         \/ RateFault /\ Refused(c, Window)
      /\ UNCHANGED <<clock, increx, disabled, trustProxy, counters, degradeCount>>

Pass ==
  /\ clock < MaxRateTime
  /\ clock' = clock + 1
  /\ UNCHANGED <<increx, disabled, trustProxy, counters, callers, degradeCount, rateFaults>>

RateInit ==
  /\ clock = 0
  /\ increx \in BOOLEAN /\ disabled \in BOOLEAN /\ trustProxy \in BOOLEAN
  /\ counters = [k \in Keys |-> Gone]
  /\ callers = [c \in Callers |-> Idle]
  /\ degradeCount = 0 /\ rateFaults = 0

RateNext ==
  \/ \E c \in Callers :
       \/ \E q \in Asks : Ask(c, q)
       \/ Increx(c) \/ Script(c) \/ Degrade(c) \/ Refuse(c)
  \/ Pass

RateSpec == RateInit /\ [][RateNext]_rateVars

-----------------------------------------------------------------------------
(* Properties. *)

RateTypeOK ==
  /\ clock \in 0..MaxRateTime /\ rateFaults \in 0..MaxRateFaults
  /\ counters \in [Keys -> [n : Nat, expires : Nat]]
  /\ degradeCount \in 0..Cardinality(Callers)
  /\ \A c \in Callers :
       /\ callers[c].pc \in {"idle", "uncounted", "increx", "script", "ttl",
                             "admitted", "degraded", "refused"}
       /\ callers[c].window \in Nat /\ callers[c].told \in Nat
       /\ \A i \in DOMAIN callers[c].hits : callers[c].hits[i] \in Nat

\* Requests that are meant to share a quota: one rule, one visitor and, where
\* the rule says so, one path.
SameQuota(c, d) ==
  LET q == callers[c].q  o == callers[d].q
  IN  /\ q.scope = o.scope /\ q.realIP = o.realIP
      /\ q.scope \in ByIPAndCode => q.path = o.path

Asking == {c \in Callers : callers[c].pc # "idle"}

\* How often the requests of c's quota were counted in window w.
HitsIn(c, w) ==
  Cardinality(UNION {{<<d, i>> : i \in {j \in DOMAIN callers[d].hits : callers[d].hits[j] = w}} :
                       d \in {d \in Asking : SameQuota(c, d)}})

\* No window lets more requests of a quota through than its limit, whatever is
\* lost on the way; only requests that passed uncounted because Redis failed
\* come on top of them.
QuotaIsKept ==
  \A c \in Callers : callers[c].pc = "admitted" =>
    Cardinality({d \in Asking : /\ SameQuota(c, d) /\ callers[d].pc = "admitted"
                                /\ callers[d].window = callers[c].window})
      <= LimitOf[callers[c].q.scope]

\* A refusal has its reason in the visitor's own requests: in that window, the
\* requests of this quota and the ones counted twice exceed the limit.  Nobody
\* is refused for another visitor, another rule, another path or an old window.
RefusedForAReason ==
  \A c \in Callers : callers[c].pc \in {"ttl", "refused"} =>
    HitsIn(c, callers[c].window) > LimitOf[callers[c].q.scope]

\* Whoever waits as Retry-After says comes back after the window that refused
\* him is over: no rounding sends him into the same refusal again.
WaitIsEnough ==
  \A c \in Callers : callers[c].pc = "refused" =>
    callers[c].window <= callers[c].told

\* Every counter ends: a key without a time to live would refuse its visitor
\* for ever, and INCREX and the script, taking turns on one key, never leave one.
EveryCounterEnds ==
  \A k \in Keys : counters[k].n > 0 => counters[k].expires \in 1..(clock + Window)

\* What limiter.go and the middleware promise together: types, and the four above.
RateInv ==
  RateTypeOK /\ QuotaIsKept /\ RefusedForAReason /\ WaitIsEnough /\ EveryCounterEnds

=============================================================================
