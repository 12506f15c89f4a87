----------------------------- MODULE HealthProbe -----------------------------
(***************************************************************************)
(* One health report: PostgreSQL and Redis are probed one after the other, *)
(* then two numbers are read from Redis, each under a time limit of its    *)
(* own, while the container's check waits for the answer under a limit     *)
(* that covers them all.  A dependency answers, refuses, or hangs until    *)
(* the limit; it may change meanwhile.                                     *)
(***************************************************************************)
EXTENDS Naturals, Functions

CONSTANTS
  ProbeTimeout,   \* probeTimeout: the limit of one probe, in ticks
  RedisTimeout,   \* the limit of one call to Redis
  CheckLimit,     \* how long probeHealth waits
  MaxTurns        \* bound: how often a dependency changes

ASSUME ProbeAssumption ==
  /\ ProbeTimeout \in Nat \ {0} /\ RedisTimeout \in 1..ProbeTimeout
  /\ CheckLimit \in Nat /\ MaxTurns \in Nat

VARIABLES
  health,    \* of each dependency: "up", "refuses" or "hangs"
  turns,     \* changes of it so far
  probing,   \* what Report is doing
  elapsed,   \* ticks since Report began
  began,     \* when the current call began
  verdict,   \* postgres and redis in the report: "ok" or "error"
  why        \* history: for each error, whether the dependency was down, and
             \* how long its call had been allowed to take

probeVars == <<health, turns, probing, elapsed, began, verdict, why>>

Dependencies == {"postgres", "redis"}
NeverFailed == [down |-> FALSE, took |-> 0]

\* The calls of Report in their order.
Calls == <<"postgres", "redis", "length", "pending", "reported">>
After(call) == Calls[1 + CHOOSE i \in 1..4 : Calls[i] = call]
Dependency(call) == IF call = "postgres" THEN "postgres" ELSE "redis"

Least(a, b) == IF a < b THEN a ELSE b

\* How much time a call has in all: one deadline for the whole report.
Budget_Shared(call) ==
  LET left == IF began < ProbeTimeout THEN ProbeTimeout - began ELSE 0
  IN  IF call = "postgres" THEN left ELSE Least(left, RedisTimeout)

\* Each probe has a fresh deadline; a call to Redis has its own on top of it, and
\* the two numbers, which share a deadline, never come near it.
Budget(call) == IF call = "postgres" THEN ProbeTimeout ELSE Least(ProbeTimeout, RedisTimeout)

InTime == elapsed - began < Budget(probing)

Continue ==
  /\ probing' = After(probing) /\ began' = elapsed
  /\ UNCHANGED <<health, turns, elapsed>>

Answers ==
  /\ probing # "reported"
  /\ health[Dependency(probing)] = "up" /\ InTime
  /\ Continue /\ UNCHANGED <<verdict, why>>

\* An error of a probe is reported; one of the two numbers is left out.
Fails ==
  /\ probing # "reported"
  /\ health[Dependency(probing)] = "refuses" \/ ~InTime
  /\ Continue
  /\ IF probing \in Dependencies
     THEN /\ verdict' = [verdict EXCEPT ![probing] = "error"]
          /\ why' = [why EXCEPT ![probing] = [down |-> health[probing] # "up",
                                              took |-> elapsed - began]]
     ELSE UNCHANGED <<verdict, why>>

ProbeTick ==
  /\ probing # "reported" /\ InTime
  /\ elapsed' = elapsed + 1
  /\ UNCHANGED <<health, turns, probing, began, verdict, why>>

Turn(d, h) ==
  /\ turns < MaxTurns /\ turns' = turns + 1
  /\ health[d] # h /\ health' = [health EXCEPT ![d] = h]
  /\ UNCHANGED <<probing, elapsed, began, verdict, why>>

ProbeInit ==
  /\ health \in [Dependencies -> {"up", "refuses", "hangs"}]
  /\ turns = 0 /\ probing = "postgres" /\ elapsed = 0 /\ began = 0
  /\ verdict = [d \in Dependencies |-> "ok"]
  /\ why = [d \in Dependencies |-> NeverFailed]

ProbeNext ==
  \/ Answers \/ Fails \/ ProbeTick
  \/ \E d \in Dependencies, h \in {"up", "refuses", "hangs"} : Turn(d, h)

ProbeSpec == ProbeInit /\ [][ProbeNext]_probeVars

-----------------------------------------------------------------------------
(* Properties. *)

\* Every variable has its type; a report takes no longer than its calls' limits.
ProbeTypeOK ==
  /\ health \in [Dependencies -> {"up", "refuses", "hangs"}]
  /\ turns \in 0..MaxTurns
  /\ probing \in Range(Calls)
  /\ began \in 0..elapsed /\ elapsed \in 0..(ProbeTimeout + 3 * RedisTimeout)
  /\ verdict \in [Dependencies -> {"ok", "error"}]
  /\ why \in [Dependencies -> [down : BOOLEAN, took : 0..ProbeTimeout]]

\* main.go:309: the dependency that hangs never makes the other one look down: an
\* error stands for a dependency that was down when it was asked, or that had the
\* whole time of its own call and did not answer.
BlamesTheRightOne ==
  \A d \in Dependencies : verdict[d] = "error" =>
    why[d].down \/ why[d].took >= IF d = "postgres" THEN ProbeTimeout ELSE RedisTimeout

\* Whatever hangs, the report is there before the container's check gives up: the
\* check fails because a dependency is down, never because the report is slow.
ReportsInTime == elapsed < CheckLimit

\* What one health report tells, and when.
ProbeInv == ProbeTypeOK /\ BlamesTheRightOne /\ ReportsInTime

=============================================================================
