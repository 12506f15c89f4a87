----------------------------- MODULE ApiProcess -----------------------------
(***************************************************************************)
(* A process from its start to its end: the two stores are opened one      *)
(* after the other, each retried with a growing back-off for as long as a  *)
(* window lasts; then the API serves (ClickQueue), the worker loops run,   *)
(* or both; and what was opened is closed again by the deferred calls.     *)
(*                                                                         *)
(* Time passes in ticks of minBackoff while a store is being opened, and   *)
(* is not counted later.                                                   *)
(***************************************************************************)
EXTENDS ClickQueue

CONSTANTS
  Roles,       \* "api", "api+worker" (WORKER_ENABLED), "worker"
  MaxBackoff,  \* maxBackoff, in ticks; minBackoff is 1
  BootWindow,  \* DefaultWindow, in ticks
  MaxOpen      \* how long one attempt to open a store may take, in ticks

ASSUME BootAssumption ==
  /\ Roles \subseteq {"api", "api+worker", "worker"}
  /\ MaxBackoff \in Nat \ {0} /\ BootWindow \in Nat \ {0} /\ MaxOpen \in Nat

VARIABLES
  role,    \* which program, and how it is configured
  stage,   \* how far main.run has come
  retry,   \* Retry: what it does, ticks since its start, delay, when that is over
  open,    \* stores that are open
  loops    \* the five worker loops

bootVars == <<role, stage, retry, open, loops>>

StoreOf == IF stage = "postgres" THEN "postgres" ELSE "redis"

FirstTry == [pc |-> "try", spent |-> 0, delay |-> 1, until |-> MaxOpen]

BootInit ==
  /\ Init
  /\ role \in Roles
  /\ stage = "postgres" /\ retry = FirstTry /\ open = {} /\ loops = "off"

Booting == stage \in {"postgres", "redis"}

-----------------------------------------------------------------------------
(* Retry. *)

\* Time passes: at most MaxOpen ticks for an attempt, delay ticks for a pause.
BootTick ==
  /\ Booting
  /\ retry.spent < retry.until
  /\ retry' = [retry EXCEPT !.spent = @ + 1]
  /\ UNCHANGED <<vars, role, stage, open, loops>>

\* The store is open: main goes on to the next one, or starts its goroutines.
Opened ==
  /\ Booting /\ retry.pc = "try"
  /\ open' = open \cup {StoreOf}
  /\ retry' = FirstTry
  /\ IF stage = "postgres" THEN stage' = "redis" /\ UNCHANGED loops
     ELSE /\ stage' = "run"
          /\ loops' = IF role = "api" THEN "off" ELSE "running"
  /\ UNCHANGED <<vars, role>>

GiveUpBoot ==
  /\ stage' = "close"
  /\ retry' = [retry EXCEPT !.pc = "failed"]
  /\ UNCHANGED <<vars, role, open, loops>>

\* An attempt failed: no other one that would begin after the window.
OpenFails_AnyPause ==
  /\ Booting /\ retry.pc = "try"
  /\ IF signalled \/ retry.spent >= BootWindow
     THEN GiveUpBoot
     ELSE /\ retry' = [retry EXCEPT !.pc = "pause", !.until = retry.spent + retry.delay]
          /\ UNCHANGED <<vars, role, stage, open, loops>>

OpenFails ==
  /\ Booting /\ retry.pc = "try"
  /\ IF signalled \/ retry.spent + retry.delay > BootWindow
     THEN GiveUpBoot
     ELSE /\ retry' = [retry EXCEPT !.pc = "pause", !.until = retry.spent + retry.delay]
          /\ UNCHANGED <<vars, role, stage, open, loops>>

NextBackoff(d) == IF d * 2 < MaxBackoff THEN d * 2 ELSE MaxBackoff

TryAgain ==
  /\ Booting /\ retry.pc = "pause" /\ retry.spent = retry.until
  /\ retry' = [retry EXCEPT !.pc = "try", !.delay = NextBackoff(retry.delay),
                            !.until = retry.spent + MaxOpen]
  /\ UNCHANGED <<vars, role, stage, open, loops>>

\* A signal ends the pause.
PauseAborted == Booting /\ retry.pc = "pause" /\ signalled /\ GiveUpBoot

-----------------------------------------------------------------------------
(* Running, and the deferred calls. *)

Serves == role # "worker"

\* The loops end when their context is cancelled: only a signal does that.
LoopsEnd ==
  /\ loops = "running" /\ signalled
  /\ loops' = "stopped"
  /\ UNCHANGED <<vars, role, stage, retry, open>>

\* run returns, and the deferred calls begin; cmd/worker waits for the signal.
Return_NoJoin ==
  /\ stage = "run"
  /\ IF Serves THEN main = "exited" ELSE signalled
  /\ stage' = "close"
  /\ UNCHANGED <<vars, role, retry, open, loops>>

Return ==
  /\ stage = "run"
  /\ IF Serves THEN main = "exited" ELSE signalled
  /\ stage' = "join"
  /\ UNCHANGED <<vars, role, retry, open, loops>>

\* Worker.Stop waits for the loops.
Join ==
  /\ stage = "join" /\ loops # "running"
  /\ stage' = "close"
  /\ UNCHANGED <<vars, role, retry, open, loops>>

\* Redis is closed first, it was opened last.
CloseStore ==
  /\ stage = "close" /\ open # {}
  /\ open' = IF "redis" \in open THEN open \ {"redis"} ELSE {}
  /\ UNCHANGED <<vars, role, stage, retry, loops>>

Leave ==
  /\ stage = "close" /\ open = {}
  /\ stage' = "gone"
  /\ UNCHANGED <<vars, role, retry, open, loops>>

-----------------------------------------------------------------------------

\* SIGTERM may come at any time; it is the same context throughout.
SignalAny == stage # "gone" /\ Signal /\ UNCHANGED bootVars

Serving ==
  /\ stage = "run" /\ Serves
  /\ \/ \E r \in Requests : Accept(r) \/ RecordClick(r) \/ Finish(r)
     \/ ListenFails \/ ServerStep \/ StopStats \/ Exit \/ Write \/ DrainTimeout
  /\ UNCHANGED bootVars

MainStep == OpenFails \/ TryAgain \/ PauseAborted \/ Return \/ Join \/ CloseStore \/ Leave

BootNext == BootTick \/ Opened \/ MainStep \/ LoopsEnd \/ SignalAny \/ Serving

BootFairSpec ==
  /\ BootInit /\ [][BootNext]_<<vars, bootVars>>
  /\ WF_<<vars, bootVars>>(BootTick)
  /\ WF_<<vars, bootVars>>(MainStep)
  /\ WF_<<vars, bootVars>>(LoopsEnd)
  /\ WF_<<vars, bootVars>>(Serving /\ ServerStep)
  /\ WF_<<vars, bootVars>>(Serving /\ StopStats)
  /\ WF_<<vars, bootVars>>(Serving /\ Exit)
  /\ WF_<<vars, bootVars>>(Serving /\ Write)

-----------------------------------------------------------------------------
(* Properties. *)

BootTypeOK ==
  /\ role \in Roles
  /\ stage \in {"postgres", "redis", "run", "join", "close", "gone"}
  /\ retry.pc \in {"try", "pause", "failed"}
  /\ retry.delay \in 1..MaxBackoff
  /\ retry.spent \in 0..retry.until
  /\ retry.until \in 0..(BootWindow + MaxOpen)
  /\ open \subseteq {"postgres", "redis"}
  /\ loops \in {"off", "running", "stopped"}

\* No attempt begins after the window, and a process that was not told to stop
\* gives up only when the longest back-off would lead out of it: the back-off
\* never shortens the wait for a store that needs almost the whole window.
UsesItsWindow ==
  /\ retry.pc = "pause" => retry.until <= BootWindow
  /\ retry.pc = "failed" /\ ~signalled => retry.spent + MaxBackoff > BootWindow

\* What holds of a process from its start on: types (of ClickQueue too) and the
\* use of the window.
BootInv == TypeOK /\ BootTypeOK /\ UsesItsWindow

\* A store is closed only when nobody in the background uses it any more: neither
\* the loops nor the writer that drains the queue.
ClosesLast ==
  ~Booting /\ retry.pc # "failed" /\ open # {"postgres", "redis"}
    => loops # "running" /\ (Serves => writer = "stopped")

\* A signal ends the process from wherever it is: waiting for a store, serving,
\* draining, or waiting for its loops.
EndsOnSignal == signalled ~> stage = "gone"

\* clicks.go:232: before Stop, the context that was passed to Start is cancelled.
CancelledBeforeStop == stage = "join" /\ loops = "running" => signalled

=============================================================================
