----------------------------- MODULE ClickQueue ----------------------------
(***************************************************************************)
(* The API process's bounded click queue and its shutdown: redirect        *)
(* handlers put a click into the queue after the response, one writer      *)
(* sends clicks to Redis, and main stops HTTP first and the writer second, *)
(* which then drains what is left.                                         *)
(*                                                                         *)
(* Clicks are counted, not named: a queue is its length.                   *)
(***************************************************************************)
EXTENDS Naturals, FiniteSets

CONSTANTS
  Requests,   \* redirect requests of the run
  QueueSize   \* capacity of the channel

ASSUME QueueAssumption == QueueSize \in Nat \ {0} /\ IsFiniteSet(Requests)

VARIABLES
  req,        \* state of each request
  signalled,  \* SIGTERM was received
  server,     \* Server.run
  main,       \* main's shutdown sequence
  writer,     \* the writer goroutine
  cancelled,  \* statsCtx is cancelled
  expired,    \* drainTimeout is over
  queue,      \* length of the channel
  submitted,  \* RecordClick calls
  written, dropped, failed,  \* outcomes; the last two are the code's counters
  leftover    \* history: queue length counted as dropped when drain gave up

counters == <<submitted, written, dropped, failed, leftover>>
vars == <<req, signalled, server, main, writer, cancelled, expired, queue, counters>>

Init ==
  /\ req       = [r \in Requests |-> "new"]
  /\ signalled = FALSE
  /\ server    = "serving"
  /\ main      = "serving"
  /\ writer    = "select"
  /\ cancelled = FALSE
  /\ expired   = FALSE
  /\ queue     = 0
  /\ submitted = 0
  /\ written   = 0
  /\ dropped   = 0
  /\ failed    = 0
  /\ leftover  = 0

Alive == main # "exited"

Running(r) == req[r] \in {"running", "recorded"}

(***************************************************************************)
(* Handlers.  Closing a connection does not stop its handler.              *)
(***************************************************************************)

Accept(r) ==
  /\ server = "serving"
  /\ req[r] = "new"
  /\ req' = [req EXCEPT ![r] = "running"]
  /\ UNCHANGED <<signalled, server, main, writer, cancelled, expired, queue, counters>>

RecordClick_Uncounted(r) ==
  /\ Alive
  /\ req[r] = "running"
  /\ req' = [req EXCEPT ![r] = "recorded"]
  /\ submitted' = submitted + 1
  /\ queue' = IF queue < QueueSize THEN queue + 1 ELSE queue
  /\ UNCHANGED <<signalled, server, main, writer, cancelled, expired,
                 written, dropped, failed, leftover>>

RecordClick(r) ==
  /\ Alive
  /\ req[r] = "running"
  /\ req' = [req EXCEPT ![r] = "recorded"]
  /\ submitted' = submitted + 1
  /\ \/ queue < QueueSize /\ queue' = queue + 1 /\ UNCHANGED dropped
     \/ queue = QueueSize /\ dropped' = dropped + 1 /\ UNCHANGED queue
  /\ UNCHANGED <<signalled, server, main, writer, cancelled, expired,
                 written, failed, leftover>>

\* The handler returns; only some requests record a click.
Finish(r) ==
  /\ Alive
  /\ Running(r)
  /\ req' = [req EXCEPT ![r] = "done"]
  /\ UNCHANGED <<signalled, server, main, writer, cancelled, expired, queue, counters>>

(***************************************************************************)
(* Server.run and main.                                                    *)
(***************************************************************************)

Signal ==
  /\ ~signalled
  /\ signalled' = TRUE
  /\ UNCHANGED <<req, server, main, writer, cancelled, expired, queue, counters>>

BeginShutdown ==
  /\ server = "serving"
  /\ signalled
  /\ server' = "shutdown"
  /\ UNCHANGED <<req, signalled, main, writer, cancelled, expired, queue, counters>>

\* Shutdown returns nil: no request is left.
ShutdownDone ==
  /\ server = "shutdown"
  /\ \A r \in Requests : ~Running(r)
  /\ server' = "graceful"
  /\ UNCHANGED <<req, signalled, main, writer, cancelled, expired, queue, counters>>

\* Shutdown times out: Close cuts the connections and run returns.
ShutdownTimeout ==
  /\ server = "shutdown"
  /\ \E r \in Requests : Running(r)
  /\ server' = "forced"
  /\ UNCHANGED <<req, signalled, main, writer, cancelled, expired, queue, counters>>

\* Accept fails: run returns the error without any Shutdown.
ListenFails ==
  /\ server = "serving"
  /\ server' = "failed"
  /\ UNCHANGED <<req, signalled, main, writer, cancelled, expired, queue, counters>>

ServerReturned == server \in {"graceful", "forced", "failed"}

\* stopStats, then Stop waits for the writer.
StopStats_OnSignal ==
  /\ main = "serving"
  /\ signalled
  /\ cancelled' = TRUE
  /\ main' = "waiting"
  /\ UNCHANGED <<req, signalled, server, writer, expired, queue, counters>>

StopStats_WaitOnly ==
  /\ main = "serving"
  /\ ServerReturned
  /\ main' = "waiting"
  /\ UNCHANGED <<req, signalled, server, writer, cancelled, expired, queue, counters>>

StopStats ==
  /\ main = "serving"
  /\ ServerReturned
  /\ cancelled' = TRUE
  /\ main' = "waiting"
  /\ UNCHANGED <<req, signalled, server, writer, expired, queue, counters>>

Exit ==
  /\ main = "waiting"
  /\ writer = "stopped"
  /\ ServerReturned
  /\ main' = "exited"
  /\ UNCHANGED <<req, signalled, server, writer, cancelled, expired, queue, counters>>

(***************************************************************************)
(* The writer goroutine: select, write, and drain after cancellation.      *)
(***************************************************************************)

\* The select may choose either case when both are ready.
Take ==
  /\ writer \in {"select", "drain"}
  /\ writer = "drain" => ~expired
  /\ queue > 0
  /\ queue'  = queue - 1
  /\ writer' = IF writer = "select" THEN "write" ELSE "drainWrite"
  /\ UNCHANGED <<req, signalled, server, main, cancelled, expired, counters>>

WriteDone ==
  /\ writer \in {"write", "drainWrite"}
  /\ \/ written' = written + 1 /\ UNCHANGED failed
     \/ failed'  = failed + 1  /\ UNCHANGED written
  /\ writer' = IF writer = "write" THEN "select" ELSE "drain"
  /\ UNCHANGED <<req, signalled, server, main, cancelled, expired, queue,
                 submitted, dropped, leftover>>

BeginDrain ==
  /\ writer = "select"
  /\ cancelled
  /\ writer' = "drain"
  /\ UNCHANGED <<req, signalled, server, main, cancelled, expired, queue, counters>>

DrainTimeout ==
  /\ writer \in {"drain", "drainWrite"}
  /\ ~expired
  /\ expired' = TRUE
  /\ UNCHANGED <<req, signalled, server, main, writer, cancelled, queue, counters>>

\* What is left when drainTimeout is over is counted as dropped.
GiveUp ==
  /\ writer = "drain"
  /\ expired
  /\ dropped'  = dropped + queue
  /\ leftover' = queue
  /\ writer'   = "stopped"
  /\ UNCHANGED <<req, signalled, server, main, cancelled, expired, queue,
                 submitted, written, failed>>

Drained ==
  /\ writer = "drain"
  /\ ~expired
  /\ queue = 0
  /\ writer' = "stopped"
  /\ UNCHANGED <<req, signalled, server, main, cancelled, expired, queue, counters>>

Write == Take \/ WriteDone \/ BeginDrain \/ GiveUp \/ Drained

(***************************************************************************)
(* The specification.                                                      *)
(***************************************************************************)

ServerStep == BeginShutdown \/ ShutdownDone \/ ShutdownTimeout

Next ==
  \/ \E r \in Requests : Accept(r) \/ RecordClick(r) \/ Finish(r)
  \/ Signal \/ ListenFails \/ ServerStep \/ StopStats \/ Exit
  \/ Write \/ DrainTimeout

Spec == Init /\ [][Next]_vars

(***************************************************************************)
(* Properties.                                                             *)
(***************************************************************************)

\* Every variable has its type, and the channel keeps its capacity.
TypeOK ==
  /\ req       \in [Requests -> {"new", "running", "recorded", "done"}]
  /\ signalled \in BOOLEAN
  /\ server    \in {"serving", "shutdown", "graceful", "forced", "failed"}
  /\ main      \in {"serving", "waiting", "exited"}
  /\ writer    \in {"select", "write", "drain", "drainWrite", "stopped"}
  /\ cancelled \in BOOLEAN
  /\ expired   \in BOOLEAN
  /\ queue     \in 0..QueueSize
  /\ \A n \in {submitted, written, dropped, failed, leftover} : n \in 0..Cardinality(Requests)

InHand == IF writer \in {"write", "drainWrite"} THEN 1 ELSE 0

\* Each click handed to RecordClick is queued, in the writer's hand, written,
\* or in exactly one of droppedClicks and failedClicks, across overflow,
\* failed writes and both ways a drain ends.
EveryClickCounted ==
  submitted + leftover = queue + InHand + written + dropped + failed

\* After a graceful stop no click is missing from the counters: requests
\* that were in flight when the signal came are drained or counted.
GracefulExitCountsAll ==
  main = "exited" /\ server = "graceful" => submitted = written + dropped + failed

\* server.go:61: run waits for in-flight requests before it returns, so
\* the drain does not run early.
DrainWaitsForRequests ==
  cancelled => \A r \in Requests : ~Running(r)

============================================================================
