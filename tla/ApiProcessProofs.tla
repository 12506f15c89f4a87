------------------------- MODULE ApiProcessProofs --------------------------
(***************************************************************************)
(* Theorems about the click queue and the process around it, for every     *)
(* number of requests, every queue size and every retry window.            *)
(***************************************************************************)
EXTENDS ApiProcess, HealthProbe, FiniteSetTheorems, TLAPS

(***************************************************************************)
(* The queue: where every click is, and who may still add one.             *)
(***************************************************************************)

QueueTypes ==
  /\ req \in [Requests -> {"new", "running", "recorded", "done"}]
  /\ server \in {"serving", "shutdown", "graceful", "forced", "failed"}
  /\ writer \in {"select", "write", "drain", "drainWrite", "stopped"}
  /\ queue \in Nat /\ submitted \in Nat /\ written \in Nat
  /\ dropped \in Nat /\ failed \in Nat /\ leftover \in Nat

\* drain is the only one to leave clicks in the queue, and it is the writer's
\* last act.
LeftoverInv == writer # "stopped" => leftover = 0

\* The writer drains after Server.run has returned and main has cancelled.
OrderInv ==
  /\ cancelled => ServerReturned
  /\ writer \in {"drain", "drainWrite", "stopped"} => cancelled
  /\ main = "exited" => writer = "stopped"

\* After a graceful return nobody records a click, so what drain left is all
\* that the queue holds.
GracefulInv ==
  server = "graceful" =>
    /\ \A r \in Requests : ~Running(r)
    /\ writer = "stopped" => queue = leftover

QueueInv == QueueTypes /\ LeftoverInv /\ OrderInv /\ GracefulInv /\ EveryClickCounted

LEMMA QueueInit == Init => QueueInv
BY DEF Init, QueueInv, QueueTypes, LeftoverInv, OrderInv, GracefulInv, Running,
       EveryClickCounted, InHand

\* Handlers: they record only while they run, and run only before run returned.
LEMMA HandlerStep ==
  ASSUME QueueInv, NEW r \in Requests, Accept(r) \/ RecordClick(r) \/ Finish(r)
  PROVE  QueueInv'
<1> USE DEF QueueInv, QueueTypes, LeftoverInv, OrderInv, ServerReturned, counters
<1>1. CASE Accept(r)
  BY <1>1 DEF Accept, GracefulInv, EveryClickCounted, InHand
<1>2. CASE RecordClick(r)
  <2>1. server # "graceful"
    BY <1>2 DEF RecordClick, GracefulInv, Running
  <2>2. GracefulInv'
    BY <1>2, <2>1 DEF RecordClick, GracefulInv
  <2>3. EveryClickCounted'
    BY <1>2 DEF RecordClick, EveryClickCounted, InHand
  <2> QED
    BY <1>2, <2>2, <2>3 DEF RecordClick
<1>3. CASE Finish(r)
  <2>1. \A q \in Requests : Running(q)' => Running(q)
    BY <1>3 DEF Finish, Running
  <2> QED
    BY <1>3, <2>1 DEF Finish, GracefulInv, EveryClickCounted, InHand
<1> QED
  BY <1>1, <1>2, <1>3

\* Server.run and main touch no click.
LEMMA StopStep ==
  ASSUME QueueInv, Signal \/ ListenFails \/ ServerStep \/ StopStats \/ Exit \/ DrainTimeout
  PROVE  QueueInv'
<1> USE DEF QueueInv, QueueTypes, counters
<1>1. CASE Signal \/ DrainTimeout
  BY <1>1 DEF Signal, DrainTimeout, LeftoverInv, OrderInv, GracefulInv, ServerReturned,
              Running, EveryClickCounted, InHand
<1>2. CASE ListenFails \/ BeginShutdown \/ ShutdownTimeout
  <2>1. server' # "graceful" /\ UNCHANGED <<req, main, writer, cancelled, queue, counters>>
    BY <1>2 DEF ListenFails, BeginShutdown, ShutdownTimeout
  <2>2. ~ServerReturned /\ server' \in {"shutdown", "forced", "failed"}
    BY <1>2 DEF ListenFails, BeginShutdown, ShutdownTimeout, ServerReturned
  <2> QED
    BY <2>1, <2>2 DEF LeftoverInv, OrderInv, GracefulInv, EveryClickCounted, InHand
<1>3. CASE ShutdownDone
  <2>1. writer # "stopped"
    BY <1>3 DEF ShutdownDone, OrderInv, ServerReturned
  <2> QED
    BY <1>3, <2>1 DEF ShutdownDone, LeftoverInv, OrderInv, GracefulInv, ServerReturned,
                      Running, EveryClickCounted, InHand
<1>4. CASE StopStats \/ Exit
  BY <1>4 DEF StopStats, Exit, LeftoverInv, OrderInv, GracefulInv, ServerReturned,
              Running, EveryClickCounted, InHand
<1> QED
  BY <1>1, <1>2, <1>3, <1>4 DEF ServerStep

\* The writer moves clicks from the queue to their outcome.
LEMMA WriterStep ==
  ASSUME QueueInv, Write
  PROVE  QueueInv'
<1> USE DEF QueueInv, QueueTypes, LeftoverInv, OrderInv, GracefulInv, ServerReturned,
            Running, counters
<1>1. CASE Take
  BY <1>1 DEF Take, EveryClickCounted, InHand
<1>2. CASE WriteDone
  BY <1>2 DEF WriteDone, EveryClickCounted, InHand
<1>3. CASE BeginDrain
  BY <1>3 DEF BeginDrain, EveryClickCounted, InHand
<1>4. CASE GiveUp
  BY <1>4 DEF GiveUp, EveryClickCounted, InHand
<1>5. CASE Drained
  BY <1>5 DEF Drained, EveryClickCounted, InHand
<1> QED
  BY <1>1, <1>2, <1>3, <1>4, <1>5 DEF Write

LEMMA QueueNext == QueueInv /\ [Next]_vars => QueueInv'
<1> SUFFICES ASSUME QueueInv, [Next]_vars PROVE QueueInv'
  OBVIOUS
<1>1. CASE UNCHANGED vars
  BY <1>1 DEF vars, counters, QueueInv, QueueTypes, LeftoverInv, OrderInv, GracefulInv,
              ServerReturned, Running, EveryClickCounted, InHand
<1> QED
  BY <1>1, HandlerStep, StopStep, WriterStep DEF Next

LEMMA QueueInvariance == Spec => []QueueInv
BY QueueInit, QueueNext, PTL DEF Spec

LEMMA GracefulLeft == QueueInv => GracefulExitCountsAll
BY DEF QueueInv, QueueTypes, OrderInv, GracefulInv, GracefulExitCountsAll,
       EveryClickCounted, InHand

\* Every click handed to RecordClick is in exactly one place, for any number of
\* requests and any size of the queue.
THEOREM ClicksAreCounted == Spec => []EveryClickCounted
<1>1. QueueInv => EveryClickCounted
  BY DEF QueueInv
<1> QED
  BY QueueInvariance, <1>1, PTL

\* A graceful exit leaves no click uncounted.
THEOREM GracefulExits == Spec => []GracefulExitCountsAll
BY QueueInvariance, GracefulLeft, PTL

(***************************************************************************)
(* The bounds: no counter exceeds the number of requests, and the channel  *)
(* keeps its capacity.                                                     *)
(***************************************************************************)

\* Requests that may still hand over a click.
Waiting == {r \in Requests : req[r] \in {"new", "running"}}

\* Each request hands over at most one click.  The queue is as long as drain left
\* it, or longer; that is what keeps the outcomes below the clicks.
BoundInv ==
  /\ signalled \in BOOLEAN /\ cancelled \in BOOLEAN /\ expired \in BOOLEAN
  /\ main \in {"serving", "waiting", "exited"}
  /\ queue <= QueueSize
  /\ leftover <= queue /\ leftover <= dropped
  /\ submitted + Cardinality(Waiting) <= Cardinality(Requests)

LEMMA RequestsAreFinite ==
  /\ IsFiniteSet(Waiting) /\ Cardinality(Waiting) \in Nat
  /\ IsFiniteSet(Requests) /\ Cardinality(Requests) \in Nat
<1>1. IsFiniteSet(Requests)
  BY QueueAssumption
<1>2. Waiting \subseteq Requests
  BY DEF Waiting
<1> QED
  BY <1>1, <1>2, FS_Subset, FS_CardinalityType

LEMMA BoundStart == ASSUME Init PROVE BoundInv
<1>1. Waiting = Requests
  BY DEF Init, Waiting
<1>2. 0 + Cardinality(Waiting) <= Cardinality(Requests)
  BY <1>1, RequestsAreFinite
<1>3. submitted = 0 /\ queue = 0 /\ leftover = 0 /\ dropped = 0
  BY DEF Init
<1>4. queue <= QueueSize /\ leftover <= queue /\ leftover <= dropped
  BY <1>3, QueueAssumption
<1> QED
  BY <1>2, <1>3, <1>4 DEF Init, BoundInv

LEMMA BoundStep == ASSUME QueueInv, BoundInv, [Next]_vars PROVE BoundInv'
<1>1. QueueTypes /\ LeftoverInv
  BY DEF QueueInv
<1>2. ASSUME NEW r \in Requests, Accept(r) PROVE BoundInv'
  <2>1. Waiting' = Waiting
    BY <1>1, <1>2 DEF Accept, Waiting, QueueTypes
  <2> QED
    BY <1>2, <2>1 DEF Accept, BoundInv, counters
<1>3. ASSUME NEW r \in Requests, RecordClick(r) PROVE BoundInv'
  <2>1. PICK S : S = Waiting
    OBVIOUS
  <2>2. Waiting' = S \ {r} /\ r \in S
    BY <1>1, <1>3, <2>1 DEF RecordClick, Waiting, QueueTypes
  <2>3. Cardinality(S \ {r}) = Cardinality(S) - 1 /\ Cardinality(S) \in Nat
    BY <2>1, <2>2, RequestsAreFinite, FS_RemoveElement, FS_CardinalityType
  <2>4. submitted' = submitted + 1 /\ UNCHANGED <<signalled, cancelled, expired, main, leftover>>
    BY <1>3 DEF RecordClick
  <2>5. \/ queue < QueueSize /\ queue' = queue + 1 /\ dropped' = dropped
        \/ queue = QueueSize /\ dropped' = dropped + 1 /\ queue' = queue
    BY <1>3 DEF RecordClick
  <2>6. submitted' + Cardinality(Waiting') <= Cardinality(Requests)
    BY <1>1, <2>1, <2>2, <2>3, <2>4, RequestsAreFinite DEF BoundInv, QueueTypes
  <2>7. queue' <= QueueSize /\ leftover' <= queue' /\ leftover' <= dropped'
    BY <1>1, <2>4, <2>5, QueueAssumption DEF BoundInv, QueueTypes
  <2> QED
    BY <2>4, <2>6, <2>7 DEF BoundInv
<1>4. ASSUME NEW r \in Requests, Finish(r) PROVE BoundInv'
  <2>1. PICK S : S = Waiting
    OBVIOUS
  <2>2. PICK T : T = Waiting'
    OBVIOUS
  <2>3. T \subseteq S
    BY <1>1, <1>4, <2>1, <2>2 DEF Finish, Waiting, QueueTypes
  <2>4. Cardinality(T) <= Cardinality(S) /\ Cardinality(T) \in Nat /\ Cardinality(S) \in Nat
    <3>1. IsFiniteSet(S)
      BY <2>1, RequestsAreFinite
    <3>2. IsFiniteSet(T)
      BY <2>3, <3>1, FS_Subset
    <3> QED
      BY <2>3, <3>1, <3>2, FS_Subset, FS_CardinalityType
  <2>5. UNCHANGED <<submitted, signalled, cancelled, expired, main, leftover, queue, dropped>>
    BY <1>4 DEF Finish, counters
  <2>6. submitted + Cardinality(T) <= Cardinality(Requests)
    BY <1>1, <2>1, <2>4, RequestsAreFinite DEF BoundInv, QueueTypes
  <2>7. submitted' + Cardinality(Waiting') <= Cardinality(Requests)
    BY <2>2, <2>5, <2>6
  <2> QED
    BY <2>5, <2>7 DEF BoundInv
<1>5. ASSUME UNCHANGED <<req, submitted>>, UNCHANGED <<queue, dropped, leftover>>,
             /\ signalled' \in BOOLEAN /\ cancelled' \in BOOLEAN /\ expired' \in BOOLEAN
             /\ main' \in {"serving", "waiting", "exited"}
      PROVE  BoundInv'
  <2>1. Waiting' = Waiting
    BY <1>5 DEF Waiting
  <2> QED
    BY <1>5, <2>1 DEF BoundInv
<1>6. CASE UNCHANGED vars \/ Signal \/ ListenFails \/ ServerStep \/ StopStats \/ Exit \/ DrainTimeout \/ BeginDrain \/ Drained
  <2>1. UNCHANGED <<req, queue, submitted, dropped, leftover>>
    BY <1>6 DEF vars, counters, Signal, ListenFails, ServerStep, BeginShutdown, ShutdownDone, ShutdownTimeout,
                StopStats, Exit, DrainTimeout, BeginDrain, Drained
  <2>2. /\ signalled' \in {signalled, TRUE} /\ cancelled' \in {cancelled, TRUE} /\ expired' \in {expired, TRUE}
        /\ main' \in {main, "waiting", "exited"}
    BY <1>6 DEF vars, counters, Signal, ListenFails, ServerStep, BeginShutdown, ShutdownDone, ShutdownTimeout,
                StopStats, Exit, DrainTimeout, BeginDrain, Drained
  <2> QED
    BY <1>5, <2>1, <2>2 DEF BoundInv
<1>7. CASE Take
  <2>1. /\ queue' = queue - 1 /\ queue > 0 /\ writer # "stopped"
        /\ UNCHANGED <<req, signalled, main, cancelled, expired, submitted, dropped, leftover>>
    BY <1>7 DEF Take, counters
  <2>2. leftover = 0
    BY <1>1, <2>1 DEF LeftoverInv
  <2>3. Waiting' = Waiting
    BY <2>1 DEF Waiting
  <2>4. queue' <= QueueSize /\ leftover' <= queue' /\ leftover' <= dropped'
    BY <1>1, <2>1, <2>2, QueueAssumption DEF BoundInv, QueueTypes
  <2> QED
    BY <2>1, <2>3, <2>4 DEF BoundInv
<1>8. CASE WriteDone
  BY <1>5, <1>8 DEF WriteDone, BoundInv
<1>9. CASE GiveUp
  <2>1. /\ dropped' = dropped + queue /\ leftover' = queue
        /\ UNCHANGED <<req, queue, signalled, main, cancelled, expired, submitted>>
    BY <1>9 DEF GiveUp
  <2>2. Waiting' = Waiting
    BY <2>1 DEF Waiting
  <2>3. queue' <= QueueSize /\ leftover' <= queue' /\ leftover' <= dropped'
    BY <1>1, <2>1, QueueAssumption DEF BoundInv, QueueTypes
  <2> QED
    BY <2>1, <2>2, <2>3 DEF BoundInv
<1> QED
  BY <1>2, <1>3, <1>4, <1>6, <1>7, <1>8, <1>9 DEF Next, Write

\* What the types of the queue say follows from the count of its clicks.
LEMMA QueueTyped == ASSUME QueueInv, BoundInv PROVE TypeOK
<1>1. Cardinality(Requests) \in Nat /\ Cardinality(Waiting) \in Nat
  BY RequestsAreFinite
<1>2. queue \in Nat /\ submitted \in Nat /\ written \in Nat /\ dropped \in Nat /\ failed \in Nat /\ leftover \in Nat
  BY DEF QueueInv, QueueTypes
<1>3. InHand \in Nat /\ submitted + leftover = queue + InHand + written + dropped + failed
  BY DEF QueueInv, EveryClickCounted, InHand
<1>4. leftover <= queue /\ leftover <= dropped /\ submitted + Cardinality(Waiting) <= Cardinality(Requests)
  BY DEF BoundInv
<1>5. written + dropped + failed <= submitted /\ submitted <= Cardinality(Requests)
  BY <1>1, <1>2, <1>3, <1>4
<1>6. \A n \in {submitted, written, dropped, failed, leftover} : n \in 0..Cardinality(Requests)
  BY <1>1, <1>2, <1>4, <1>5
<1>7. queue \in 0..QueueSize
  BY <1>2, QueueAssumption DEF BoundInv
<1> QED
  BY <1>6, <1>7 DEF QueueInv, QueueTypes, BoundInv, TypeOK

\* clicks.go: each request adds at most one click, so every counter stays below the
\* number of requests, and the channel keeps its capacity.
THEOREM QueueIsTyped == Spec => []TypeOK
<1>1. Init => BoundInv
  BY BoundStart
<1>2. QueueInv /\ BoundInv /\ [Next]_vars => BoundInv'
  BY BoundStep
<1>3. QueueInv /\ BoundInv => TypeOK
  BY QueueTyped
<1> QED
  BY <1>1, <1>2, <1>3, QueueInvariance, PTL DEF Spec

(***************************************************************************)
(* The process around it is the queue with steps that leave it alone.      *)
(***************************************************************************)

LEMMA ProcessStep == [BootNext]_<<vars, bootVars>> => [Next]_vars
BY DEF BootNext, BootTick, Opened, MainStep, OpenFails, TryAgain, PauseAborted, GiveUpBoot,
       Return, Join, CloseStore, Leave, LoopsEnd, SignalAny, Serving, Next

BootSpec == BootInit /\ [][BootNext]_<<vars, bootVars>>

\* Whatever a process does from its start to its end, its queue behaves as
\* ClickQueue says.
THEOREM ProcessHasTheQueue == BootSpec => Spec
<1>1. BootInit => Init
  BY DEF BootInit
<1> QED
  BY <1>1, ProcessStep, PTL DEF BootSpec, Spec

(***************************************************************************)
(* Opening and closing.                                                    *)
(***************************************************************************)

BootTypes ==
  /\ role \in Roles
  /\ stage \in {"postgres", "redis", "run", "join", "close", "gone"}
  /\ retry \in [pc : {"try", "pause", "failed"}, spent : Nat, delay : 1..MaxBackoff, until : Nat]
  /\ retry.spent <= retry.until /\ retry.until <= BootWindow + MaxOpen
  /\ open \subseteq {"postgres", "redis"}
  /\ loops \in {"off", "running", "stopped"}

\* What is open follows from how far main has come.
OpenInv ==
  /\ stage = "postgres" => open = {}
  /\ stage = "redis" => open = {"postgres"}
  /\ stage \in {"run", "join"} => open = {"postgres", "redis"}
  /\ Booting => loops = "off"
  /\ stage \in {"run", "join"} => retry.pc # "failed"

\* When a process that has run closes its stores, main has left its writer behind
\* stopped, and the loops have been joined.
CloseInv ==
  ~Booting /\ retry.pc # "failed" =>
    /\ stage # "run" /\ Serves => main = "exited"
    /\ stage \in {"close", "gone"} => loops # "running"

BootStrong == QueueInv /\ BootTypes /\ OpenInv /\ CloseInv /\ UsesItsWindow

LEMMA BootStart == BootInit => BootStrong
<1> SUFFICES ASSUME BootInit PROVE BootStrong
  OBVIOUS
<1>1. QueueInv
  BY QueueInit DEF BootInit
<1>2. 1 \in 1..MaxBackoff
  BY BootAssumption
<1> QED
  BY <1>1, <1>2, BootAssumption
  DEF BootInit, BootStrong, FirstTry, BootTypes, OpenInv, CloseInv, UsesItsWindow, Booting

LEMMA BackoffType ==
  ASSUME NEW d \in 1..MaxBackoff
  PROVE  NextBackoff(d) \in 1..MaxBackoff
BY BootAssumption DEF NextBackoff

LEMMA BootStep == BootStrong /\ [BootNext]_<<vars, bootVars>> => BootStrong'
<1> SUFFICES ASSUME BootStrong, [BootNext]_<<vars, bootVars>> PROVE BootStrong'
  OBVIOUS
<1>0. QueueInv /\ QueueInv'
  BY ProcessStep, QueueNext DEF BootStrong
<1> USE BootAssumption DEF BootStrong, BootTypes, OpenInv, CloseInv, UsesItsWindow, Booting, Serves
<1>1. CASE BootTick
  BY <1>0, <1>1 DEF BootTick, vars
<1>2. CASE Opened
  <2>1. retry' = FirstTry /\ FirstTry.pc = "try"
        /\ FirstTry \in [pc : {"try", "pause", "failed"}, spent : Nat, delay : 1..MaxBackoff, until : Nat]
        /\ FirstTry.spent <= FirstTry.until /\ FirstTry.until <= BootWindow + MaxOpen
    BY <1>2 DEF Opened, FirstTry
  <2>2. UNCHANGED <<vars, role>>
    BY <1>2 DEF Opened
  <2>3. CASE stage = "postgres"
    <3>1. stage' = "redis" /\ open' = {"postgres"} /\ loops' = "off"
      BY <1>2, <2>3 DEF Opened, StoreOf
    <3> QED
      BY <1>0, <2>1, <2>2, <3>1
  <2>4. CASE stage = "redis"
    <3>1. stage' = "run" /\ open' = {"postgres", "redis"} /\ loops' \in {"off", "running"}
      BY <1>2, <2>4 DEF Opened, StoreOf
    <3> QED
      BY <1>0, <2>1, <2>2, <3>1
  <2> QED
    BY <1>2, <2>3, <2>4 DEF Opened
<1>3. CASE OpenFails
  <2>1. UNCHANGED <<vars, role, open, loops>>
    BY <1>3 DEF OpenFails, GiveUpBoot
  <2>2. CASE signalled \/ retry.spent + retry.delay > BootWindow
    <3>1. stage' = "close" /\ retry' = [retry EXCEPT !.pc = "failed"]
      BY <1>3, <2>2 DEF OpenFails, GiveUpBoot
    <3>2. signalled' = signalled
      BY <2>1 DEF vars
    <3>3. ~signalled => retry.spent + MaxBackoff > BootWindow
      BY <2>2
    <3> QED
      BY <1>0, <2>1, <3>1, <3>2, <3>3
  <2>3. CASE ~(signalled \/ retry.spent + retry.delay > BootWindow)
    <3>1. /\ retry' = [retry EXCEPT !.pc = "pause", !.until = retry.spent + retry.delay]
          /\ stage' = stage
      BY <1>3, <2>3 DEF OpenFails
    <3>2. /\ retry'.pc = "pause" /\ retry'.until = retry.spent + retry.delay
          /\ retry.spent + retry.delay \in Nat /\ retry.spent + retry.delay <= BootWindow
      BY <2>3, <3>1
    <3>3. retry' \in [pc : {"try", "pause", "failed"}, spent : Nat, delay : 1..MaxBackoff, until : Nat]
      BY <3>1, <3>2
    <3>4. Booting
      BY <1>3 DEF OpenFails
    <3> QED
      BY <1>0, <2>1, <3>1, <3>2, <3>3, <3>4
  <2> QED
    BY <2>2, <2>3
<1>4. CASE TryAgain
  <2>1. /\ retry' = [retry EXCEPT !.pc = "try", !.delay = NextBackoff(retry.delay),
                                  !.until = retry.spent + MaxOpen]
        /\ UNCHANGED <<vars, role, stage, open, loops>> /\ Booting
    BY <1>4 DEF TryAgain
  <2>2. NextBackoff(retry.delay) \in 1..MaxBackoff /\ retry.spent + MaxOpen \in Nat
    BY BackoffType
  <2>3. /\ retry'.pc = "try"
        /\ retry' \in [pc : {"try", "pause", "failed"}, spent : Nat, delay : 1..MaxBackoff, until : Nat]
    BY <2>1, <2>2
  <2>4. retry'.spent = retry.spent /\ retry'.until = retry.spent + MaxOpen
    BY <2>1
  <2>5. retry.spent <= BootWindow
    BY <1>4 DEF TryAgain
  <2>6. retry'.spent <= retry'.until /\ retry'.until <= BootWindow + MaxOpen
    BY <2>4, <2>5
  <2> QED
    BY <1>0, <2>1, <2>3, <2>6
<1>5. CASE PauseAborted
  BY <1>0, <1>5 DEF PauseAborted, GiveUpBoot, vars
<1>6. CASE Return
  BY <1>0, <1>6 DEF Return, vars
<1>7. CASE Join
  BY <1>0, <1>7 DEF Join, vars
<1>8. CASE CloseStore
  BY <1>0, <1>8 DEF CloseStore, vars
<1>9. CASE Leave
  BY <1>0, <1>9 DEF Leave, vars
<1>10. CASE LoopsEnd
  BY <1>0, <1>10 DEF LoopsEnd, vars
<1>11. CASE SignalAny
  BY <1>0, <1>11 DEF SignalAny, Signal, bootVars
<1>12. CASE Serving
  <2>1. UNCHANGED bootVars /\ signalled' \in {signalled, TRUE} /\ stage = "run"
    BY <1>12 DEF Serving, Accept, RecordClick, Finish, ListenFails, ServerStep, BeginShutdown,
                 ShutdownDone, ShutdownTimeout, StopStats, Exit, Write, Take, WriteDone,
                 BeginDrain, GiveUp, Drained, DrainTimeout
  <2> QED
    BY <1>0, <2>1 DEF bootVars
<1>13. CASE UNCHANGED <<vars, bootVars>>
  BY <1>0, <1>13 DEF vars, bootVars
<1> QED
  BY <1>1, <1>2, <1>3, <1>4, <1>5, <1>6, <1>7, <1>8, <1>9, <1>10, <1>11, <1>12, <1>13
  DEF BootNext, MainStep

LEMMA BootInvariance == BootSpec => []BootStrong
BY BootStart, BootStep, PTL DEF BootSpec

\* The stores are closed under nobody: neither the writer nor the loops.
THEOREM StoresCloseLast == BootSpec => []ClosesLast
<1>1. BootStrong => ClosesLast
  BY DEF BootStrong, QueueInv, OrderInv, OpenInv, CloseInv, ClosesLast, BootTypes, Booting, Serves
<1> QED
  BY BootInvariance, <1>1, PTL

\* No attempt begins after the window; a process that nobody stopped gives up only
\* when the longest back-off would lead out of it.
THEOREM WindowIsUsed == BootSpec => []UsesItsWindow
<1>1. BootStrong => UsesItsWindow
  BY DEF BootStrong
<1> QED
  BY BootInvariance, <1>1, PTL

\* What holds of a process from its start on: the types of the queue and of the
\* retry, and the use of the window.
THEOREM ProcessIsTyped == BootSpec => []BootInv
<1>1. BootStrong => BootTypeOK /\ UsesItsWindow
  <2>1. SUFFICES ASSUME BootStrong PROVE BootTypeOK /\ UsesItsWindow
    OBVIOUS
  <2>2. /\ retry.pc \in {"try", "pause", "failed"} /\ retry.delay \in 1..MaxBackoff
        /\ retry.spent \in Nat /\ retry.until \in Nat
        /\ retry.spent <= retry.until /\ retry.until <= BootWindow + MaxOpen
    BY <2>1 DEF BootStrong, BootTypes
  <2>3. retry.spent \in 0..retry.until /\ retry.until \in 0..(BootWindow + MaxOpen)
    BY <2>2, BootAssumption
  <2> QED
    BY <2>1, <2>2, <2>3 DEF BootStrong, BootTypes, BootTypeOK
<1>2. BootSpec => []TypeOK
  BY ProcessHasTheQueue, QueueIsTyped, PTL
<1>3. TypeOK /\ BootTypeOK /\ UsesItsWindow => BootInv
  BY DEF BootInv
<1> QED
  BY <1>1, <1>2, <1>3, BootInvariance, PTL

(***************************************************************************)
(* The probe.  What is still to be called has its full share of the time   *)
(* that is left, so a probe that fails names a dependency that failed it.  *)
(***************************************************************************)

LEMMA AfterEach ==
  /\ After("postgres") = "redis" /\ After("redis") = "length"
  /\ After("length") = "pending" /\ After("pending") = "reported"
<1>1. /\ Calls[1] = "postgres" /\ Calls[2] = "redis" /\ Calls[3] = "length" /\ Calls[4] = "pending"
      /\ Calls[5] = "reported"
  BY DEF Calls
<1>2. (CHOOSE i \in 1..4 : Calls[i] = "postgres") = 1
  BY <1>1
<1>3. (CHOOSE i \in 1..4 : Calls[i] = "redis") = 2
  BY <1>1
<1>4. (CHOOSE i \in 1..4 : Calls[i] = "length") = 3
  BY <1>1
<1>5. (CHOOSE i \in 1..4 : Calls[i] = "pending") = 4
  BY <1>1
<1> QED
  BY <1>1, <1>2, <1>3, <1>4, <1>5 DEF After

Asking == {"postgres", "redis", "length", "pending"}

LEMMA CallsAreKnown == Range(Calls) = Asking \cup {"reported"}
<1>1. DOMAIN Calls = 1..5
  BY DEF Calls
<1>2. \A i \in 1..5 : i = 1 \/ i = 2 \/ i = 3 \/ i = 4 \/ i = 5
  OBVIOUS
<1>3. /\ Calls[1] = "postgres" /\ Calls[2] = "redis" /\ Calls[3] = "length" /\ Calls[4] = "pending"
      /\ Calls[5] = "reported"
  BY DEF Calls
<1> QED
  BY <1>1, <1>2, <1>3 DEF Range, Asking

\* The ticks that were gone when the call began, at most.
Spent(call) ==
  IF call = "postgres" THEN 0
  ELSE ProbeTimeout + (CASE call = "redis" -> 0 [] call = "length" -> 1
                         [] call = "pending" -> 2 [] OTHER -> 3) * RedisTimeout

Limit(call) == IF call = "postgres" THEN ProbeTimeout ELSE RedisTimeout

LEMMA Limits ==
  ASSUME NEW call \in Asking
  PROVE  /\ Budget(call) = Limit(call) /\ Budget(call) \in Nat /\ Budget(call) <= ProbeTimeout
         /\ Spent(call) \in Nat /\ Spent(After(call)) = Spent(call) + Limit(call)
         /\ Spent(call) + Limit(call) <= ProbeTimeout + 3 * RedisTimeout
<1>1. ProbeTimeout \in Nat /\ RedisTimeout \in Nat /\ RedisTimeout <= ProbeTimeout
  BY ProbeAssumption
<1>2. Least(ProbeTimeout, RedisTimeout) = RedisTimeout
  BY <1>1 DEF Least
<1>3. CASE call = "postgres"
  BY <1>1, <1>3, AfterEach DEF Budget, Limit, Spent
<1>4. CASE call = "redis"
  BY <1>1, <1>2, <1>4, AfterEach DEF Budget, Limit, Spent
<1>5. CASE call = "length"
  BY <1>1, <1>2, <1>5, AfterEach DEF Budget, Limit, Spent
<1>6. CASE call = "pending"
  BY <1>1, <1>2, <1>6, AfterEach DEF Budget, Limit, Spent
<1> QED
  BY <1>3, <1>4, <1>5, <1>6 DEF Asking

Healths == {"up", "refuses", "hangs"}

ProbeStrong ==
  /\ health \in [Dependencies -> Healths] /\ turns \in 0..MaxTurns
  /\ probing \in Asking \cup {"reported"} /\ began \in Nat /\ elapsed \in Nat
  /\ began <= elapsed /\ began <= Spent(probing)
  /\ IF probing = "reported" THEN elapsed = began ELSE elapsed - began <= Budget(probing)
  /\ verdict \in [Dependencies -> {"ok", "error"}]
  /\ why \in [Dependencies -> [down : BOOLEAN, took : 0..ProbeTimeout]]
  /\ BlamesTheRightOne

LEMMA ProbeStarts == ASSUME ProbeInit PROVE ProbeStrong
<1>1. Budget("postgres") \in Nat /\ Spent("postgres") \in Nat
  BY Limits DEF Asking
<1>2. why \in [Dependencies -> [down : BOOLEAN, took : 0..ProbeTimeout]]
  BY ProbeAssumption DEF ProbeInit, NeverFailed
<1> QED
  BY <1>1, <1>2, ProbeAssumption DEF ProbeInit, ProbeStrong, Asking, Healths, BlamesTheRightOne

\* A call is over and the next one begins.
LEMMA NextCall ==
  ASSUME ProbeStrong, probing # "reported", Continue
  PROVE  /\ health' \in [Dependencies -> Healths] /\ turns' \in 0..MaxTurns
         /\ probing' \in Asking \cup {"reported"} /\ began' \in Nat /\ elapsed' \in Nat
         /\ began' <= elapsed' /\ began' <= Spent(probing')
         /\ IF probing' = "reported" THEN elapsed' = began' ELSE elapsed' - began' <= Budget(probing')
<1>1. probing \in Asking
  BY DEF ProbeStrong
<1>2. /\ Budget(probing) = Limit(probing) /\ Budget(probing) \in Nat /\ Spent(probing) \in Nat
      /\ Spent(After(probing)) = Spent(probing) + Limit(probing)
  BY <1>1, Limits
<1>3. After(probing) \in Asking \cup {"reported"}
  BY <1>1, AfterEach DEF Asking
<1>4. After(probing) \in Asking => Budget(After(probing)) \in Nat
  BY Limits
<1>5. /\ probing' = After(probing) /\ began' = elapsed /\ UNCHANGED <<health, turns, elapsed>>
  BY DEF Continue
<1>6. Spent(probing') = Spent(After(probing)) /\ Budget(probing') = Budget(After(probing))
  BY <1>5 DEF Spent, Budget
<1> QED
  BY <1>2, <1>3, <1>4, <1>5, <1>6 DEF ProbeStrong

LEMMA AnswersStep == ASSUME ProbeStrong, Answers PROVE ProbeStrong'
BY NextCall DEF Answers, ProbeStrong, BlamesTheRightOne

LEMMA FailsStep == ASSUME ProbeStrong, Fails PROVE ProbeStrong'
<1>1. probing \in Asking /\ Continue
  BY DEF ProbeStrong, Fails
<1>2. PICK d : d = probing
  OBVIOUS
<1>3. CASE d \in Dependencies
  <2>1. Budget(d) = Limit(d) /\ Budget(d) \in Nat /\ Budget(d) <= ProbeTimeout
    BY <1>1, <1>2, Limits
  <2>2. PICK w : w = [down |-> health[d] # "up", took |-> elapsed - began]
    OBVIOUS
  <2>3. verdict' = [verdict EXCEPT ![d] = "error"] /\ why' = [why EXCEPT ![d] = w]
    BY <1>2, <1>3, <2>2 DEF Fails
  <2>4. elapsed - began \in 0..ProbeTimeout
    BY <1>1, <1>2, <2>1, ProbeAssumption DEF ProbeStrong, Asking
  <2>5. w \in [down : BOOLEAN, took : 0..ProbeTimeout] /\ w.took = elapsed - began
    BY <2>2, <2>4
  <2>6. w.down \/ w.took >= Limit(d)
    <3>1. CASE health[d] = "refuses"
      BY <2>2, <3>1
    <3>2. CASE ~InTime
      BY <1>2, <2>1, <2>4, <2>5, <3>2 DEF InTime
    <3>3. Dependency(d) = d
      BY <1>3 DEF Dependency, Dependencies
    <3> QED
      BY <1>2, <3>1, <3>2, <3>3 DEF Fails
  <2>7. BlamesTheRightOne'
    <3>1. SUFFICES ASSUME NEW x \in Dependencies, verdict'[x] = "error"
                   PROVE  why'[x].down \/ why'[x].took >= Limit(x)
      BY DEF BlamesTheRightOne, Limit
    <3>2. CASE x = d
      BY <2>3, <2>6, <3>2, <1>3 DEF ProbeStrong
    <3>3. CASE x # d
      BY <2>3, <3>1, <3>3 DEF ProbeStrong, BlamesTheRightOne, Limit
    <3> QED
      BY <3>2, <3>3
  <2>8. /\ verdict' \in [Dependencies -> {"ok", "error"}]
        /\ why' \in [Dependencies -> [down : BOOLEAN, took : 0..ProbeTimeout]]
    BY <2>3, <2>5 DEF ProbeStrong
  <2> QED
    BY <1>1, <2>7, <2>8, NextCall DEF ProbeStrong, Fails
<1>4. CASE d \notin Dependencies
  <2>1. UNCHANGED <<verdict, why>>
    BY <1>2, <1>4 DEF Fails
  <2> QED
    BY <1>1, <2>1, NextCall DEF ProbeStrong, Fails, BlamesTheRightOne
<1> QED
  BY <1>3, <1>4

LEMMA ProbeTickStep == ASSUME ProbeStrong, ProbeTick PROVE ProbeStrong'
<1>1. probing \in Asking /\ probing # "reported" /\ elapsed' = elapsed + 1 /\ elapsed - began < Budget(probing)
      /\ UNCHANGED <<health, turns, probing, began, verdict, why>>
  BY DEF ProbeStrong, ProbeTick, InTime
<1>2. Budget(probing) \in Nat
  BY <1>1, Limits
<1>3. Spent(probing)' = Spent(probing) /\ Budget(probing)' = Budget(probing)
  BY <1>1 DEF Spent, Budget
<1> QED
  BY <1>1, <1>2, <1>3 DEF ProbeStrong, BlamesTheRightOne

LEMMA TurnStep ==
  ASSUME ProbeStrong, NEW d \in Dependencies, NEW h \in Healths, Turn(d, h) PROVE ProbeStrong'
<1>1. /\ turns' = turns + 1 /\ turns < MaxTurns /\ health' = [health EXCEPT ![d] = h]
      /\ UNCHANGED <<probing, elapsed, began, verdict, why>>
  BY DEF Turn
<1>2. Spent(probing)' = Spent(probing) /\ Budget(probing)' = Budget(probing)
  BY <1>1 DEF Spent, Budget
<1>3. turns' \in 0..MaxTurns /\ health' \in [Dependencies -> Healths]
  BY <1>1, ProbeAssumption DEF ProbeStrong
<1> QED
  BY <1>1, <1>2, <1>3 DEF ProbeStrong, BlamesTheRightOne

\* The inductive invariant of a report.
THEOREM ProbeInvariant == ProbeSpec => []ProbeStrong
<1>1. ProbeInit => ProbeStrong
  BY ProbeStarts
<1>2. ProbeStrong /\ [ProbeNext]_probeVars => ProbeStrong'
  <2>1. ASSUME ProbeStrong, UNCHANGED probeVars PROVE ProbeStrong'
    <3>1. UNCHANGED <<health, turns, probing, elapsed, began, verdict, why>>
      BY <2>1 DEF probeVars
    <3>2. Spent(probing)' = Spent(probing) /\ Budget(probing)' = Budget(probing)
      BY <3>1 DEF Spent, Budget
    <3> QED
      BY <2>1, <3>1, <3>2 DEF ProbeStrong, BlamesTheRightOne
  <2> QED
    BY <2>1, AnswersStep, FailsStep, ProbeTickStep, TurnStep DEF ProbeNext, Healths
<1> QED
  BY <1>1, <1>2, PTL DEF ProbeSpec

LEMMA ReportIsQuick == ASSUME ProbeStrong PROVE elapsed <= ProbeTimeout + 3 * RedisTimeout
<1>1. ProbeTimeout \in Nat /\ RedisTimeout \in Nat
  BY ProbeAssumption
<1>2. CASE probing \in Asking
  <2>1. Budget(probing) = Limit(probing) /\ Budget(probing) \in Nat /\ Spent(probing) \in Nat
        /\ Spent(probing) + Limit(probing) <= ProbeTimeout + 3 * RedisTimeout
    BY <1>2, Limits
  <2> QED
    BY <1>1, <1>2, <2>1 DEF ProbeStrong, Asking
<1>3. CASE probing = "reported"
  <2>1. Spent(probing) = ProbeTimeout + 3 * RedisTimeout
    BY <1>3 DEF Spent
  <2> QED
    BY <1>1, <1>3, <2>1 DEF ProbeStrong
<1> QED
  BY <1>2, <1>3 DEF ProbeStrong

\* cmd/api/main.go, Report: as long as the limits of its calls fit into the limit of
\* the container's check, the report is there in time, and what it calls broken was.
THEOREM ProbeIsFair ==
  ASSUME ProbeTimeout + 3 * RedisTimeout < CheckLimit
  PROVE  ProbeSpec => []ProbeInv
<1>1. ASSUME ProbeStrong PROVE ProbeInv
  <2>1. elapsed \in Nat /\ elapsed <= ProbeTimeout + 3 * RedisTimeout /\ began \in 0..elapsed
    BY <1>1, ReportIsQuick DEF ProbeStrong
  <2>2. ProbeTypeOK
    BY <1>1, <2>1, CallsAreKnown, ProbeAssumption DEF ProbeTypeOK, ProbeStrong, Healths
  <2>3. ReportsInTime
    BY <2>1, ProbeAssumption DEF ReportsInTime
  <2> QED
    BY <1>1, <2>2, <2>3 DEF ProbeInv, ProbeStrong
<1> QED
  BY <1>1, ProbeInvariant, PTL

=============================================================================
