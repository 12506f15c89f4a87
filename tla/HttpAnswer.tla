----------------------------- MODULE HttpAnswer -----------------------------
(***************************************************************************)
(* One request between its arrival and its answer: the error of a store    *)
(* operation on its way to a status, and the calls of the handler on their *)
(* way through the writers that the middlewares put around one another,    *)
(*                                                                         *)
(*   Recover > RequestID > AccessLog > CORS > APIErrorContract > ServeMux  *)
(*                                                                         *)
(* A handler answers by WriteJSON or makes calls of its own; ServeMux      *)
(* answers unknown paths and methods itself, in plain text; anything may   *)
(* panic.  A response is what reached the connection.                      *)
(***************************************************************************)
EXTENDS Naturals, Sequences

CONSTANTS
  Attempts,        \* shortcode.MaxAttempts
  MaxCalls         \* bound: calls a handler makes on its own

ASSUME AnswerAssumption == Attempts \in Nat \ {0} /\ MaxCalls \in Nat

VARIABLES
  ask,      \* the request: in /api or not, and where ServeMux sends it
  at,       \* how far it has come
  tried,    \* Create: unique violations so far
  failure,  \* history: the operation and what the driver answered, or NoFailure
  calls,    \* calls the handler made on its own
  out,      \* the response and the state of the writers around it
  logged    \* status in the access log, 0 while there is no entry

answerVars == <<ask, at, tried, failure, calls, out, logged>>

-----------------------------------------------------------------------------
(* Errors. *)

\* What the driver answers: no row, a failure without SQLSTATE (dial, timeout,
\* cancelled), or one with an SQLSTATE.
DriverErrors == {"no rows", "no sqlstate", "08006", "53300", "57P01", "57014",
                 "40001", "23505", "23514", "23503"}

\* The classes 08 and 53, and three codes of class 57.
PgUnavailableCode(e) == e \in {"08006", "53300", "57P01"}

\* Errors are the set of marks that errors.Is and errors.AsType find in them.
StorageError(e) ==
  IF e = "no rows" THEN {"no rows"}
  ELSE IF e # "no sqlstate" /\ ~PgUnavailableCode(e) THEN {e}
  ELSE {"unavailable", e}

MapWriteError(e) ==
  CASE e = "23505" -> {"conflict"}
    [] e = "23514" -> {"invalid"}
    [] OTHER -> StorageError(e)

\* Operations: a read by key, a write of a row by key, an insert with a name the
\* client chose, and one with a generated code.
Operations == {"get", "update", "insert", "generate"}

ErrorOf(op, e) ==
  IF e = "no rows" THEN {"not found"}
  ELSE IF op = "get" THEN StorageError(e) ELSE MapWriteError(e)

CanFail(op, e) ==
  /\ op \in {"insert", "generate"} => e # "no rows"
  /\ op = "get" => e \notin {"23505", "23514", "23503"}
  /\ op = "update" => e \notin {"23505", "23503"}

JSON == "json"
Text == "text"
NoFailure == [op |-> "none", error |-> "none"]

\* WriteDomainError: its order is its precedence.
StatusOf_ConflictFirst(marks) ==
  IF "invalid" \in marks THEN 422
  ELSE IF "conflict" \in marks THEN 409
  ELSE IF "unavailable" \in marks THEN 503
  ELSE IF "not found" \in marks THEN 404
  ELSE 500

StatusOf(marks) ==
  IF "invalid" \in marks THEN 422
  ELSE IF "unavailable" \in marks THEN 503
  ELSE IF "not found" \in marks THEN 404
  ELSE IF "conflict" \in marks THEN 409
  ELSE 500

-----------------------------------------------------------------------------
(* Writers, from the connection outwards.                                  *)

NoHeader == [type |-> "none", retry |-> FALSE]
Nothing == [header |-> NoHeader, status |-> 0, sent |-> NoHeader, body |-> <<>>,
            recorded |-> 200, wrote |-> FALSE, decided |-> FALSE, swallow |-> FALSE]

\* net/http: the first head counts, and a body has one in any case.
NetHead(x, status) ==
  IF x.status # 0 THEN x ELSE [x EXCEPT !.status = status, !.sent = x.header]
NetWrite(x, chunk) == [NetHead(x, 200) EXCEPT !.body = Append(@, chunk)]

\* statusRecorder of AccessLog.
Record(x, status) == IF x.wrote THEN x ELSE [x EXCEPT !.recorded = status, !.wrote = TRUE]

RecHead(x, status) == NetHead(Record(x, status), status)
RecWrite(x, chunk) == NetWrite(Record(x, IF x.wrote THEN x.recorded ELSE 200), chunk)

\* WriteJSON on each of them: the header, the head, the whole body.
AsJSON(x) == [x EXCEPT !.header.type = JSON]
RecJSON(x, status) == RecWrite(RecHead(AsJSON(x), status), JSON)
NetJSON(x, status) == NetWrite(NetHead(AsJSON(x), status), JSON)

IsBareMuxError(x, status) == status \in {404, 405} /\ x.header.type = Text

\* apiErrorWriter.
ContractHead(x, status) ==
  LET first == [x EXCEPT !.decided = TRUE]
  IN  CASE x.decided /\ x.swallow -> x
        [] x.decided /\ ~x.swallow -> RecHead(x, status)
        [] ~x.decided /\ IsBareMuxError(x, status) ->
             RecJSON([first EXCEPT !.swallow = TRUE], status)
        [] OTHER -> RecHead(first, status)

ContractWrite(x, chunk) ==
  IF x.swallow THEN x ELSE RecWrite([x EXCEPT !.decided = TRUE], chunk)

\* What a handler's calls do: the contract is in the way under /api only.
WriteHeader(x, status) == IF ask.api THEN ContractHead(x, status) ELSE RecHead(x, status)
WriteBody(x, chunk) == IF ask.api THEN ContractWrite(x, chunk) ELSE RecWrite(x, chunk)
WriteJSON(x, status) == WriteBody(WriteHeader(AsJSON(x), status), JSON)

-----------------------------------------------------------------------------
(* Steps. *)

\* CORS answers a preflight under /api itself; ServeMux finds a handler or not.
Dispatch ==
  /\ at = "arrived"
  /\ CASE ask.route = "preflight" -> at' = "returned" /\ out' = RecHead(out, 204)
       [] ask.route = "handler"   -> at' = "handler" /\ UNCHANGED out
       [] OTHER -> at' = "mux" /\ out' = WriteHeader([out EXCEPT !.header.type = Text],
                                                   IF ask.route = "no path" THEN 404 ELSE 405)
  /\ UNCHANGED <<ask, tried, failure, calls, logged>>

MuxText ==
  /\ at = "mux"
  /\ at' = "returned" /\ out' = WriteBody(out, Text)
  /\ UNCHANGED <<ask, tried, failure, calls, logged>>

Succeed ==
  /\ at = "handler" /\ calls = 0
  /\ at' = "returned" /\ out' = WriteJSON(out, 200)
  /\ UNCHANGED <<ask, tried, failure, calls, logged>>

\* WriteDomainError.
Reply(marks) ==
  /\ at' = "returned"
  /\ LET status == StatusOf(marks)
     IN  out' = WriteJSON([out EXCEPT !.header.retry = @ \/ status = 503], status)

\* An operation fails.  Create with a generated code tries again after a unique
\* violation, and in the end reports both marks.
OperationFails(op, e) ==
  /\ at = "handler" /\ calls = 0 /\ CanFail(op, e)
  /\ tried > 0 => op = "generate"
  /\ LET again == op = "generate" /\ e = "23505"
     IN  /\ tried' = IF again THEN tried + 1 ELSE tried
         /\ IF again /\ tried' < Attempts
            THEN UNCHANGED <<at, out, failure>>
            ELSE /\ failure' = [op |-> op, error |-> e]
                 /\ Reply(IF again THEN {"unavailable", "conflict"} ELSE ErrorOf(op, e))
  /\ UNCHANGED <<ask, calls, logged>>

\* A handler that writes on its own: pages, pictures, metrics.
OwnCall ==
  /\ at = "handler" /\ tried = 0 /\ calls < MaxCalls
  /\ calls' = calls + 1
  /\ \/ \E status \in {200, 404, 500} : out' = WriteHeader([out EXCEPT !.header.type = "page"], status)
     \/ out' = WriteBody(out, "page")
  /\ UNCHANGED <<ask, at, tried, failure, logged>>

OwnEnd ==
  /\ at = "handler" /\ calls > 0
  /\ at' = "returned"
  /\ UNCHANGED <<ask, tried, failure, calls, out, logged>>

\* Recover answers on the writer it was given, the outermost one; AccessLog has
\* no deferred call and writes no entry.
Panic ==
  /\ at = "handler"
  /\ at' = "done" /\ out' = NetJSON(out, 500)
  /\ UNCHANGED <<ask, tried, failure, calls, logged>>

\* The chain returns: AccessLog writes its entry, net/http a head if there is none.
Return ==
  /\ at = "returned"
  /\ at' = "done" /\ logged' = out.recorded /\ out' = NetHead(out, 200)
  /\ UNCHANGED <<ask, tried, failure, calls>>

AnswerInit ==
  /\ ask \in [api : BOOLEAN, route : {"handler", "no path", "no method", "preflight"}]
  /\ ask.route = "preflight" => ask.api
  /\ at = "arrived" /\ tried = 0 /\ failure = NoFailure /\ calls = 0
  /\ out = Nothing /\ logged = 0

AnswerNext ==
  \/ Dispatch \/ MuxText \/ Succeed \/ OwnCall \/ OwnEnd \/ Panic \/ Return
  \/ \E op \in Operations, e \in DriverErrors : OperationFails(op, e)

AnswerSpec == AnswerInit /\ [][AnswerNext]_answerVars

-----------------------------------------------------------------------------
(* Properties. *)

AnswerTypeOK ==
  /\ ask \in [api : BOOLEAN, route : {"handler", "no path", "no method", "preflight"}]
  /\ at \in {"arrived", "mux", "handler", "returned", "done"}
  /\ tried \in 0..Attempts /\ calls \in 0..MaxCalls
  /\ out.status \in {0, 200, 204, 404, 405, 409, 422, 500, 503}
  /\ \A i \in DOMAIN out.body : out.body[i] \in {JSON, Text, "page"}
  /\ logged \in {0, 200, 204, 404, 405, 409, 422, 500, 503}

\* Failures that pass by themselves: the server could not be reached, was going
\* down, or was out of resources.
Passing == {"no sqlstate", "08006", "53300", "57P01"}

\* A client is told to try again, with a Retry-After, exactly where it may help:
\* the database was not available, or no free code was drawn.  A client that chose
\* no code is never told that it is taken.
RetryOnlyIfItHelps ==
  at = "done" /\ failure # NoFailure =>
    LET helps == failure.error \in Passing \/ failure = [op |-> "generate", error |-> "23505"]
    IN  /\ (out.status = 503) <=> helps
        /\ out.sent.retry <=> helps
        /\ failure.op = "generate" => out.status # 409

\* Under /api, whoever answers an unknown path or a wrong method: status and body
\* are of one piece, a single JSON body.
ApiErrorsAreJSON ==
  at = "done" /\ ask.api /\ ask.route \in {"no path", "no method"} =>
    /\ out.body = <<JSON>> /\ out.sent.type = JSON
    /\ out.status = IF ask.route = "no path" THEN 404 ELSE 405

\* The access log has the status that the client got, in whatever order a handler
\* calls its writer.
LogIsTrue == logged # 0 => logged = out.status

\* What status, headers, body and access log of one response tell.
AnswerInv == AnswerTypeOK /\ RetryOnlyIfItHelps /\ ApiErrorsAreJSON /\ LogIsTrue

=============================================================================
