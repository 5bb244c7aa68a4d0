-------------------------- MODULE RequestLifecycle --------------------------
(***************************************************************************)
(* RequestIdMiddleware (entrypoints/http/middlewares): one HTTP request    *)
(* with its correlation id, the response on its way to the client, the     *)
(* error response in place of one that never began, and the final record   *)
(* of the request.                                                         *)
(*                                                                         *)
(* Inside runs the application, which may raise, begin a second response   *)
(* or send nothing (a response of the framework that has begun and raises  *)
(* no error ends with its last part, here the only one).  Outside,         *)
(* Starlette's ServerErrorMiddleware answers with a bare 500 what leaves   *)
(* this middleware as an error before a response began.  The client may go *)
(* away and the server may cancel the request at every await.              *)
(***************************************************************************)
EXTENDS Integers, Sequences

CONSTANTS
    Statuses,   \* statuses the application answers with
    SafeIds,    \* ids that _is_valid accepts
    Headers,    \* lists of X-Request-Id values a client may send
    Generated,  \* the id that the generator returns
    None

ASSUME StatusesAssumption == Statuses \subseteq 100..599
ASSUME IdsAssumption == Generated \in SafeIds /\ None \notin SafeIds
ASSUME NoneAssumption == None \notin {"error", "cancelled"}

VARIABLES
    pc,        \* where __call__ is
    sender,    \* who awaits send: the application or the error response
    message,   \* what is being sent
    id,        \* the id of the request
    response,  \* HttpResponseState
    complete,  \* the sender has sent the last part of a response
    raised,    \* how __call__ ends: None, "error" or "cancelled"
    client,    \* "connected" or "gone"
    outer,     \* ServerErrorMiddleware has seen a response begin
    wire,      \* what reached the client
    records    \* what the observer was told

middleware == <<pc, sender, message, id, response, complete, raised>>
vars == <<middleware, client, outer, wire, records>>

Start(status) == [type |-> "start", status |-> status, id |-> id]
Body == [type |-> "body", status |-> 0, id |-> None]

Init ==
    /\ pc = "idle"
    /\ sender = "app"
    /\ message = None
    /\ id = None
    /\ response = [status_code |-> 500, response_started |-> FALSE, failed |-> FALSE,
                   client_disconnected |-> FALSE]
    /\ complete = FALSE
    /\ raised = None
    /\ client = "connected"
    /\ outer = FALSE
    /\ wire = <<>>
    /\ records = <<>>

-----------------------------------------------------------------------------
(* HttpResponseState                                                       *)

MarkFailure(r) ==
    [r EXCEPT !.failed = TRUE,
              !.status_code = IF r.response_started THEN @ ELSE 500]

\* Mutant of Started: a failure is forgotten when the error response starts.
StartedAfresh(r, status) ==
    [r EXCEPT !.response_started = TRUE, !.status_code = status, !.failed = FALSE]

Started(r, status) ==
    [r EXCEPT !.response_started = TRUE, !.status_code = status,
              !.failed = @ \/ status >= 500]

MarkDisconnected(r) == [r EXCEPT !.failed = TRUE, !.client_disconnected = TRUE]

-----------------------------------------------------------------------------
(* RequestIdMiddleware                                                     *)

\* A single safe value is propagated, everything else replaced.
Resolve(values) ==
    IF Len(values) = 1 /\ values[1] \in SafeIds THEN values[1] ELSE Generated

Begin ==
    /\ pc = "idle"
    /\ \E values \in Headers : id' = Resolve(values)
    /\ pc' = "run"
    /\ records' = Append(records, [event |-> "started"])
    /\ UNCHANGED <<sender, message, response, complete, raised, client, outer, wire>>

\* An exception that __call__ does not send a response for.
Leave(how) == raised' = how /\ pc' = "finish"

\* Mutant of HandleError: an error response is sent in any case.
HandleErrorAlways(r) ==
    /\ response' = MarkFailure(r)
    /\ sender' = "error" /\ complete' = FALSE /\ pc' = "run"
    /\ records' = Append(records, [event |-> "failed"])
    /\ UNCHANGED raised

\* except Exception: the error response takes the place of a response that has
\* not begun.  An error of the error response itself is not handled.
HandleError(r) ==
    /\ response' = MarkFailure(r)
    /\ IF r.client_disconnected \/ sender = "error"
       THEN /\ Leave("error")
            /\ records' = IF r.client_disconnected
                          THEN Append(records, [event |-> "disconnected"]) ELSE records
            /\ UNCHANGED <<sender, complete>>
       ELSE /\ records' = Append(records, [event |-> "failed"])
            /\ IF r.response_started THEN Leave("error") /\ UNCHANGED <<sender, complete>>
               ELSE sender' = "error" /\ pc' = "run" /\ UNCHANGED <<complete, raised>>

\* send_with_request_id up to the await: a start is noted before it is sent.
SendStart(status) ==
    /\ pc = "run"
    /\ sender = "error" => status = 500 /\ ~response.response_started
    /\ IF response.response_started
       THEN HandleError(MarkFailure(response)) /\ UNCHANGED <<message, outer>>
       ELSE /\ response' = Started(response, status)
            /\ message' = Start(status)
            /\ outer' = TRUE
            /\ pc' = "send"
            /\ UNCHANGED <<sender, complete, raised, records>>
    /\ UNCHANGED <<id, client, wire>>

SendBody ==
    /\ pc = "run"
    /\ response.response_started /\ ~complete
    /\ message' = Body
    /\ complete' = TRUE
    /\ pc' = "send"
    /\ UNCHANGED <<sender, id, response, raised, client, outer, wire, records>>

Reaches == wire' = IF client = "connected" THEN Append(wire, message) ELSE wire

\* The await returns.
Sent ==
    /\ pc = "send"
    /\ Reaches
    /\ pc' = "run"
    /\ UNCHANGED <<sender, message, id, response, complete, raised, client, outer, records>>

\* OSError: the client is gone.
SendFails ==
    /\ pc = "send" /\ client = "gone"
    /\ HandleError(MarkDisconnected(response))
    /\ UNCHANGED <<message, id, client, outer, wire>>

\* The application raises, before, during or after its response.
Raises ==
    /\ pc = "run" /\ sender = "app"
    /\ HandleError(response)
    /\ UNCHANGED <<message, id, client, outer, wire>>

\* Mutant of Returns: a missing response is not noticed.
ReturnsUnchecked ==
    /\ pc = "run"
    /\ complete \/ ~response.response_started
    /\ pc' = "finish"
    /\ UNCHANGED <<message, sender, complete, response, raised, records, id, client, outer, wire>>

\* The application or the error response returns; an application that has sent
\* nothing is an error.
Returns ==
    /\ pc = "run"
    /\ complete \/ (sender = "app" /\ ~response.response_started)
    /\ IF response.response_started
       THEN /\ pc' = "finish"
            /\ UNCHANGED <<sender, complete, response, raised, records>>
       ELSE HandleError(response)
    /\ UNCHANGED <<message, id, client, outer, wire>>

\* CancelledError at an await; what was being sent may be on its way.
Cancelled ==
    /\ pc \in {"run", "send"}
    /\ response' = MarkFailure(response)
    /\ Leave("cancelled")
    /\ \/ pc = "send" /\ Reaches
       \/ UNCHANGED wire
    /\ UNCHANGED <<sender, message, id, complete, client, outer, records>>

\* finally: the one record of how the request ended.
Finish ==
    /\ pc = "finish"
    /\ LET r == IF response.response_started THEN response ELSE MarkFailure(response) IN
       /\ response' = r
       /\ records' = Append(records, [event |-> "finished", status |-> r.status_code,
                                      failed |-> r.failed, left |-> r.client_disconnected])
    /\ pc' = "left"
    /\ UNCHANGED <<sender, message, id, complete, raised, client, outer, wire>>

-----------------------------------------------------------------------------
(* Around the middleware.                                                  *)

\* ServerErrorMiddleware
OuterAnswers ==
    /\ pc = "left"
    /\ pc' = "done"
    /\ wire' = IF raised = "error" /\ ~outer /\ client = "connected"
               THEN wire \o <<[type |-> "start", status |-> 500, id |-> None], Body>>
               ELSE wire
    /\ UNCHANGED <<sender, message, id, response, complete, raised, client, outer, records>>

ClientLeaves ==
    /\ client = "connected" /\ pc \notin {"idle", "done"}
    /\ client' = "gone"
    /\ UNCHANGED <<middleware, outer, wire, records>>

Next ==
    \/ Begin
    \/ \E status \in Statuses \cup {500} : SendStart(status)
    \/ SendBody \/ Sent \/ SendFails \/ Raises \/ Returns \/ Cancelled
    \/ Finish \/ OuterAnswers \/ ClientLeaves

Spec == Init /\ [][Next]_vars

-----------------------------------------------------------------------------
(* Properties.                                                             *)

\* The client gets at most one response, head first, and the head carries the
\* id under which the request was logged, whoever raises, sends twice or is
\* cancelled, and although two middlewares may answer an error.
OneResponse ==
    /\ Len(wire) <= 2
    /\ Len(wire) >= 1 => wire[1].type = "start" /\ wire[1].id = id
    /\ Len(wire) = 2 => wire[2].type = "body"

\* Every request leaves one final record.  Its status is the one the client
\* saw, and it tells of success only if a whole response below 500 was sent and
\* nothing was raised.
RecordIsHonest ==
    pc \in {"left", "done"} =>
        LET n == Len(records)
            last == records[n]
        IN  /\ n > 0 /\ \A m \in 1..n : (records[m].event = "finished") <=> (m = n)
            /\ wire # <<>> => wire[1].status = last.status
            /\ ~last.failed => /\ complete /\ raised = None /\ last.status < 500
                               /\ client = "connected" => Len(wire) = 2

\* A client that stayed, and whose request the server did not cancel, has been
\* told how its request ended.
StayingClientAnswered ==
    (pc = "done" /\ client = "connected" /\ raised # "cancelled") => wire # <<>>
=============================================================================
