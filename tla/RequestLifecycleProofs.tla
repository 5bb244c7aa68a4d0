----------------------- MODULE RequestLifecycleProofs -----------------------
(***************************************************************************)
(* RequestLifecycle for every set of statuses and ids: one response, an    *)
(* honest record, and no client left without an answer.                    *)
(***************************************************************************)
EXTENDS RequestLifecycle, SequenceTheorems, TLAPS

\* The head of the response that this middleware sends.
FirstPart == Start(response.status_code)

ResponseType ==
    [status_code : 100..599, response_started : BOOLEAN, failed : BOOLEAN,
     client_disconnected : BOOLEAN]

LifecycleTypes ==
    /\ pc \in {"idle", "run", "send", "finish", "left", "done"}
    /\ sender \in {"app", "error"}
    /\ response \in ResponseType
    /\ complete \in BOOLEAN
    /\ raised \in {None, "error", "cancelled"}
    /\ client \in {"connected", "gone"}

\* What is on the wire follows the head in this order, as far as the client
\* was there; what is being sent comes next.
WireInv ==
    /\ outer = response.response_started
    /\ complete => response.response_started
    /\ wire \in {<<>>, <<FirstPart>>, <<FirstPart, Body>>}
    /\ ~response.response_started => wire = <<>> /\ pc # "send"
    /\ pc = "send" => \/ message = FirstPart /\ wire = <<>> /\ ~complete
                      \/ /\ message = Body /\ complete
                         /\ wire = <<FirstPart>> \/ (wire = <<>> /\ client = "gone")
    /\ (pc = "run" /\ response.response_started) =>
           \/ client = "gone" /\ (complete \/ wire \in {<<>>, <<FirstPart>>})
           \/ wire = IF complete THEN <<FirstPart, Body>> ELSE <<FirstPart>>

\* How __call__ ends.
EndInv ==
    /\ pc \in {"idle", "run", "send"} => raised = None /\ ~response.client_disconnected
    /\ pc = "idle" => /\ sender = "app" /\ ~response.response_started /\ ~response.failed
    /\ sender = "error" => response.failed
    /\ response.response_started /\ response.status_code >= 500 => response.failed
    /\ raised # None => response.failed
    /\ pc \in {"finish", "left", "done"} =>
           /\ raised = None => complete /\ (wire = <<FirstPart, Body>> \/ client = "gone")
           /\ raised = "error" => /\ response.response_started
                                  /\ wire # <<>> \/ client = "gone"

FinalRecord ==
    [event |-> "finished", status |-> response.status_code,
     failed |-> response.failed, left |-> response.client_disconnected]

RecordInv ==
    /\ records \in Seq([event : {"started", "failed", "disconnected"}]
                       \cup [event : {"finished"}, status : 100..599,
                             failed : BOOLEAN, left : BOOLEAN])
    /\ pc \in {"idle", "run", "send", "finish"} =>
           \A m \in 1..Len(records) : records[m].event # "finished"
    /\ pc \in {"left", "done"} =>
           /\ Len(records) > 0
           /\ records[Len(records)] = FinalRecord
           /\ \A m \in 1..Len(records) : (records[m].event = "finished") <=> (m = Len(records))

LifecycleInv == LifecycleTypes /\ WireInv /\ EndInv /\ RecordInv

-----------------------------------------------------------------------------
\* The fields of a response may have any values of their types.
LEMMA FreshResponse ==
    ASSUME NEW status \in 100..599
    PROVE  [status_code |-> status, response_started |-> FALSE, failed |-> FALSE,
            client_disconnected |-> FALSE] \in ResponseType
BY DEF ResponseType

\* MarkFailure and MarkDisconnected keep a response a response, and change
\* nothing but the two flags and the status of a response that has not begun.
LEMMA MarkFailureKeeps ==
    ASSUME NEW r \in ResponseType
    PROVE  /\ MarkFailure(r) \in ResponseType
           /\ MarkFailure(r).response_started = r.response_started
           /\ MarkFailure(r).failed = TRUE
           /\ MarkFailure(r).client_disconnected = r.client_disconnected
           /\ r.response_started => MarkFailure(r).status_code = r.status_code
<1>1. PICK status \in 100..599 :
        /\ MarkFailure(r) = [r EXCEPT !.failed = TRUE, !.status_code = status]
        /\ r.response_started => status = r.status_code
  <2>1. CASE r.response_started = TRUE
    BY <2>1 DEF MarkFailure, ResponseType
  <2>2. CASE r.response_started = FALSE
    <3>1. 500 \in 100..599
      OBVIOUS
    <3>2. MarkFailure(r) = [r EXCEPT !.failed = TRUE, !.status_code = 500]
      BY <2>2 DEF MarkFailure, ResponseType
    <3>3. QED
      BY <2>2, <3>1, <3>2
  <2>3. QED
    BY <2>1, <2>2 DEF ResponseType
<1>2. MarkFailure(r) \in ResponseType
  <2>1. [r EXCEPT !.failed = TRUE, !.status_code = status] \in ResponseType
    BY DEF ResponseType
  <2>2. QED
    BY <1>1, <2>1, Zenon
<1>3. QED
  BY <1>1, <1>2 DEF ResponseType

LEMMA MarkDisconnectedKeeps ==
    ASSUME NEW r \in ResponseType
    PROVE  /\ MarkDisconnected(r) \in ResponseType
           /\ MarkDisconnected(r).response_started = r.response_started
           /\ MarkDisconnected(r).failed = TRUE
           /\ MarkDisconnected(r).client_disconnected = TRUE
           /\ MarkDisconnected(r).status_code = r.status_code
BY DEF MarkDisconnected, ResponseType

LEMMA StartedKeeps ==
    ASSUME NEW r \in ResponseType, NEW status \in 100..599
    PROVE  /\ Started(r, status) \in ResponseType
           /\ Started(r, status).response_started = TRUE
           /\ Started(r, status).client_disconnected = r.client_disconnected
           /\ Started(r, status).status_code = status
           /\ (r.failed \/ status >= 500) => Started(r, status).failed = TRUE
<1>1. PICK f \in BOOLEAN :
        /\ Started(r, status) = [r EXCEPT !.response_started = TRUE,
                                          !.status_code = status, !.failed = f]
        /\ (r.failed \/ status >= 500) => f = TRUE
  BY DEF Started, ResponseType
<1>2. Started(r, status) \in ResponseType
  <2>1. [r EXCEPT !.response_started = TRUE, !.status_code = status, !.failed = f]
            \in ResponseType
    BY DEF ResponseType
  <2>2. QED
    BY <1>1, <2>1, Zenon
<1>3. QED
  BY <1>1, <1>2 DEF ResponseType

LEMMA LifecycleInit == Init => LifecycleInv
<1> SUFFICES ASSUME Init PROVE LifecycleInv
  OBVIOUS
<1>1. LifecycleTypes
  <2>1. 500 \in 100..599
    OBVIOUS
  <2>2. response \in ResponseType
    BY <2>1, FreshResponse DEF Init
  <2>3. QED
    BY <2>2 DEF Init, LifecycleTypes
<1>2. WireInv
  BY DEF Init, WireInv
<1>3. EndInv
  BY DEF Init, EndInv
<1>4. RecordInv
  BY DEF Init, RecordInv
<1>5. QED
  BY <1>1, <1>2, <1>3, <1>4 DEF LifecycleInv

-----------------------------------------------------------------------------
\* An element that is no final record, appended where there is none yet.
LEMMA AppendNote ==
    ASSUME RecordInv, pc \in {"idle", "run", "send"},
           NEW e \in {"started", "failed", "disconnected"},
           pc' \in {"run", "send", "finish"},
           records' = Append(records, [event |-> e])
    PROVE  RecordInv'
BY DEF RecordInv

\* A step within the request that tells the observer nothing.
LEMMA NoNote ==
    ASSUME RecordInv, pc \in {"idle", "run", "send"}, pc' \in {"run", "send", "finish"},
           records' = records
    PROVE  RecordInv'
BY DEF RecordInv

\* The handler of an error leaves nothing behind that the invariant forbids: a
\* response that has begun keeps its status, and an error is only passed on when
\* one has begun.
LEMMA HandleErrorKeeps ==
    ASSUME LifecycleInv, pc \in {"run", "send"},
           NEW r \in ResponseType,
           r.response_started = response.response_started,
           r.response_started => r.status_code = response.status_code,
           r.client_disconnected => client = "gone" /\ r.response_started,
           pc = "send" => r.client_disconnected,
           sender = "error" => r.client_disconnected,
           HandleError(r), UNCHANGED <<message, id, client, outer, wire>>
    PROVE  LifecycleInv'
<1>1. /\ response' \in ResponseType
      /\ response'.response_started = r.response_started
      /\ response'.failed = TRUE
      /\ response'.client_disconnected = r.client_disconnected
      /\ r.response_started => response'.status_code = r.status_code
  BY MarkFailureKeeps DEF HandleError
<1>2. response.response_started => FirstPart' = FirstPart
  BY <1>1 DEF FirstPart, Start
<1>3. \/ /\ pc' = "finish" /\ raised' = "error" /\ r.response_started
         /\ UNCHANGED <<sender, complete>>
      \/ /\ pc' = "run" /\ pc = "run" /\ sender' = "error" /\ ~r.response_started
         /\ ~r.client_disconnected
         /\ UNCHANGED <<complete, raised>>
  BY DEF HandleError, Leave
<1>4. LifecycleTypes'
  BY <1>1, <1>3 DEF LifecycleInv, LifecycleTypes
<1>5. WireInv'
  BY <1>1, <1>2, <1>3 DEF LifecycleInv, WireInv
<1>6. EndInv'
  <2>1. CASE pc' = "finish" /\ raised' = "error" /\ r.response_started
    <3>1. wire # <<>> \/ client = "gone"
      BY <2>1 DEF LifecycleInv, WireInv
    <3>2. QED
      BY <1>1, <2>1, <3>1, NoneAssumption DEF EndInv
  <2>2. CASE /\ pc' = "run" /\ pc = "run" /\ sender' = "error" /\ ~r.response_started
             /\ ~r.client_disconnected /\ UNCHANGED <<complete, raised>>
    BY <1>1, <2>2 DEF LifecycleInv, EndInv
  <2>3. QED
    BY <1>3, <2>1, <2>2
<1>7. RecordInv'
  BY <1>3, AppendNote, NoNote DEF HandleError, LifecycleInv
<1>8. QED
  BY <1>4, <1>5, <1>6, <1>7 DEF LifecycleInv

-----------------------------------------------------------------------------
\* The parts of a response as they reach the wire.
LEMMA WireGrows ==
    ASSUME NEW a, NEW b
    PROVE  /\ Append(<<>>, a) = <<a>>
           /\ Append(<<a>>, b) = <<a, b>>
<1>1. Append(<<>>, a) = <<a>>
  OBVIOUS
<1>2. <<a>> \in Seq({a, b}) /\ <<a, b>> \in Seq({a, b}) /\ b \in {a, b}
  OBVIOUS
<1>3. /\ Append(<<a>>, b) \in Seq({a, b})
      /\ Len(Append(<<a>>, b)) = 2
      /\ Append(<<a>>, b)[1] = a /\ Append(<<a>>, b)[2] = b
  BY <1>2, AppendProperties
<1>4. \A i \in 1..2 : Append(<<a>>, b)[i] = <<a, b>>[i]
  BY <1>3
<1>5. Append(<<a>>, b) = <<a, b>>
  BY <1>2, <1>3, <1>4, SeqEqual
<1>6. QED
  BY <1>1, <1>5

LEMMA WireLengths ==
    ASSUME NEW a, NEW b
    PROVE  /\ Len(<<>>) = 0
           /\ Len(<<a>>) = 1 /\ <<a>>[1] = a
           /\ Len(<<a, b>>) = 2 /\ <<a, b>>[1] = a /\ <<a, b>>[2] = b
OBVIOUS

LEMMA LifecycleStep == LifecycleInv /\ [Next]_vars => LifecycleInv'
<1> SUFFICES ASSUME LifecycleInv, [Next]_vars PROVE LifecycleInv'
  OBVIOUS
<1> USE DEF LifecycleInv
<1>1. CASE Begin
  <2>1. response' = response /\ raised' = raised /\ pc = "idle" /\ pc' = "run"
    BY <1>1 DEF Begin
  <2>2. LifecycleTypes'
    BY <1>1 DEF Begin, LifecycleTypes
  <2>3. WireInv'
    BY <1>1 DEF Begin, WireInv, EndInv
  <2>4. EndInv'
    BY <1>1 DEF Begin, EndInv
  <2>5. RecordInv'
    BY <1>1, AppendNote DEF Begin
  <2>6. QED
    BY <2>2, <2>3, <2>4, <2>5
<1>2. ASSUME NEW status \in Statuses \cup {500}, SendStart(status) PROVE LifecycleInv'
  <2>1. CASE response.response_started
    <3>1. response \in ResponseType
      BY DEF LifecycleTypes
    <3>2. HandleError(MarkFailure(response)) /\ sender # "error" /\ pc = "run"
      BY <1>2, <2>1 DEF SendStart
    <3>3. ~response.client_disconnected
      BY <3>2 DEF EndInv
    <3>4. UNCHANGED <<message, id, client, outer, wire>>
      BY <1>2, <2>1 DEF SendStart
    <3>5. /\ MarkFailure(response) \in ResponseType
          /\ MarkFailure(response).response_started = response.response_started
          /\ MarkFailure(response).client_disconnected = response.client_disconnected
          /\ MarkFailure(response).status_code = response.status_code
      BY <2>1, <3>1, MarkFailureKeeps
    <3>6. QED
      BY <3>2, <3>3, <3>4, <3>5, HandleErrorKeeps
  <2>2. CASE ~response.response_started
    <3>1. status \in 100..599
      BY StatusesAssumption
    <3>2. /\ response' = Started(response, status) /\ message' = Start(status)
          /\ outer' = TRUE /\ pc = "run" /\ pc' = "send"
          /\ UNCHANGED <<sender, complete, raised, records, id, client, wire>>
      BY <1>2, <2>2 DEF SendStart
    <3>3. /\ response' \in ResponseType
          /\ response'.response_started = TRUE
          /\ response'.client_disconnected = response.client_disconnected
          /\ response'.status_code = status
          /\ (response.failed \/ status >= 500) => response'.failed = TRUE
      <4>1. response \in ResponseType
        BY DEF LifecycleTypes
      <4>2. /\ Started(response, status) \in ResponseType
            /\ Started(response, status).response_started = TRUE
            /\ Started(response, status).client_disconnected = response.client_disconnected
            /\ Started(response, status).status_code = status
            /\ (response.failed \/ status >= 500) => Started(response, status).failed = TRUE
        BY <3>1, <4>1, StartedKeeps, Zenon
      <4>3. QED
        BY <3>2, <4>2, Zenon
    <3>4. message' = FirstPart'
      BY <3>2, <3>3 DEF FirstPart, Start
    <3>5. LifecycleTypes'
      BY <3>2, <3>3 DEF LifecycleTypes
    <3>6. WireInv'
      BY <2>2, <3>2, <3>3, <3>4 DEF WireInv
    <3>7. EndInv'
      BY <3>2, <3>3 DEF EndInv
    <3>8. RecordInv'
      BY <3>2, NoNote
    <3>9. QED
      BY <3>5, <3>6, <3>7, <3>8
  <2>3. QED
    BY <2>1, <2>2
<1>3. CASE SendBody
  <2>1. FirstPart' = FirstPart
    BY <1>3 DEF SendBody, FirstPart, Start
  <2>2. LifecycleTypes'
    BY <1>3 DEF SendBody, LifecycleTypes
  <2>3. WireInv'
    BY <1>3, <2>1 DEF SendBody, WireInv
  <2>4. EndInv'
    BY <1>3, <2>1 DEF SendBody, EndInv
  <2>5. RecordInv'
    BY <1>3, NoNote DEF SendBody
  <2>6. QED
    BY <2>2, <2>3, <2>4, <2>5
<1>4. CASE Sent
  <2>1. FirstPart' = FirstPart
    BY <1>4 DEF Sent, FirstPart, Start
  <2>2. LifecycleTypes'
    BY <1>4 DEF Sent, LifecycleTypes
  <2>3. WireInv'
    <3>1. /\ pc = "send" /\ pc' = "run"
          /\ wire' = IF client = "connected" THEN Append(wire, message) ELSE wire
          /\ UNCHANGED <<message, response, complete, client, outer>>
      BY <1>4 DEF Sent, Reaches
    <3>2. CASE message = FirstPart /\ wire = <<>> /\ ~complete
      BY <2>1, <3>1, <3>2, WireGrows DEF WireInv, LifecycleTypes
    <3>3. CASE /\ message = Body /\ complete
               /\ wire = <<FirstPart>> \/ (wire = <<>> /\ client = "gone")
      BY <2>1, <3>1, <3>3, WireGrows DEF WireInv, LifecycleTypes
    <3>4. QED
      BY <3>1, <3>2, <3>3 DEF WireInv
  <2>4. EndInv'
    BY <1>4, <2>1 DEF Sent, EndInv
  <2>5. RecordInv'
    BY <1>4, NoNote DEF Sent
  <2>6. QED
    BY <2>2, <2>3, <2>4, <2>5
<1>5. CASE SendFails
  <2>1. /\ pc = "send" /\ client = "gone" /\ HandleError(MarkDisconnected(response))
        /\ UNCHANGED <<message, id, client, outer, wire>>
    BY <1>5 DEF SendFails
  <2>2. response \in ResponseType /\ response.response_started
    BY <2>1 DEF LifecycleTypes, WireInv
  <2>3. QED
    BY <2>1, <2>2, MarkDisconnectedKeeps, HandleErrorKeeps
<1>6. CASE Raises
  <2>1. /\ pc = "run" /\ sender # "error" /\ HandleError(response)
        /\ UNCHANGED <<message, id, client, outer, wire>>
    BY <1>6 DEF Raises
  <2>2. response \in ResponseType /\ ~response.client_disconnected
    BY <2>1 DEF LifecycleTypes, EndInv
  <2>3. QED
    BY <2>1, <2>2, HandleErrorKeeps
<1>7. CASE Returns
  <2>1. CASE ~response.response_started
    <3>1. /\ pc = "run" /\ sender # "error" /\ HandleError(response)
          /\ UNCHANGED <<message, id, client, outer, wire>>
      BY <1>7, <2>1 DEF Returns, WireInv
    <3>2. response \in ResponseType /\ ~response.client_disconnected
      BY <3>1 DEF LifecycleTypes, EndInv
    <3>3. QED
      BY <3>1, <3>2, HandleErrorKeeps
  <2>2. CASE response.response_started
    <3>1. /\ pc = "run" /\ pc' = "finish" /\ complete
          /\ UNCHANGED <<sender, message, id, response, complete, raised, client, outer,
                         wire, records>>
      BY <1>7, <2>2 DEF Returns
    <3>2. FirstPart' = FirstPart
      BY <3>1 DEF FirstPart, Start
    <3>3. LifecycleTypes'
      BY <3>1 DEF LifecycleTypes
    <3>4. WireInv'
      BY <3>1, <3>2 DEF WireInv
    <3>5. EndInv'
      BY <2>2, <3>1, <3>2, NoneAssumption DEF EndInv, WireInv
    <3>6. RecordInv'
      BY <3>1, NoNote
    <3>7. QED
      BY <3>3, <3>4, <3>5, <3>6
  <2>3. QED
    BY <2>1, <2>2
<1>8. CASE Cancelled
  <2>1. /\ pc \in {"run", "send"} /\ pc' = "finish" /\ raised' = "cancelled"
        /\ response' = MarkFailure(response)
        /\ UNCHANGED <<sender, message, id, complete, client, outer, records>>
    BY <1>8 DEF Cancelled, Leave
  <2>2. /\ response' \in ResponseType
        /\ response'.response_started = response.response_started
        /\ response'.failed = TRUE
        /\ response.response_started => response'.status_code = response.status_code
    BY <2>1, MarkFailureKeeps DEF LifecycleTypes
  <2>3. response.response_started => FirstPart' = FirstPart
    BY <2>1, <2>2 DEF FirstPart, Start
  <2>4. LifecycleTypes'
    BY <2>1, <2>2 DEF LifecycleTypes
  <2>5. WireInv'
    <3>1. \/ wire' = wire
          \/ pc = "send" /\ client = "connected" /\ wire' = Append(wire, message)
      BY <1>8 DEF Cancelled, Reaches
    <3>2. CASE wire' = wire
      BY <2>1, <2>2, <2>3, <3>2 DEF WireInv
    <3>3. CASE pc = "send" /\ client = "connected" /\ wire' = Append(wire, message)
      <4>1. response.response_started
        BY <3>3 DEF WireInv
      <4>2. wire' \in {<<FirstPart>>, <<FirstPart, Body>>}
        BY <3>3, WireGrows DEF WireInv
      <4>3. QED
        BY <2>1, <2>2, <2>3, <3>3, <4>1, <4>2 DEF WireInv
    <3>4. QED
      BY <3>1, <3>2, <3>3
  <2>6. EndInv'
    BY <2>1, <2>2, NoneAssumption DEF EndInv
  <2>7. RecordInv'
    BY <2>1, NoNote
  <2>8. QED
    BY <2>4, <2>5, <2>6, <2>7
<1>9. CASE Finish
  <2> DEFINE r == IF response.response_started THEN response ELSE MarkFailure(response)
  <2>1. /\ pc = "finish" /\ pc' = "left" /\ response' = r
        /\ records' = Append(records, [event |-> "finished", status |-> r.status_code,
                                       failed |-> r.failed, left |-> r.client_disconnected])
        /\ UNCHANGED <<sender, message, id, complete, raised, client, outer, wire>>
    BY <1>9 DEF Finish
  <2>2. /\ r \in ResponseType
        /\ r.response_started = response.response_started
        /\ r.failed = response.failed \/ r.failed = TRUE
        /\ response.response_started => r.status_code = response.status_code
    BY MarkFailureKeeps DEF LifecycleTypes
  <2> HIDE DEF r
  <2>3. response.response_started => FirstPart' = FirstPart
    BY <2>1, <2>2 DEF FirstPart, Start
  <2>4. LifecycleTypes'
    BY <2>1, <2>2 DEF LifecycleTypes
  <2>5. WireInv'
    BY <2>1, <2>2, <2>3 DEF WireInv
  <2>6. EndInv'
    BY <2>1, <2>2, <2>3 DEF EndInv, WireInv, LifecycleTypes
  <2>7. RecordInv'
    <3>1. FinalRecord' \in [event : {"finished"}, status : 100..599,
                            failed : BOOLEAN, left : BOOLEAN]
      BY <2>1, <2>2 DEF FinalRecord, ResponseType
    <3>2. records' = Append(records, FinalRecord') /\ FinalRecord'.event = "finished"
      BY <2>1 DEF FinalRecord
    <3>3. /\ Len(records') = Len(records) + 1
          /\ records'[Len(records')] = FinalRecord'
          /\ \A m \in 1..Len(records) : records'[m] = records[m]
      BY <3>1, <3>2 DEF RecordInv
    <3>4. records' \in Seq([event : {"started", "failed", "disconnected"}]
                           \cup [event : {"finished"}, status : 100..599,
                                 failed : BOOLEAN, left : BOOLEAN])
      BY <3>1, <3>2 DEF RecordInv
    <3>5. \A m \in 1..Len(records') :
             (records'[m].event = "finished") <=> (m = Len(records'))
      <4>1. Len(records) \in Nat
        BY DEF RecordInv
      <4>2. \A m \in 1..Len(records) : records[m].event # "finished"
        BY <2>1 DEF RecordInv
      <4>3. QED
        BY <3>2, <3>3, <4>1, <4>2
    <3>6. Len(records') > 0
      BY <3>3 DEF RecordInv
    <3>7. QED
      BY <2>1, <3>3, <3>4, <3>5, <3>6 DEF RecordInv
  <2>8. QED
    BY <2>4, <2>5, <2>6, <2>7
<1>10. CASE OuterAnswers
  <2>1. /\ pc = "left" /\ pc' = "done" /\ wire' = wire
        /\ UNCHANGED <<sender, message, id, response, complete, raised, client, outer, records>>
    BY <1>10 DEF OuterAnswers, EndInv, WireInv
  <2>2. FirstPart' = FirstPart /\ FinalRecord' = FinalRecord
    BY <2>1 DEF FirstPart, FinalRecord, Start
  <2>3. LifecycleTypes'
    BY <2>1 DEF LifecycleTypes
  <2>4. WireInv'
    BY <2>1, <2>2 DEF WireInv
  <2>5. EndInv'
    BY <2>1, <2>2 DEF EndInv
  <2>6. RecordInv'
    BY <2>1, <2>2 DEF RecordInv
  <2>7. QED
    BY <2>3, <2>4, <2>5, <2>6
<1>11. CASE ClientLeaves
  <2>1. /\ client' = "gone"
        /\ UNCHANGED <<pc, sender, message, id, response, complete, raised, outer, wire, records>>
    BY <1>11 DEF ClientLeaves, middleware
  <2>2. FirstPart' = FirstPart /\ FinalRecord' = FinalRecord
    BY <2>1 DEF FirstPart, FinalRecord, Start
  <2>3. LifecycleTypes'
    BY <2>1 DEF LifecycleTypes
  <2>4. WireInv'
    BY <2>1, <2>2 DEF WireInv
  <2>5. EndInv'
    BY <2>1, <2>2 DEF EndInv
  <2>6. RecordInv'
    BY <2>1, <2>2 DEF RecordInv
  <2>7. QED
    BY <2>3, <2>4, <2>5, <2>6
<1>12. CASE UNCHANGED vars
  <2>1. /\ UNCHANGED <<pc, sender, message, id, response, complete, raised, client, outer,
                       wire, records>>
    BY <1>12 DEF vars, middleware
  <2>2. FirstPart' = FirstPart /\ FinalRecord' = FinalRecord
    BY <2>1 DEF FirstPart, FinalRecord, Start
  <2>3. QED
    BY <2>1, <2>2 DEF LifecycleTypes, WireInv, EndInv, RecordInv
<1>13. QED
  BY <1>1, <1>2, <1>3, <1>4, <1>5, <1>6, <1>7, <1>8, <1>9, <1>10, <1>11, <1>12 DEF Next

\* The invariant holds in every state of a request.
THEOREM LifecycleHolds == Spec => []LifecycleInv
<1>1. QED
  BY LifecycleInit, LifecycleStep, PTL DEF Spec

\* The client gets at most one response, head first, under the id that was
\* logged, whatever the application, the client and the server do around
\* send_with_request_id.
THEOREM ResponsesAreSingle == Spec => []OneResponse
<1>1. LifecycleInv => OneResponse
  <2> SUFFICES ASSUME LifecycleInv PROVE OneResponse
    OBVIOUS
  <2>1. FirstPart.type = "start" /\ FirstPart.id = id /\ Body.type = "body"
    BY DEF FirstPart, Start, Body
  <2>2. wire \in {<<>>, <<FirstPart>>, <<FirstPart, Body>>}
    BY DEF LifecycleInv, WireInv
  <2>3. QED
    BY <2>1, <2>2, WireLengths DEF OneResponse
<1>2. QED
  BY <1>1, LifecycleHolds, PTL

\* The record that `finally` writes is the only final one and agrees with what
\* the client was sent.
THEOREM RecordsAreHonest == Spec => []RecordIsHonest
<1>1. LifecycleInv => RecordIsHonest
  <2> SUFFICES ASSUME LifecycleInv, pc \in {"left", "done"} PROVE RecordIsHonest
    BY DEF RecordIsHonest
  <2> DEFINE last == records[Len(records)]
  <2>1. /\ Len(records) > 0
        /\ \A m \in 1..Len(records) : (records[m].event = "finished") <=> (m = Len(records))
        /\ last = FinalRecord
    BY DEF LifecycleInv, RecordInv
  <2>2. last.status = response.status_code /\ last.failed = response.failed
    BY <2>1 DEF FinalRecord
  <2>3. wire # <<>> => wire[1].status = last.status
    <3>1. FirstPart.status = response.status_code
      BY DEF FirstPart, Start
    <3>2. wire \in {<<>>, <<FirstPart>>, <<FirstPart, Body>>}
      BY DEF LifecycleInv, WireInv
    <3>3. QED
      BY <2>2, <3>1, <3>2, WireLengths
  <2>4. ~response.failed => /\ complete /\ raised = None /\ response.status_code < 500
                            /\ client = "connected" => Len(wire) = 2
    <3>1. SUFFICES ASSUME ~response.failed
                   PROVE  /\ complete /\ raised = None /\ response.status_code < 500
                          /\ client = "connected" => Len(wire) = 2
      OBVIOUS
    <3>2. /\ raised = None /\ complete /\ response.response_started
          /\ wire = <<FirstPart, Body>> \/ client = "gone"
      BY <3>1 DEF LifecycleInv, EndInv, WireInv
    <3>3. response.status_code < 500
      <4>1. response.status_code >= 500 => response.failed
        BY <3>2, Zenon DEF LifecycleInv, EndInv
      <4>2. response.status_code \in 100..599
        BY DEF LifecycleInv, LifecycleTypes, ResponseType
      <4>3. QED
        BY <3>1, <4>1, <4>2
    <3>4. QED
      BY <3>2, <3>3, WireLengths
  <2> HIDE DEF last
  <2>5. ~last.failed => /\ complete /\ raised = None /\ last.status < 500
                        /\ client = "connected" => Len(wire) = 2
    BY <2>2, <2>4
  <2>6. QED
    BY <2>1, <2>3, <2>5 DEF RecordIsHonest, last
<1>2. QED
  BY <1>1, LifecycleHolds, PTL

\* Neither an error nor an application without a response leaves a client that
\* stayed without an answer.
THEOREM ClientsAreAnswered == Spec => []StayingClientAnswered
<1>1. LifecycleInv => StayingClientAnswered
  BY DEF LifecycleInv, LifecycleTypes, WireInv, EndInv, StayingClientAnswered
<1>2. QED
  BY <1>1, LifecycleHolds, PTL
=============================================================================
