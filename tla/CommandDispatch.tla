--------------------------- MODULE CommandDispatch ---------------------------
(***************************************************************************)
(* The command bus above the idempotency layer (application/dispatching,   *)
(* idempotency/middleware and codec): registration of commands, the        *)
(* identity under which a dispatch is remembered, the two result modes and *)
(* the encoding of results under a schema version, while several releases  *)
(* of the service run at once.                                             *)
(*                                                                         *)
(* The layer below is what OnceMemory promises and Idempotency implements  *)
(* for HOT_DURABLE: an effect is committed together with its memory, and   *)
(* only if nothing is remembered.  The lease in front of it is advisory: a *)
(* call that meets one is turned away, a call without one goes ahead.      *)
(***************************************************************************)
EXTENDS RequestFingerprint

CONSTANTS
    Dispatches,      \* one element per call of the bus
    Registrations,   \* [command, operation, policy] that are offered
    Requests,        \* [command, scope, key, body, mode]; a body is field -> value
    MaxRelease,      \* bound: result schema versions deployed one after another
    MaxWindow,       \* bound: how often the memory of a key expires
    None

Policies == {"HOT_DURABLE", "NONE"}

Modes == {"REPLAYABLE", "COMPLETION_ONLY"}

Operations == {r.operation : r \in Registrations}

\* scope + registered operation + digest of the key
Identity ==
    {q.scope : q \in Requests} \X Operations \X {q.key : q \in Requests}

Result ==
    [type : {"snapshot", "completion"}, version : 1..MaxRelease,
     value : Dispatches \cup {None}]

ASSUME BoundsAssumption == MaxRelease \in Nat \ {0} /\ MaxWindow \in Nat
ASSUME RequestsAssumption == \A q \in Requests : q.mode \in Modes
\* A field has one type, and None where it is optional.
ASSUME FieldsAssumption ==
    \A q, r \in Requests :
        /\ \A f \in DOMAIN q.body : Plain(q.body[f])
        /\ q.command = r.command =>
               \A f \in DOMAIN q.body \cap DOMAIN r.body :
                   LET types == {q.body[f].type, r.body[f].type} IN
                   q.body[f].type = r.body[f].type \/ types \cap (Unsupported \cup {"none"}) # {}
ASSUME NoneAssumption ==
    /\ None \notin Dispatches \cup Requests \cup Result
    /\ \A q \in Requests, r \in Result :
           Fingerprintable(q.body) => None # [fp |-> Canonical(q.body), result |-> r]

VARIABLES
    handlers,   \* the registry: command -> registration
    frozen,     \* the bus has been built on it
    release,    \* newest schema version deployed; older ones may still run
    memory,     \* identity -> the remembered result, or None
    lease,      \* identity -> the call whose pending entry Redis holds, or None
    window,     \* history: how often this memory has expired
    effects,    \* history: committed executions
    request,    \* the call of each dispatch
    version,    \* schema version of the process that serves it
    pc,
    stored,     \* the StoredResult in its hands
    out

registry == <<handlers, frozen>>
storage == <<memory, window, effects>>
calls == <<request, version, pc, stored, out>>
vars == <<registry, release, storage, lease, calls>>

Outcome ==
    {"pending", "ok", "unregistered", "key_required", "scope_required",
     "conflict", "in_progress", "failed", "not_stored", "replay_unavailable",
     "unavailable"}

TypeOK ==
    /\ handlers \in UNION {[S -> Registrations] : S \in SUBSET {r.command : r \in Registrations}}
    /\ frozen \in BOOLEAN
    /\ release \in 1..MaxRelease
    /\ \A i \in Identity :
          memory[i] # None => /\ memory[i].result \in Result
                              /\ (memory[i].result.type = "completion")
                                    <=> (memory[i].result.value = None)
    /\ window \in [Identity -> 0..MaxWindow]
    /\ lease \in [Identity -> Dispatches \cup {None}]
    /\ request \in [Dispatches -> Requests \cup {None}]
    /\ version \in [Dispatches -> 0..MaxRelease]
    /\ pc \in [Dispatches -> {"idle", "claim", "handler", "commit", "decode", "done"}]
    /\ stored \in [Dispatches -> Result \cup {None}]
    /\ out \in [Dispatches -> Outcome]

Init ==
    /\ handlers = [c \in {} |-> None]
    /\ frozen = FALSE
    /\ release = 1
    /\ memory = [i \in Identity |-> None]
    /\ window = [i \in Identity |-> 0]
    /\ lease = [i \in Identity |-> None]
    /\ effects = {}
    /\ request = [d \in Dispatches |-> None]
    /\ version = [d \in Dispatches |-> 0]
    /\ pc = [d \in Dispatches |-> "idle"]
    /\ stored = [d \in Dispatches |-> None]
    /\ out = [d \in Dispatches |-> "pending"]

-----------------------------------------------------------------------------
(* CommandHandlerRegistry                                                  *)

\* Mutant of Free: only the command class is compared.
FreeCommand(r) == r.command \notin DOMAIN handlers

\* Neither the command nor the operation has been registered before.
Free(r) ==
    /\ r.command \notin DOMAIN handlers
    /\ \A c \in DOMAIN handlers : handlers[c].operation # r.operation

Register(r) ==
    /\ ~frozen
    /\ Free(r)
    /\ handlers' = [c \in DOMAIN handlers \cup {r.command} |->
                       IF c = r.command THEN r ELSE handlers[c]]
    /\ UNCHANGED <<frozen, release, storage, lease, calls>>

\* CommandBus.__init__
Freeze ==
    /\ ~frozen
    /\ frozen' = TRUE
    /\ UNCHANGED <<handlers, release, storage, lease, calls>>

\* A release that raises result_schema_version; old processes drain.
Deploy ==
    /\ release < MaxRelease
    /\ release' = release + 1
    /\ UNCHANGED <<registry, storage, lease, calls>>

-----------------------------------------------------------------------------
Goto(d, label) == pc' = [pc EXCEPT ![d] = label]

End(d, outcome) ==
    /\ Goto(d, "done")
    /\ out' = [out EXCEPT ![d] = outcome]

PolicyOf(d) == handlers[request[d].command].policy

IdentityOf(d) ==
    <<request[d].scope, handlers[request[d].command].operation, request[d].key>>

\* The fields of the command; its class and its result mode are left out.
Fingerprint(d) == Canonical(request[d].body)

\* CommandBus.dispatch, the fingerprint and the checks of the middleware.
Dispatch(d) ==
    /\ frozen
    /\ pc[d] = "idle"
    /\ \E q \in Requests, v \in 1..release :
          /\ request' = [request EXCEPT ![d] = q]
          /\ version' = [version EXCEPT ![d] = v]
          /\ \/ q.command \notin DOMAIN handlers /\ End(d, "unregistered")
             \/ /\ q.command \in DOMAIN handlers
                /\ handlers[q.command].policy = "NONE"
                /\ Goto(d, "handler") /\ UNCHANGED out
             \/ /\ q.command \in DOMAIN handlers
                /\ handlers[q.command].policy # "NONE"
                /\ IF ~Fingerprintable(q.body) THEN End(d, "failed")
                   ELSE IF q.key = None THEN End(d, "key_required")
                   ELSE IF q.scope = None THEN End(d, "scope_required")
                   ELSE Goto(d, "claim") /\ UNCHANGED out
    /\ UNCHANGED <<registry, release, storage, lease, stored>>

\* Mutant of Remembered: a marker without a result is no answer for a caller
\* that wants one.
RememberedUsable(d) ==
    LET m == memory[IdentityOf(d)] IN
    m # None /\ (request[d].mode = "REPLAYABLE" => m.result.type = "snapshot")

\* Something is remembered under the identity of d, in whatever mode.
Remembered(d) == memory[IdentityOf(d)] # None

\* What is remembered answers a call of the same fingerprint and refuses others.
Resolve(d) ==
    LET m == memory[IdentityOf(d)] IN
    \/ /\ m.fp = Fingerprint(d)
       /\ stored' = [stored EXCEPT ![d] = m.result]
       /\ Goto(d, "decode")
       /\ UNCHANGED out
    \/ /\ m.fp # Fingerprint(d)
       /\ End(d, "conflict")
       /\ UNCHANGED stored

\* Redis gives d the lease, if there is none.
TakeLease(d) ==
    /\ lease[IdentityOf(d)] = None
    /\ lease' = [lease EXCEPT ![IdentityOf(d)] = d]

\* The coordinator finds a result, the lease of another call, or nothing.  A
\* result wins over the lease, and may be found with the lease already taken.
Claim(d) ==
    /\ pc[d] = "claim"
    /\ LET holder == lease[IdentityOf(d)] IN
       \/ /\ Remembered(d) /\ Resolve(d)
          /\ TakeLease(d) \/ UNCHANGED lease
       \/ /\ ~Remembered(d) /\ TakeLease(d)
          /\ Goto(d, "handler")
          /\ UNCHANGED <<stored, out>>
       \/ /\ ~Remembered(d) /\ holder # None
          /\ End(d, IF Fingerprint(holder) = Fingerprint(d) THEN "in_progress"
                    ELSE "conflict")
          /\ UNCHANGED <<stored, lease>>
    /\ UNCHANGED <<registry, release, storage, request, version>>

\* Redis does not answer: the call goes on without the lease.  (One that got it
\* all the same is in the state of a call that has claimed.)
ClaimWithoutHot(d) ==
    /\ pc[d] = "claim"
    /\ \/ Remembered(d) /\ Resolve(d)
       \/ ~Remembered(d) /\ Goto(d, "handler") /\ UNCHANGED <<stored, out>>
    /\ UNCHANGED <<registry, release, storage, lease, request, version>>

\* The execution is over: the lease of d goes, unless Redis is not reached.
Leave(d) ==
    \/ UNCHANGED lease
    \/ /\ lease[IdentityOf(d)] = d
       /\ lease' = [lease EXCEPT ![IdentityOf(d)] = None]

\* The lease of i runs out, or Redis loses it.
LeaseLost(i) ==
    /\ lease[i] # None
    /\ lease' = [lease EXCEPT ![i] = None]
    /\ UNCHANGED <<registry, release, storage, calls>>

\* Mutant of Encoded: the schema version keeps its default.
EncodedFirstVersion(d) ==
    IF request[d].mode = "COMPLETION_ONLY"
    THEN [type |-> "completion", version |-> 1, value |-> None]
    ELSE [type |-> "snapshot", version |-> 1, value |-> d]

\* Mutant of Encoded: the completion marker carries the result.
EncodedMarkerKeepsResult(d) ==
    [type |-> IF request[d].mode = "COMPLETION_ONLY" THEN "completion" ELSE "snapshot",
     version |-> version[d], value |-> d]

\* The value stands for the DTO that this execution returned.
Encoded(d) ==
    IF request[d].mode = "COMPLETION_ONLY"
    THEN [type |-> "completion", version |-> 1, value |-> None]
    ELSE [type |-> "snapshot", version |-> version[d], value |-> d]

\* invoke_handler inside the open transaction.
Handler(d) ==
    /\ pc[d] = "handler"
    /\ stored' = [stored EXCEPT ![d] = Encoded(d)]
    /\ Goto(d, "commit")
    /\ UNCHANGED <<registry, release, storage, lease, request, version, out>>

\* The handler raises, or returns what its registered schema does not allow,
\* which both modes find out before the commit.
HandlerFails(d) ==
    /\ pc[d] = "handler"
    /\ End(d, "failed")
    /\ Leave(d)
    /\ UNCHANGED <<registry, release, storage, request, version, stored>>

\* The effect, with the memory of its result if the command has a policy.
Effect(d) ==
    IF PolicyOf(d) = "NONE"
    THEN /\ effects' = effects \cup {[by |-> d, window |-> 0]}
         /\ UNCHANGED memory
    ELSE /\ effects' = effects \cup {[by |-> d, window |-> window[IdentityOf(d)]]}
         /\ memory' = [memory EXCEPT ![IdentityOf(d)] =
                          [fp |-> Fingerprint(d), result |-> stored[d]]]

\* A transaction that lost the race is rolled back and meets the winner.
Commit(d) ==
    /\ pc[d] = "commit"
    /\ \/ /\ PolicyOf(d) # "NONE" /\ Remembered(d)
          /\ Resolve(d)
          /\ UNCHANGED <<memory, effects>>
       \/ /\ PolicyOf(d) = "NONE" \/ ~Remembered(d)
          /\ Effect(d)
          /\ Goto(d, "decode")
          /\ UNCHANGED <<stored, out>>
    /\ Leave(d)
    /\ UNCHANGED <<registry, release, window, request, version>>

\* The commit took place, the answer of the database did not arrive.
CommitUnknown(d) ==
    /\ pc[d] = "commit"
    /\ PolicyOf(d) = "NONE" \/ ~Remembered(d)
    /\ Effect(d)
    /\ End(d, "unavailable")
    /\ Leave(d)
    /\ UNCHANGED <<registry, release, window, request, version, stored>>

\* Mutant of Answer: the result is decoded before the mode is looked at.
AnswerDecodesFirst(d) ==
    IF stored[d].type = "completion" THEN "not_stored"
    ELSE IF stored[d].version # version[d] THEN "replay_unavailable"
    ELSE "ok"

\* The single exit for first executions and replays.
Answer(d) ==
    IF request[d].mode = "COMPLETION_ONLY" THEN "ok"
    ELSE IF stored[d].type = "completion" THEN "not_stored"
    ELSE IF stored[d].version # version[d] THEN "replay_unavailable"
    ELSE "ok"

Decode(d) ==
    /\ pc[d] = "decode"
    /\ End(d, Answer(d))
    /\ UNCHANGED <<registry, release, storage, lease, request, version, stored>>

\* An unavailable database, a result that ran out, a cancelled request.
Unavailable(d) ==
    /\ pc[d] \in {"claim", "handler", "commit", "decode"}
    /\ End(d, "unavailable")
    /\ Leave(d)
    /\ UNCHANGED <<registry, release, storage, request, version, stored>>

\* The retention of a remembered result ends.
Expire(i) ==
    /\ memory[i] # None
    /\ window[i] < MaxWindow
    /\ memory' = [memory EXCEPT ![i] = None]
    /\ window' = [window EXCEPT ![i] = @ + 1]
    /\ UNCHANGED <<registry, release, effects, lease, calls>>

-----------------------------------------------------------------------------
Next ==
    \/ \E r \in Registrations : Register(r)
    \/ Freeze \/ Deploy
    \/ \E i \in Identity : Expire(i) \/ LeaseLost(i)
    \/ \E d \in Dispatches :
          \/ Dispatch(d) \/ Claim(d) \/ ClaimWithoutHot(d)
          \/ Handler(d) \/ HandlerFails(d)
          \/ Commit(d) \/ CommitUnknown(d) \/ Decode(d) \/ Unavailable(d)

Spec == Init /\ [][Next]_vars

-----------------------------------------------------------------------------
(* Properties.                                                             *)

\* d's handler ran and what it did was committed.
Executed(d) == \E e \in effects : e.by = d

\* d and x are calls of one command, by one scope, under one key, whose fields
\* say the same.
SameRequest(d, x) ==
    /\ request[x].command = request[d].command
    /\ request[x].scope = request[d].scope /\ request[x].key = request[d].key
    /\ SameBody(request[x].body, request[d].body)

\* x brought its request to the key of d, and got past the claim.
UsedKeyOf(d, x) ==
    /\ x # d
    /\ request[x] # None /\ request[x].command \in DOMAIN handlers
    /\ PolicyOf(x) # "NONE" /\ IdentityOf(x) = IdentityOf(d)
    /\ pc[x] \notin {"idle", "claim"}

\* A returned result is that of a committed execution of the same request; a
\* call is refused for its key only when another request has been brought to
\* it, be it executed or still in flight, and is put off only for a twin of its
\* own.  The registry, the identity and the fingerprint together never confuse
\* two requests, though the fingerprint does not contain the command, and never
\* tell a retry apart that spells its fields differently.
ResultIsOfOwnRequest ==
    \A d \in Dispatches :
        /\ (out[d] = "ok" /\ request[d].mode = "REPLAYABLE") =>
               Executed(stored[d].value) /\ SameRequest(d, stored[d].value)
        /\ out[d] = "conflict" =>
               \E x \in Dispatches : UsedKeyOf(d, x) /\ ~SameRequest(d, x)
        /\ out[d] = "in_progress" =>
               \E x \in Dispatches : UsedKeyOf(d, x) /\ SameRequest(d, x)

\* Within one window an identity has one effect, whatever modes and releases
\* its callers use: a result that was not kept, or can no longer be decoded,
\* never makes the handler run again.
OncePerWindow ==
    \A e, f \in effects :
        (/\ e.by # f.by
         /\ PolicyOf(e.by) # "NONE" /\ PolicyOf(f.by) # "NONE"
         /\ IdentityOf(e.by) = IdentityOf(f.by))
            => e.window # f.window

\* A call whose own execution was committed gets its result, unless the answer
\* is lost on the way: it never learns that the result is of another schema or
\* was not kept.
OwnResultDecodes ==
    \A d \in Dispatches :
        (Executed(d) /\ pc[d] = "done") => out[d] \in {"ok", "unavailable"}

\* A caller that is told its result cannot be had knows that its request is
\* done: another call of the very same request was executed, one that kept no
\* result, or one of a release with another schema.  It is never told so for an
\* execution it can read, nor when it did not want the result.
UnreadableMeansDone ==
    \A d \in Dispatches :
        out[d] \in {"not_stored", "replay_unavailable"} =>
            /\ request[d].mode = "REPLAYABLE"
            /\ \E x \in Dispatches \ {d} :
                  /\ Executed(x) /\ SameRequest(d, x)
                  /\ IF out[d] = "not_stored" THEN request[x].mode = "COMPLETION_ONLY"
                     ELSE request[x].mode = "REPLAYABLE" /\ version[x] # version[d]
=============================================================================
