------------------------ MODULE CommandDispatchProofs ------------------------
(***************************************************************************)
(* CommandDispatch for every set of calls, registrations and requests: the *)
(* fingerprint decides what it has to, and from it, the registry and the   *)
(* memory, every property of the runs.                                     *)
(***************************************************************************)
EXTENDS CommandDispatch, TLAPS

\* The field of a command is canonicalised and compared as a scalar.
LEMMA PlainIsScalar ==
    ASSUME NEW v, NEW w, Plain(v)
    PROVE  /\ CanonicalField(v) = CanonicalScalar(v)
           /\ Same(v, w) <=> v.type = w.type /\ SameScalar(v, w)
<1>1. v.type \notin {"list", "set"}
  BY DEF Plain, Unsupported
<1>2. CanonicalField(v) = CanonicalScalar(v)
  BY <1>1 DEF CanonicalField
<1>3. Same(v, w) <=> v.type = w.type /\ SameScalar(v, w)
  BY <1>1 DEF Same
<1> QED BY <1>2, <1>3

\* Scalars of one type have one canonical form exactly if they mean the same.
LEMMA ScalarDecided ==
    ASSUME NEW v, NEW w, Plain(v), Plain(w), v.type = w.type,
           v.type \notin Unsupported
    PROVE  (CanonicalScalar(v) = CanonicalScalar(w)) <=> SameScalar(v, w)
<1>1. CASE v.type = "datetime"
  <2>1. SameScalar(v, w) <=> v.local - v.offset = w.local - w.offset
    BY <1>1 DEF SameScalar
  <2>2. /\ CanonicalScalar(v) = <<"string", v.local - v.offset>>
        /\ CanonicalScalar(w) = <<"string", w.local - w.offset>>
    BY <1>1 DEF CanonicalScalar, CanonicalTime, Json
  <2> QED BY <2>1, <2>2
<1>2. CASE v.type = "float"
  <2>1. SameScalar(v, w) <=> v.number = w.number /\ (v.sign = w.sign \/ v.number = 0)
    BY <1>2 DEF SameScalar
  <2>2. /\ CanonicalScalar(v) = <<"float", IF v.number = 0 THEN <<"+", 0>> ELSE <<v.sign, v.number>>>>
        /\ CanonicalScalar(w) = <<"float", IF w.number = 0 THEN <<"+", 0>> ELSE <<w.sign, w.number>>>>
    BY <1>2 DEF CanonicalScalar, Json
  <2> QED BY <2>1, <2>2
<1>3. CASE v.type \in {"uuid", "date", "enum", "str", "int", "bool", "none"}
  <2>1. SameScalar(v, w) <=> v = w
    BY <1>3 DEF SameScalar
  <2>2. \/ CanonicalScalar(v) = <<"string", v.text>> /\ CanonicalScalar(w) = <<"string", w.text>>
        \/ CanonicalScalar(v) = <<v.type, v.text>> /\ CanonicalScalar(w) = <<w.type, w.text>>
    BY <1>3 DEF CanonicalScalar, Json
  <2>3. v = w <=> v.text = w.text
    BY <1>3 DEF Plain, Unsupported
  <2> QED BY <2>1, <2>2, <2>3
<1> QED BY <1>1, <1>2, <1>3 DEF Plain

\* A missing optional field is not taken for a value.
LEMMA NoneIsApart ==
    ASSUME NEW v, NEW w, Plain(v), Plain(w), v.type = "none", w.type # "none",
           w.type \notin Unsupported
    PROVE  CanonicalScalar(v) # CanonicalScalar(w)
<1>1. CanonicalScalar(v) = <<"none", v.text>>
  BY DEF CanonicalScalar, Json
<1>2. \E x : CanonicalScalar(w) \in {<<"string", x>>, <<"float", x>>, <<"int", x>>, <<"bool", x>>}
  <2>1. CASE w.type = "datetime"
    BY <2>1 DEF CanonicalScalar, CanonicalTime, Json
  <2>2. CASE w.type = "float"
    BY <2>2 DEF CanonicalScalar, Json
  <2>3. CASE w.type \in {"uuid", "date", "enum", "str", "int", "bool"}
    BY <2>3 DEF CanonicalScalar, Json
  <2> QED BY <2>1, <2>2, <2>3 DEF Plain
<1> QED BY <1>1, <1>2

\* The fingerprint tells two requests of one command apart exactly if their
\* fields differ in meaning.
LEMMA FingerprintDecides ==
    ASSUME NEW q \in Requests, NEW r \in Requests, q.command = r.command,
           Fingerprintable(q.body), Fingerprintable(r.body)
    PROVE  (Canonical(q.body) = Canonical(r.body)) <=> SameBody(q.body, r.body)
<1>1. ASSUME NEW f \in DOMAIN q.body
      PROVE  Plain(q.body[f]) /\ q.body[f].type \notin Unsupported
  BY FieldsAssumption DEF Fingerprintable, Plain, Unsupported
<1>2. ASSUME NEW f \in DOMAIN r.body
      PROVE  Plain(r.body[f]) /\ r.body[f].type \notin Unsupported
  BY FieldsAssumption DEF Fingerprintable, Plain, Unsupported
<1>3. ASSUME NEW f \in DOMAIN q.body, f \in DOMAIN r.body
      PROVE  (CanonicalField(q.body[f]) = CanonicalField(r.body[f])) <=> Same(q.body[f], r.body[f])
  <2>1. /\ CanonicalField(q.body[f]) = CanonicalScalar(q.body[f])
        /\ CanonicalField(r.body[f]) = CanonicalScalar(r.body[f])
        /\ Same(q.body[f], r.body[f]) <=>
               q.body[f].type = r.body[f].type /\ SameScalar(q.body[f], r.body[f])
    BY <1>1, <1>2, <1>3, PlainIsScalar
  <2>2. CASE q.body[f].type = r.body[f].type
    BY <1>1, <1>2, <1>3, <2>1, <2>2, ScalarDecided
  <2>3. CASE q.body[f].type # r.body[f].type
    <3>1. "none" \in {q.body[f].type, r.body[f].type}
      BY <1>1, <1>2, <1>3, <2>3, FieldsAssumption
    <3>2. CanonicalScalar(q.body[f]) # CanonicalScalar(r.body[f])
      BY <1>1, <1>2, <1>3, <2>3, <3>1, NoneIsApart
    <3> QED BY <2>1, <2>3, <3>2
  <2> QED BY <2>2, <2>3
<1> QED BY <1>3 DEF Canonical, SameBody

\* A request says the same as itself.
LEMMA SameBodyReflexive ==
    ASSUME NEW q \in Requests
    PROVE  SameBody(q.body, q.body)
<1>1. ASSUME NEW f \in DOMAIN q.body PROVE Same(q.body[f], q.body[f])
  <2>1. Plain(q.body[f])
    BY FieldsAssumption
  <2>2. q.body[f].type # "decimal"
    BY <2>1 DEF Plain, Unsupported
  <2>3. SameScalar(q.body[f], q.body[f])
    BY <2>2 DEF SameScalar
  <2> QED BY <2>1, <2>3, PlainIsScalar
<1> QED BY <1>1 DEF SameBody

-----------------------------------------------------------------------------
\* Commands and operations correspond one to one, and are settled before the
\* first call.
RegistryInv ==
    /\ \A c \in DOMAIN handlers : handlers[c] \in Registrations /\ handlers[c].command = c
    /\ \A b, c \in DOMAIN handlers : handlers[b].operation = handlers[c].operation => b = c
    /\ ~frozen => \A d \in Dispatches : pc[d] = "idle"

\* d is a call of a registered command.
Accepted(d) == request[d] # None /\ request[d].command \in DOMAIN handlers

Active == {"claim", "handler", "commit", "decode"}

\* What d holds is the result of x, an execution of its own request.
ResultOf(d, x) == Executed(x) /\ SameRequest(d, x) /\ stored[d] = Encoded(x)

\* What is known of a call at each point.
CallOf(d) ==
    /\ (pc[d] = "idle") <=> (request[d] = None)
    /\ pc[d] # "done" => out[d] = "pending"
    /\ pc[d] # "idle" => version[d] \in 1..MaxRelease
    /\ pc[d] \in Active =>
          /\ Accepted(d)
          /\ PolicyOf(d) # "NONE" => Fingerprintable(request[d].body)
    /\ pc[d] = "claim" => PolicyOf(d) # "NONE"
    /\ pc[d] = "commit" => stored[d] = Encoded(d)
    /\ pc[d] = "decode" =>
          /\ stored[d] \in Result
          /\ \E x \in Dispatches : ResultOf(d, x)

CallInv == \A d \in Dispatches : CallOf(d)

\* An effect belongs to a window that is over, or to the one whose memory is
\* still there.
EffectInv ==
    \A e \in effects :
        /\ e.by \in Dispatches /\ e.window \in Nat
        /\ Accepted(e.by)
        /\ pc[e.by] \in {"decode", "done"}
        /\ pc[e.by] = "decode" => stored[e.by] = Encoded(e.by)
        /\ PolicyOf(e.by) # "NONE" =>
              \/ e.window < window[IdentityOf(e.by)]
              \/ e.window = window[IdentityOf(e.by)] /\ memory[IdentityOf(e.by)] # None

\* x is the execution that m remembers for the identity i.
RememberedOf(i, m, x) ==
    /\ Executed(x) /\ Accepted(x)
    /\ PolicyOf(x) # "NONE" /\ IdentityOf(x) = i
    /\ Fingerprintable(request[x].body)
    /\ m = [fp |-> Fingerprint(x), result |-> Encoded(x)]

MemoryInv ==
    /\ memory = [i \in Identity |-> memory[i]]
    /\ \A i \in Identity :
          memory[i] # None => \E x \in Dispatches : RememberedOf(i, memory[i], x)

\* The lease of i belongs to a call that came past its claim of i.
HolderOf(i, x) ==
    /\ Accepted(x) /\ PolicyOf(x) # "NONE" /\ IdentityOf(x) = i
    /\ Fingerprintable(request[x].body)
    /\ pc[x] \notin {"idle", "claim"}

LeaseInv == \A i \in Identity : lease[i] # None => HolderOf(i, lease[i])

StateInv ==
    /\ TypeOK /\ RegistryInv /\ CallInv /\ EffectInv /\ MemoryInv
    /\ LeaseInv /\ OncePerWindow

\* x was executed for the request of d, and o is what d is told of it.
WhyUnreadable(d, x, o) ==
    /\ Executed(x) /\ SameRequest(d, x)
    /\ IF o = "not_stored" THEN request[x].mode = "COMPLETION_ONLY"
       ELSE request[x].mode = "REPLAYABLE" /\ version[x] # version[d]

\* The three properties of one call.
OutcomeOf(d) ==
    /\ (out[d] = "ok" /\ request[d].mode = "REPLAYABLE") =>
           Executed(stored[d].value) /\ SameRequest(d, stored[d].value)
    /\ out[d] = "conflict" =>
           \E x \in Dispatches : UsedKeyOf(d, x) /\ ~SameRequest(d, x)
    /\ out[d] = "in_progress" =>
           \E x \in Dispatches : UsedKeyOf(d, x) /\ SameRequest(d, x)
    /\ (Executed(d) /\ pc[d] = "done") => out[d] \in {"ok", "unavailable"}
    /\ out[d] \in {"not_stored", "replay_unavailable"} =>
           /\ request[d].mode = "REPLAYABLE"
           /\ \E x \in Dispatches \ {d} : WhyUnreadable(d, x, out[d])

OutcomeInv == \A d \in Dispatches : OutcomeOf(d)

DispatchInv == StateInv /\ OutcomeInv

\* The calls of the runs' properties, one by one.
LEMMA OutcomesTogether ==
    OutcomeInv <=> ResultIsOfOwnRequest /\ OwnResultDecodes /\ UnreadableMeansDone
BY DEF OutcomeInv, OutcomeOf, WhyUnreadable, ResultIsOfOwnRequest, OwnResultDecodes,
       UnreadableMeansDone

-----------------------------------------------------------------------------
(* What a step of d leaves alone.                                          *)

\* Only d moves, and only d's effect may be added.
StepOf(d) ==
    /\ handlers' = handlers /\ frozen' = frozen
    /\ \A x \in Dispatches \ {d} :
          /\ request'[x] = request[x] /\ version'[x] = version[x]
          /\ pc'[x] = pc[x] /\ stored'[x] = stored[x] /\ out'[x] = out[x]
    /\ pc[d] # "idle" => request'[d] = request[d] /\ version'[d] = version[d]
    /\ pc[d] # "done" /\ pc'[d] # "idle"
    /\ pc[d] # "idle" => pc'[d] # "claim"
    /\ effects \subseteq effects'
    /\ \A e \in effects' \ effects : e.by = d

\* Other calls remain what they are.
LEMMA OthersStay ==
    ASSUME DispatchInv, NEW d \in Dispatches, StepOf(d), NEW x \in Dispatches, x # d
    PROVE  /\ CallOf(x)' /\ OutcomeOf(x)'
           /\ Executed(x)' <=> Executed(x)
           /\ Accepted(x)' <=> Accepted(x)
           /\ IdentityOf(x)' = IdentityOf(x) /\ PolicyOf(x)' = PolicyOf(x)
           /\ Fingerprint(x)' = Fingerprint(x) /\ Encoded(x)' = Encoded(x)
<1>1. /\ Executed(x)' <=> Executed(x)
      /\ Accepted(x)' <=> Accepted(x)
      /\ IdentityOf(x)' = IdentityOf(x) /\ PolicyOf(x)' = PolicyOf(x)
      /\ Fingerprint(x)' = Fingerprint(x) /\ Encoded(x)' = Encoded(x)
  BY DEF StepOf, Executed, Accepted, IdentityOf, PolicyOf, Fingerprint, Encoded
<1>2. ASSUME NEW y, Executed(y)
      PROVE  /\ Executed(y)' /\ y \in Dispatches /\ request'[y] = request[y]
             /\ SameRequest(x, y)' <=> SameRequest(x, y)
             /\ IdentityOf(y)' = IdentityOf(y)
  <2>1. y \in Dispatches /\ pc[y] \in {"decode", "done"}
    BY <1>2 DEF DispatchInv, StateInv, EffectInv, Executed
  <2>2. request'[y] = request[y]
    BY <2>1 DEF StepOf
  <2>3. request'[x] = request[x] /\ handlers' = handlers
    BY DEF StepOf
  <2> QED BY <1>2, <2>1, <2>2, <2>3 DEF StepOf, Executed, SameRequest, IdentityOf
<1>3. /\ request'[x] = request[x] /\ version'[x] = version[x]
      /\ pc'[x] = pc[x] /\ stored'[x] = stored[x] /\ out'[x] = out[x]
  BY DEF StepOf
<1>7. ASSUME NEW y \in Dispatches, Executed(y)
      PROVE  /\ ResultOf(x, y) => ResultOf(x, y)'
             /\ \A o : WhyUnreadable(x, y, o) => WhyUnreadable(x, y, o)'
  <2>1. pc[y] # "idle"
    BY <1>7 DEF DispatchInv, StateInv, EffectInv, Executed
  <2>2. request'[y] = request[y] /\ version'[y] = version[y]
    BY <2>1 DEF StepOf
  <2>3. Encoded(y)' = Encoded(y)
    BY <2>2 DEF Encoded
  <2> QED BY <1>2, <1>3, <1>7, <2>2, <2>3 DEF ResultOf, WhyUnreadable
<1>8. ASSUME NEW y \in Dispatches, UsedKeyOf(x, y)
      PROVE  UsedKeyOf(x, y)' /\ (SameRequest(x, y)' <=> SameRequest(x, y))
  <2>1. request'[y] = request[y] /\ pc'[y] \notin {"idle", "claim"} /\ handlers' = handlers
    BY <1>8 DEF UsedKeyOf, StepOf
  <2> QED BY <1>3, <1>8, <2>1 DEF UsedKeyOf, PolicyOf, IdentityOf, SameRequest
<1>4. CallOf(x) /\ OutcomeOf(x)
  BY DEF DispatchInv, StateInv, CallInv, OutcomeInv
<1>5. CallOf(x)'
  <2>1. (\E y \in Dispatches : ResultOf(x, y)) => \E y \in Dispatches : ResultOf(x, y)'
    BY <1>7 DEF ResultOf
  <2> QED BY <1>1, <1>3, <1>4, <2>1 DEF CallOf
<1>6. OutcomeOf(x)'
  <2>1. \A o : (\E y \in Dispatches \ {x} : WhyUnreadable(x, y, o))
                 => \E y \in Dispatches \ {x} : WhyUnreadable(x, y, o)'
    BY <1>7 DEF WhyUnreadable
  <2> QED BY <1>1, <1>2, <1>3, <1>4, <1>8, <2>1 DEF OutcomeOf
<1> QED BY <1>1, <1>5, <1>6

\* An accepted call has an identity of the model.
LEMMA IdentityType ==
    ASSUME TypeOK, RegistryInv, NEW d \in Dispatches, Accepted(d)
    PROVE  IdentityOf(d) \in Identity
<1>1. request[d] \in Requests
  BY DEF TypeOK, Accepted
<1>2. handlers[request[d].command].operation \in Operations
  BY DEF Accepted, RegistryInv, Operations
<1> QED BY <1>1, <1>2 DEF IdentityOf, Identity

\* A lease given or given up is still one of a call.
LEMMA LeaseType ==
    ASSUME TypeOK, NEW d \in Dispatches, TakeLease(d) \/ Leave(d)
    PROVE  lease' \in [Identity -> Dispatches \cup {None}]
BY DEF TypeOK, TakeLease, Leave

\* A step of d keeps what is known of the holders, d among them once it is past
\* its claim.
LEMMA LeaseStays ==
    ASSUME DispatchInv, NEW d \in Dispatches, StepOf(d),
           \/ Leave(d)
           \/ /\ TakeLease(d)
              /\ pc[d] \in Active /\ pc'[d] # "claim" /\ PolicyOf(d) # "NONE"
    PROVE  LeaseInv'
<1> USE DEF DispatchInv, StateInv
<1>1. ASSUME NEW i \in Identity, NEW x \in Dispatches, HolderOf(i, x)
      PROVE  HolderOf(i, x)'
  <2>1. request'[x] = request[x] /\ pc'[x] \notin {"idle", "claim"} /\ handlers' = handlers
    BY <1>1 DEF StepOf, HolderOf
  <2> QED BY <1>1, <2>1 DEF HolderOf, Accepted, PolicyOf, IdentityOf
<1>2. ASSUME NEW i \in Identity, lease'[i] # None, lease'[i] = lease[i]
      PROVE  \E x \in Dispatches : x = lease'[i] /\ HolderOf(i, x)'
  BY <1>1, <1>2 DEF LeaseInv, TypeOK
<1>3. ASSUME TakeLease(d), pc[d] \in Active, pc'[d] # "claim", PolicyOf(d) # "NONE"
      PROVE  HolderOf(IdentityOf(d), d)'
  <2>1. /\ Accepted(d) /\ Fingerprintable(request[d].body) /\ request'[d] = request[d]
        /\ handlers' = handlers /\ pc'[d] \notin {"idle", "claim"}
    BY <1>3 DEF CallInv, CallOf, StepOf, Active
  <2> QED BY <1>3, <2>1 DEF HolderOf, Accepted, PolicyOf, IdentityOf
<1>4. ASSUME NEW i \in Identity, lease'[i] # None
      PROVE  \E x \in Dispatches : x = lease'[i] /\ HolderOf(i, x)'
  <2>1. CASE Leave(d)
    <3>1. lease'[i] = lease[i]
      BY <1>4, <2>1 DEF Leave, TypeOK
    <3> QED BY <1>2, <1>4, <3>1
  <2>2. CASE TakeLease(d) /\ pc[d] \in Active /\ pc'[d] # "claim" /\ PolicyOf(d) # "NONE"
    <3>1. Accepted(d) /\ request'[d] = request[d] /\ handlers' = handlers
      BY <2>2 DEF CallInv, CallOf, StepOf, Active
    <3>2. IdentityOf(d)' = IdentityOf(d)
      BY <3>1 DEF IdentityOf
    <3>3. lease'[i] = lease[i] \/ (i = IdentityOf(d) /\ lease'[i] = d)
      BY <2>2 DEF TakeLease, TypeOK
    <3>4. HolderOf(IdentityOf(d), d)'
      BY <1>3, <2>2
    <3>5. ASSUME i = IdentityOf(d) PROVE HolderOf(i, d)'
      BY <3>2, <3>4, <3>5 DEF HolderOf
    <3> QED BY <1>2, <1>4, <3>3, <3>5
  <2> QED BY <2>1, <2>2
<1> QED BY <1>4 DEF LeaseInv, HolderOf, Accepted, PolicyOf, IdentityOf

\* A call that has not come to its commit has no effect.
LEMMA NotYetExecuted ==
    ASSUME EffectInv, NEW d, pc[d] \notin {"decode", "done"}
    PROVE  ~Executed(d)
BY DEF EffectInv, Executed

\* A step that touches no storage keeps what is known of it.
LEMMA StorageStays ==
    ASSUME DispatchInv, NEW d \in Dispatches, StepOf(d), UNCHANGED storage,
           pc[d] = "decode" => pc'[d] = "done"
    PROVE  EffectInv' /\ MemoryInv' /\ OncePerWindow'
<1>1. ASSUME NEW x, Executed(x)
      PROVE  /\ x \in Dispatches /\ Executed(x)'
             /\ Accepted(x)' <=> Accepted(x)
             /\ pc'[x] \in {"decode", "done"}
             /\ pc'[x] = "decode" => stored'[x] = stored[x] /\ pc[x] = "decode"
             /\ IdentityOf(x)' = IdentityOf(x) /\ PolicyOf(x)' = PolicyOf(x)
             /\ Fingerprint(x)' = Fingerprint(x) /\ Encoded(x)' = Encoded(x)
             /\ request'[x] = request[x]
  <2>1. x \in Dispatches /\ pc[x] \in {"decode", "done"}
    BY <1>1 DEF DispatchInv, StateInv, EffectInv, Executed
  <2>2. request'[x] = request[x] /\ version'[x] = version[x] /\ handlers' = handlers
    BY <2>1 DEF StepOf
  <2>3. pc'[x] \in {"decode", "done"}
    BY <2>1 DEF StepOf
  <2>4. pc'[x] = "decode" => stored'[x] = stored[x] /\ pc[x] = "decode"
    BY <2>1 DEF StepOf
  <2> QED BY <1>1, <2>1, <2>2, <2>3, <2>4
          DEF Executed, storage, Accepted, IdentityOf, PolicyOf, Fingerprint, Encoded
<1>2. ASSUME NEW e \in effects PROVE Executed(e.by)
  BY DEF Executed
<1>3. effects' = effects /\ memory' = memory /\ window' = window
  BY DEF storage
<1>4. EffectInv'
  BY <1>1, <1>2, <1>3 DEF DispatchInv, StateInv, EffectInv
<1>5. MemoryInv'
  <2>1. ASSUME NEW i \in Identity, memory[i] # None
        PROVE  \E x \in Dispatches : RememberedOf(i, memory[i], x)'
    <3>1. PICK x \in Dispatches : RememberedOf(i, memory[i], x)
      BY <2>1 DEF DispatchInv, StateInv, MemoryInv
    <3>2. RememberedOf(i, memory[i], x)'
      BY <1>1, <1>3, <3>1 DEF RememberedOf
    <3> QED BY <3>2
  <2>2. memory' = [i \in Identity |-> memory'[i]]
    BY <1>3 DEF DispatchInv, StateInv, MemoryInv
  <2> QED BY <1>3, <2>1, <2>2 DEF MemoryInv, RememberedOf
<1>6. OncePerWindow'
  BY <1>1, <1>2, <1>3 DEF DispatchInv, StateInv, OncePerWindow
<1> QED BY <1>4, <1>5, <1>6

\* The invariant after a step of d, from what is particular to d.
LEMMA StepKeeps ==
    ASSUME DispatchInv, NEW d \in Dispatches, StepOf(d), frozen, TypeOK',
           CallOf(d)', OutcomeOf(d)', EffectInv' /\ MemoryInv' /\ OncePerWindow', LeaseInv'
    PROVE  DispatchInv'
<1>1. CallInv' /\ OutcomeInv'
  BY OthersStay DEF CallInv, OutcomeInv
<1>2. RegistryInv'
  BY DEF DispatchInv, StateInv, RegistryInv, StepOf
<1> QED BY <1>1, <1>2 DEF DispatchInv, StateInv

\* Calls are served only once the registry is settled.
LEMMA ServedFrozen ==
    ASSUME DispatchInv, NEW d \in Dispatches, pc[d] # "idle"
    PROVE  frozen
BY DEF DispatchInv, StateInv, RegistryInv

-----------------------------------------------------------------------------
(* The steps of a call.                                                    *)

LEMMA DispatchKeeps ==
    ASSUME DispatchInv, NEW d \in Dispatches, Dispatch(d)
    PROVE  DispatchInv'
<1> USE DEF DispatchInv, StateInv
<1>1. PICK q \in Requests, v \in 1..release :
        /\ request' = [request EXCEPT ![d] = q]
        /\ version' = [version EXCEPT ![d] = v]
        /\ \/ q.command \notin DOMAIN handlers /\ End(d, "unregistered")
           \/ /\ q.command \in DOMAIN handlers
              /\ handlers[q.command].policy = "NONE"
              /\ Goto(d, "handler") /\ UNCHANGED out
           \/ /\ q.command \in DOMAIN handlers
              /\ handlers[q.command].policy # "NONE"
              /\ IF ~Fingerprintable(q.body) THEN End(d, "failed")
                 ELSE IF q.key = None THEN End(d, "key_required")
                 ELSE IF q.scope = None THEN End(d, "scope_required")
                 ELSE Goto(d, "claim") /\ UNCHANGED out
  BY DEF Dispatch
<1>2. /\ frozen /\ pc[d] = "idle"
      /\ UNCHANGED <<handlers, frozen, release, memory, window, effects, lease, stored>>
  BY DEF Dispatch, registry, storage
<1>3. /\ \E l \in {"done", "handler", "claim"} : pc' = [pc EXCEPT ![d] = l]
      /\ \E o \in {"unregistered", "failed", "key_required", "scope_required", "pending"} :
            /\ out' = [out EXCEPT ![d] = o]
            /\ o = "pending" <=> pc'[d] # "done"
  <2>1. out = [out EXCEPT ![d] = "pending"]
    BY <1>2 DEF CallInv, CallOf, TypeOK
  <2> QED BY <1>1, <2>1 DEF End, Goto, TypeOK
<1>4. TypeOK'
  <2>1. request' \in [Dispatches -> Requests \cup {None}] /\ version' \in [Dispatches -> 0..MaxRelease]
    BY <1>1, BoundsAssumption DEF TypeOK
  <2>2. /\ pc' \in [Dispatches -> {"idle", "claim", "handler", "commit", "decode", "done"}]
        /\ out' \in [Dispatches -> Outcome]
    BY <1>3 DEF TypeOK, Outcome
  <2> QED BY <1>2, <2>1, <2>2 DEF TypeOK
<1>5. /\ request'[d] = q /\ version'[d] = v /\ request'[d] # None
      /\ \A x \in Dispatches \ {d} : request'[x] = request[x] /\ version'[x] = version[x]
  BY <1>1, NoneAssumption DEF TypeOK
<1>6. StepOf(d)
  BY <1>2, <1>3, <1>5 DEF StepOf, TypeOK
<1>7. EffectInv' /\ MemoryInv' /\ OncePerWindow' /\ LeaseInv'
  BY <1>2, <1>6, StorageStays, LeaseStays DEF storage, Leave
<1>8. ~Executed(d)'
  BY <1>2, NotYetExecuted DEF Executed
<1>9. CallOf(d)'
  <2>1. v \in 1..MaxRelease
    BY BoundsAssumption DEF TypeOK
  <2>2. pc'[d] \in {"handler", "claim"} =>
          /\ q.command \in DOMAIN handlers
          /\ handlers[q.command].policy # "NONE" => Fingerprintable(q.body)
          /\ pc'[d] = "claim" => handlers[q.command].policy # "NONE"
    BY <1>1 DEF End, Goto, TypeOK
  <2>3. pc'[d] \in {"done", "handler", "claim"} /\ (pc'[d] # "done" => out'[d] = "pending")
    BY <1>3 DEF TypeOK
  <2> QED BY <1>2, <1>5, <2>1, <2>2, <2>3 DEF CallOf, Accepted, PolicyOf, Active
<1>10. OutcomeOf(d)'
  BY <1>3, <1>8 DEF OutcomeOf, TypeOK
<1> QED BY <1>2, <1>4, <1>6, <1>7, <1>9, <1>10, StepKeeps

\* What a handler's result is stored as.
LEMMA EncodedType ==
    ASSUME TypeOK, NEW d \in Dispatches, request[d] # None, version[d] \in 1..MaxRelease
    PROVE  /\ Encoded(d) \in Result
           /\ (Encoded(d).type = "completion") <=> (Encoded(d).value = None)
           /\ Encoded(d).type = "snapshot" => Encoded(d).value = d
BY BoundsAssumption, NoneAssumption DEF TypeOK, Encoded, Result

\* A remembered result answers d if it is of the same request, and refuses d if
\* it is of another.
LEMMA ResolveKeeps ==
    ASSUME DispatchInv, NEW d \in Dispatches, pc[d] \in {"claim", "commit"},
           PolicyOf(d) # "NONE", Remembered(d), Resolve(d), TakeLease(d) \/ Leave(d),
           UNCHANGED <<registry, release, storage, request, version>>
    PROVE  DispatchInv'
<1> USE DEF DispatchInv, StateInv
<1> DEFINE i == IdentityOf(d)
<1>1. /\ Accepted(d) /\ Fingerprintable(request[d].body) /\ request[d] \in Requests
      /\ version[d] \in 1..MaxRelease /\ out[d] = "pending"
  BY DEF CallInv, CallOf, Active, TypeOK, Accepted
<1>2. i \in Identity /\ memory[i] # None
  BY <1>1, IdentityType DEF Remembered
<1>3. PICK x \in Dispatches : RememberedOf(i, memory[i], x)
  BY <1>2 DEF MemoryInv
<1>4. /\ request[x] \in Requests /\ request[x] # None /\ Executed(x)
      /\ Fingerprintable(request[x].body) /\ x # d
      /\ request[x].command \in DOMAIN handlers
  <2>1. Executed(x) /\ Accepted(x) /\ Fingerprintable(request[x].body)
    BY <1>3 DEF RememberedOf
  <2>2. x # d
    BY <2>1, NotYetExecuted
  <2> QED BY <2>1, <2>2 DEF Accepted, TypeOK
<1>5. /\ request[x].scope = request[d].scope /\ request[x].key = request[d].key
      /\ request[x].command = request[d].command
  BY <1>1, <1>3, <1>4 DEF RememberedOf, IdentityOf, Accepted, RegistryInv
<1>6. (Fingerprint(x) = Fingerprint(d)) <=> SameRequest(d, x)
  BY <1>1, <1>4, <1>5, FingerprintDecides DEF Fingerprint, SameRequest
<1>7. memory[i].fp = Fingerprint(x) /\ memory[i].result = Encoded(x)
  BY <1>3 DEF RememberedOf
<1>8. version[x] \in 1..MaxRelease
  BY <1>4 DEF CallInv, CallOf
<1>9. /\ Encoded(x) \in Result
      /\ Encoded(x).type = "snapshot" => Encoded(x).value = x
  BY <1>4, <1>8, EncodedType
<1>10. UNCHANGED <<handlers, frozen, release, memory, window, effects, request, version>>
  BY DEF registry, storage
<1>11. ~Executed(d) /\ ~Executed(d)' /\ Executed(x)'
  BY <1>4, <1>10, NotYetExecuted DEF Executed
<1>12. /\ SameRequest(d, x)' <=> SameRequest(d, x)
       /\ IdentityOf(x)' = IdentityOf(x) /\ IdentityOf(d)' = IdentityOf(d)
       /\ Accepted(d)' /\ PolicyOf(d)' = PolicyOf(d)
  BY <1>1, <1>10 DEF SameRequest, IdentityOf, Accepted, PolicyOf
<1>15. lease' \in [Identity -> Dispatches \cup {None}]
  BY LeaseType
<1>13. CASE memory[i].fp = Fingerprint(d)
  <2>1. /\ stored' = [stored EXCEPT ![d] = Encoded(x)]
        /\ pc' = [pc EXCEPT ![d] = "decode"] /\ out' = out
    BY <1>7, <1>13 DEF Resolve, Goto
  <2>2. TypeOK'
    BY <1>9, <1>10, <1>15, <2>1 DEF TypeOK
  <2>3. StepOf(d)
    BY <1>10, <2>1 DEF StepOf, TypeOK
  <2>4. EffectInv' /\ MemoryInv' /\ OncePerWindow'
    BY <2>3, StorageStays
  <2>8. LeaseInv'
    BY <2>1, <2>3, LeaseStays DEF Active, TypeOK
  <2>5. pc'[d] = "decode" /\ stored'[d] = Encoded(x) /\ out'[d] = "pending"
    BY <1>1, <2>1 DEF TypeOK
  <2>6. CallOf(d)'
    <3>1. Encoded(x)' = Encoded(x)
      BY <1>10 DEF Encoded
    <3>2. ResultOf(d, x)'
      BY <1>6, <1>7, <1>11, <1>12, <1>13, <2>5, <3>1 DEF ResultOf
    <3> QED BY <1>1, <1>9, <1>10, <1>12, <2>5, <3>2 DEF CallOf, Accepted, Active
  <2>7. OutcomeOf(d)'
    BY <2>5 DEF OutcomeOf
  <2> QED BY <2>2, <2>3, <2>4, <2>6, <2>7, <2>8, StepKeeps, ServedFrozen
<1>14. CASE memory[i].fp # Fingerprint(d)
  <2>1. /\ stored' = stored /\ pc' = [pc EXCEPT ![d] = "done"]
        /\ out' = [out EXCEPT ![d] = "conflict"]
    BY <1>14 DEF Resolve, Goto, End
  <2>2. TypeOK'
    BY <1>10, <1>15, <2>1 DEF TypeOK, Outcome
  <2>3. StepOf(d)
    BY <1>10, <2>1 DEF StepOf, TypeOK
  <2>4. EffectInv' /\ MemoryInv' /\ OncePerWindow'
    BY <2>3, StorageStays
  <2>9. LeaseInv'
    BY <2>1, <2>3, LeaseStays DEF Active, TypeOK
  <2>5. pc'[d] = "done" /\ out'[d] = "conflict"
    BY <2>1 DEF TypeOK
  <2>6. CallOf(d)'
    BY <1>1, <1>10, <2>5 DEF CallOf, Accepted, Active
  <2>7. UsedKeyOf(d, x)'
    <3>1. /\ IdentityOf(x) = IdentityOf(d) /\ PolicyOf(x) # "NONE"
          /\ pc[x] \in {"decode", "done"}
      BY <1>3, <1>4 DEF RememberedOf, EffectInv, Executed
    <3>2. pc'[x] = pc[x]
      BY <1>4, <2>1
    <3>3. PolicyOf(x)' = PolicyOf(x)
      BY <1>10 DEF PolicyOf
    <3> QED BY <1>4, <1>10, <1>12, <3>1, <3>2, <3>3 DEF UsedKeyOf
  <2>8. OutcomeOf(d)'
    BY <1>6, <1>7, <1>11, <1>12, <1>14, <2>5, <2>7 DEF OutcomeOf
  <2> QED BY <2>2, <2>3, <2>4, <2>6, <2>8, <2>9, StepKeeps, ServedFrozen
<1> QED BY <1>13, <1>14

\* A call that is let in, with the lease or without.
LEMMA LetInKeeps ==
    ASSUME DispatchInv, NEW d \in Dispatches, pc[d] = "claim", Goto(d, "handler"),
           TakeLease(d) \/ UNCHANGED lease,
           UNCHANGED <<registry, release, storage, request, version, stored, out>>
    PROVE  DispatchInv'
<1> USE DEF DispatchInv, StateInv
<1>1. Accepted(d) /\ PolicyOf(d) # "NONE" /\ Fingerprintable(request[d].body) /\ out[d] = "pending"
  BY DEF CallInv, CallOf, Active
<1>2. /\ pc' = [pc EXCEPT ![d] = "handler"] /\ stored' = stored /\ out' = out
      /\ UNCHANGED <<handlers, frozen, release, memory, window, effects, request, version>>
  BY DEF Goto, registry, storage
<1>3. lease' \in [Identity -> Dispatches \cup {None}]
  BY LeaseType DEF Leave
<1>4. TypeOK' /\ StepOf(d) /\ pc'[d] = "handler"
  BY <1>2, <1>3 DEF TypeOK, StepOf
<1>5. EffectInv' /\ MemoryInv' /\ OncePerWindow'
  BY <1>4, StorageStays
<1>6. LeaseInv'
  BY <1>1, <1>4, LeaseStays DEF Leave, Active
<1>7. CallOf(d)' /\ OutcomeOf(d)'
  BY <1>1, <1>2, <1>4 DEF CallInv, CallOf, Active, Accepted, PolicyOf, OutcomeOf
<1> QED BY <1>4, <1>5, <1>6, <1>7, StepKeeps, ServedFrozen

\* A call that meets the lease of another is put off by its twin and refused by
\* another request.
LEMMA BusyKeeps ==
    ASSUME DispatchInv, NEW d \in Dispatches, pc[d] = "claim",
           lease[IdentityOf(d)] # None,
           End(d, IF Fingerprint(lease[IdentityOf(d)]) = Fingerprint(d) THEN "in_progress"
                  ELSE "conflict"),
           UNCHANGED <<registry, release, storage, lease, request, version, stored>>
    PROVE  DispatchInv'
<1> USE DEF DispatchInv, StateInv
<1>1. /\ Accepted(d) /\ PolicyOf(d) # "NONE" /\ Fingerprintable(request[d].body)
      /\ request[d] \in Requests
  BY DEF CallInv, CallOf, Active, Accepted, TypeOK
<1>2. IdentityOf(d) \in Identity
  BY <1>1, IdentityType
<1>3. PICK x \in Dispatches : x = lease[IdentityOf(d)] /\ HolderOf(IdentityOf(d), x)
  BY <1>2 DEF LeaseInv, TypeOK
<1>4. /\ request[x] \in Requests /\ request[x] # None /\ Fingerprintable(request[x].body)
      /\ request[x].command \in DOMAIN handlers /\ PolicyOf(x) # "NONE"
      /\ IdentityOf(x) = IdentityOf(d) /\ pc[x] \notin {"idle", "claim"} /\ x # d
  BY <1>3 DEF HolderOf, Accepted, TypeOK
<1>5. /\ request[x].scope = request[d].scope /\ request[x].key = request[d].key
      /\ request[x].command = request[d].command
  BY <1>1, <1>4 DEF IdentityOf, Accepted, RegistryInv
<1>6. (Fingerprint(x) = Fingerprint(d)) <=> SameRequest(d, x)
  BY <1>1, <1>4, <1>5, FingerprintDecides DEF Fingerprint, SameRequest
<1> DEFINE o == IF Fingerprint(x) = Fingerprint(d) THEN "in_progress" ELSE "conflict"
<1>7. /\ pc' = [pc EXCEPT ![d] = "done"] /\ out' = [out EXCEPT ![d] = o]
      /\ UNCHANGED <<handlers, frozen, release, memory, window, effects, lease, request, version, stored>>
  BY <1>3 DEF End, Goto, registry, storage
<1>8. /\ TypeOK' /\ StepOf(d) /\ pc'[d] = "done" /\ out'[d] = o
      /\ pc'[x] = pc[x] /\ Leave(d)
  BY <1>4, <1>7 DEF TypeOK, Outcome, StepOf, Leave
<1>9. EffectInv' /\ MemoryInv' /\ OncePerWindow' /\ LeaseInv'
  BY <1>8, StorageStays, LeaseStays
<1>10. CallOf(d)'
  BY <1>1, <1>7, <1>8 DEF CallInv, CallOf, Active, Accepted
<1>11. UsedKeyOf(d, x)' /\ (SameRequest(d, x)' <=> SameRequest(d, x))
  BY <1>4, <1>7, <1>8 DEF UsedKeyOf, PolicyOf, IdentityOf, SameRequest
<1>12. ~Executed(d)'
  BY <1>7, NotYetExecuted DEF Executed
<1>13. OutcomeOf(d)'
  BY <1>6, <1>8, <1>11, <1>12 DEF OutcomeOf
<1> QED BY <1>8, <1>9, <1>10, <1>13, StepKeeps, ServedFrozen

LEMMA ClaimKeeps ==
    ASSUME DispatchInv, NEW d \in Dispatches, Claim(d) \/ ClaimWithoutHot(d)
    PROVE  DispatchInv'
<1>1. pc[d] = "claim" /\ UNCHANGED <<registry, release, storage, request, version>>
  BY DEF Claim, ClaimWithoutHot
<1>2. PolicyOf(d) # "NONE"
  BY <1>1 DEF DispatchInv, StateInv, CallInv, CallOf, Active
<1>3. CASE Remembered(d) /\ Resolve(d) /\ (TakeLease(d) \/ UNCHANGED lease)
  BY <1>1, <1>2, <1>3, ResolveKeeps DEF Leave
<1>4. CASE /\ Goto(d, "handler") /\ (TakeLease(d) \/ UNCHANGED lease)
           /\ UNCHANGED <<stored, out>>
  BY <1>1, <1>4, LetInKeeps
<1>5. CASE /\ lease[IdentityOf(d)] # None /\ UNCHANGED <<stored, lease>>
           /\ End(d, IF Fingerprint(lease[IdentityOf(d)]) = Fingerprint(d)
                     THEN "in_progress" ELSE "conflict")
  BY <1>1, <1>5, BusyKeeps
<1> QED BY <1>3, <1>4, <1>5 DEF Claim, ClaimWithoutHot

LEMMA HandlerKeeps ==
    ASSUME DispatchInv, NEW d \in Dispatches, Handler(d)
    PROVE  DispatchInv'
<1> USE DEF DispatchInv, StateInv
<1>1. /\ pc[d] = "handler" /\ pc' = [pc EXCEPT ![d] = "commit"]
      /\ stored' = [stored EXCEPT ![d] = Encoded(d)] /\ out' = out
      /\ UNCHANGED <<handlers, frozen, release, memory, window, effects, lease, request, version>>
  BY DEF Handler, Goto, registry, storage
<1>2. /\ Accepted(d) /\ version[d] \in 1..MaxRelease /\ out[d] = "pending"
      /\ PolicyOf(d) # "NONE" => Fingerprintable(request[d].body)
  BY <1>1 DEF CallInv, CallOf, Active
<1>3. Encoded(d) \in Result /\ Encoded(d)' = Encoded(d)
  BY <1>1, <1>2, EncodedType DEF Accepted, Encoded
<1>4. TypeOK' /\ StepOf(d) /\ pc'[d] = "commit" /\ stored'[d] = Encoded(d)
  BY <1>1, <1>3 DEF TypeOK, StepOf
<1>5. EffectInv' /\ MemoryInv' /\ OncePerWindow' /\ LeaseInv'
  BY <1>1, <1>4, StorageStays, LeaseStays DEF storage, Leave
<1>6. CallOf(d)' /\ OutcomeOf(d)'
  BY <1>1, <1>2, <1>3, <1>4 DEF CallInv, CallOf, Active, Accepted, PolicyOf, OutcomeOf
<1> QED BY <1>1, <1>4, <1>5, <1>6, StepKeeps, ServedFrozen

\* A call that ends, with an outcome that fits it.
LEMMA EndKeeps ==
    ASSUME DispatchInv, NEW d \in Dispatches, NEW o \in Outcome, pc[d] \in Active, End(d, o),
           UNCHANGED <<registry, release, storage, request, version, stored>>, Leave(d),
           o \notin {"conflict", "in_progress"}, Executed(d) => o \in {"ok", "unavailable"},
           o = "ok" /\ request[d].mode = "REPLAYABLE" =>
               Executed(stored[d].value) /\ SameRequest(d, stored[d].value),
           o \in {"not_stored", "replay_unavailable"} =>
               /\ request[d].mode = "REPLAYABLE"
               /\ \E x \in Dispatches \ {d} : WhyUnreadable(d, x, o)
    PROVE  DispatchInv'
<1> USE DEF DispatchInv, StateInv
<1>1. /\ pc' = [pc EXCEPT ![d] = "done"] /\ out' = [out EXCEPT ![d] = o]
      /\ UNCHANGED <<handlers, frozen, release, memory, window, effects, request, version, stored>>
  BY DEF End, Goto, registry, storage
<1>2. Accepted(d) /\ version[d] \in 1..MaxRelease
  BY DEF CallInv, CallOf, Active
<1>7. lease' \in [Identity -> Dispatches \cup {None}]
  BY LeaseType
<1>3. TypeOK' /\ StepOf(d) /\ pc'[d] = "done" /\ out'[d] = o
  BY <1>1, <1>7 DEF TypeOK, StepOf, Active
<1>4. EffectInv' /\ MemoryInv' /\ OncePerWindow' /\ LeaseInv'
  BY <1>3, StorageStays, LeaseStays
<1>5. CallOf(d)'
  BY <1>1, <1>2, <1>3 DEF CallOf, Active, Accepted
<1>6. OutcomeOf(d)'
  <2>1. \A x : WhyUnreadable(d, x, o)' <=> WhyUnreadable(d, x, o)
    BY <1>1 DEF WhyUnreadable, Executed, SameRequest
  <2> QED BY <1>1, <1>3, <2>1 DEF OutcomeOf, Executed, SameRequest
<1> QED BY <1>3, <1>4, <1>5, <1>6, StepKeeps, ServedFrozen DEF Active

LEMMA EndingsKeep ==
    ASSUME DispatchInv, NEW d \in Dispatches, HandlerFails(d) \/ Decode(d) \/ Unavailable(d)
    PROVE  DispatchInv'
<1> USE DEF DispatchInv, StateInv
<1>1. CASE HandlerFails(d)
  <2>1. pc[d] = "handler" /\ ~Executed(d)
    BY <1>1, NotYetExecuted DEF HandlerFails
  <2> QED BY <1>1, <2>1, EndKeeps DEF HandlerFails, Outcome, Active
<1>2. CASE Unavailable(d)
  BY <1>2, EndKeeps DEF Unavailable, Outcome, Active
<1>3. CASE Decode(d)
  <2>1. /\ pc[d] = "decode" /\ End(d, Answer(d))
        /\ UNCHANGED <<registry, release, storage, request, version, stored>> /\ Leave(d)
    BY <1>3 DEF Decode, Leave
  <2>2. Accepted(d) /\ version[d] \in 1..MaxRelease /\ stored[d] \in Result
    BY <2>1 DEF CallInv, CallOf, Active
  <2>10. PICK x \in Dispatches : ResultOf(d, x)
    BY <2>1 DEF CallInv, CallOf
  <2>11. request[x] \in Requests /\ request[x].mode \in {"REPLAYABLE", "COMPLETION_ONLY"}
    <3>1. Accepted(x)
      BY <2>10 DEF ResultOf, Executed, EffectInv
    <3> QED BY <3>1, RequestsAssumption DEF Accepted, TypeOK, Modes
  <2>3. request[d] \in Requests /\ request[d].mode \in {"REPLAYABLE", "COMPLETION_ONLY"}
    BY <2>2, RequestsAssumption DEF Accepted, TypeOK, Modes
  <2>4. Executed(d) => stored[d] = Encoded(d)
    BY <2>1 DEF EffectInv, Executed
  <2>5. Executed(d) => Answer(d) \in {"ok", "unavailable"}
    BY <2>3, <2>4 DEF Answer, Encoded
  <2>6. Answer(d) \in {"ok", "not_stored", "replay_unavailable"}
    BY DEF Answer
  <2>7. Answer(d) = "ok" /\ request[d].mode = "REPLAYABLE" =>
            Executed(stored[d].value) /\ SameRequest(d, stored[d].value)
    BY <2>2, <2>10, <2>11 DEF Answer, Result, ResultOf, Encoded
  <2>8. Answer(d) \in {"not_stored", "replay_unavailable"} =>
            /\ request[d].mode = "REPLAYABLE"
            /\ \E y \in Dispatches \ {d} : WhyUnreadable(d, y, Answer(d))
    <3> SUFFICES ASSUME Answer(d) \in {"not_stored", "replay_unavailable"}
                 PROVE  /\ request[d].mode = "REPLAYABLE"
                        /\ x # d /\ WhyUnreadable(d, x, Answer(d))
      OBVIOUS
    <3>1. request[d].mode = "REPLAYABLE"
      BY <2>3 DEF Answer
    <3>2. x # d
      BY <2>5, <2>10 DEF ResultOf
    <3>3. CASE Answer(d) = "not_stored"
      BY <2>10, <2>11, <3>1, <3>3 DEF Answer, ResultOf, Encoded, WhyUnreadable
    <3>4. CASE Answer(d) = "replay_unavailable"
      BY <2>10, <2>11, <3>1, <3>4 DEF Answer, ResultOf, Encoded, WhyUnreadable
    <3> QED BY <3>1, <3>2, <3>3, <3>4
  <2>9. Answer(d) \in Outcome /\ Answer(d) \notin {"conflict", "in_progress"}
    BY <2>6 DEF Outcome
  <2> QED BY <2>1, <2>5, <2>7, <2>8, <2>9, EndKeeps DEF Active
<1> QED BY <1>1, <1>2, <1>3

\* The effect of d, and what is remembered of it, where nothing was remembered.
LEMMA EffectKeeps ==
    ASSUME DispatchInv, NEW d \in Dispatches, NEW l \in {"decode", "done"}, NEW o \in Outcome,
           pc[d] = "commit", PolicyOf(d) = "NONE" \/ ~Remembered(d), Effect(d),
           pc' = [pc EXCEPT ![d] = l], out' = [out EXCEPT ![d] = o],
           l = "decode" => o = "pending", l = "done" => o = "unavailable", Leave(d),
           UNCHANGED <<registry, release, window, request, version, stored>>
    PROVE  DispatchInv'
<1> USE DEF DispatchInv, StateInv
<1> DEFINE i == IdentityOf(d)
<1> DEFINE w == IF PolicyOf(d) = "NONE" THEN 0 ELSE window[i]
<1>1. /\ Accepted(d) /\ version[d] \in 1..MaxRelease /\ stored[d] = Encoded(d)
      /\ PolicyOf(d) # "NONE" => Fingerprintable(request[d].body)
      /\ request[d] # None /\ request[d] \in Requests
  BY DEF CallInv, CallOf, Active, Accepted, TypeOK
<1>2. i \in Identity /\ w \in Nat
  BY <1>1, IdentityType, BoundsAssumption DEF TypeOK
<1>3. UNCHANGED <<handlers, frozen, release, window, request, version, stored>>
  BY DEF registry
<1>4. effects' = effects \cup {[by |-> d, window |-> w]}
  BY DEF Effect
<1>5. /\ PolicyOf(d) = "NONE" => memory' = memory
      /\ PolicyOf(d) # "NONE" =>
             /\ memory[i] = None
             /\ memory' = [memory EXCEPT ![i] = [fp |-> Fingerprint(d), result |-> Encoded(d)]]
  BY <1>1 DEF Effect, Remembered
<1>6. /\ Encoded(d) \in Result
      /\ (Encoded(d).type = "completion") <=> (Encoded(d).value = None)
      /\ Encoded(d).type = "snapshot" => Encoded(d).value = d
  BY <1>1, EncodedType
<1>7. PolicyOf(d) # "NONE" => /\ memory' = [j \in Identity |-> IF j = i THEN memory'[i] ELSE memory[j]]
                              /\ memory'[i] = [fp |-> Fingerprint(d), result |-> Encoded(d)]
                              /\ memory'[i] # None
  <2>1. ASSUME PolicyOf(d) # "NONE" PROVE [fp |-> Fingerprint(d), result |-> Encoded(d)] # None
    BY <1>1, <1>6, <2>1, NoneAssumption DEF Fingerprint
  <2> QED BY <1>2, <1>5, <2>1 DEF MemoryInv
<1>8. pc'[d] = l /\ out'[d] = o
  BY DEF TypeOK
<1>9. TypeOK'
  <2>1. ASSUME NEW j \in Identity, memory'[j] # None
        PROVE  /\ memory'[j].result \in Result
               /\ (memory'[j].result.type = "completion") <=> (memory'[j].result.value = None)
    BY <1>5, <1>6, <1>7, <2>1 DEF TypeOK
  <2>2. lease' \in [Identity -> Dispatches \cup {None}]
    BY LeaseType
  <2> QED BY <1>3, <2>1, <2>2 DEF TypeOK
<1>10. StepOf(d)
  BY <1>3, <1>4 DEF StepOf, TypeOK
<1>11. Executed(d)' /\ ~Executed(d)
  <2>1. [by |-> d, window |-> w] \in effects' /\ [by |-> d, window |-> w].by = d
    BY <1>4
  <2>2. Executed(d)'
    BY <2>1 DEF Executed
  <2> QED BY <2>2, NotYetExecuted
<1>12. /\ Accepted(d)' /\ IdentityOf(d)' = i /\ PolicyOf(d)' = PolicyOf(d)
       /\ Fingerprint(d)' = Fingerprint(d) /\ Encoded(d)' = Encoded(d)
  BY <1>1, <1>3 DEF Accepted, IdentityOf, PolicyOf, Fingerprint, Encoded
<1>13. SameRequest(d, d)'
  BY <1>1, <1>3, SameBodyReflexive DEF SameRequest
<1>14. CallOf(d)'
  <2>1. ResultOf(d, d)'
    BY <1>1, <1>3, <1>11, <1>12, <1>13 DEF ResultOf
  <2> QED BY <1>1, <1>3, <1>6, <1>8, <1>12, <2>1 DEF CallOf, Active
<1>15. OutcomeOf(d)'
  BY <1>8 DEF OutcomeOf
<1>16. ASSUME NEW e \in effects
       PROVE  /\ e.by \in Dispatches /\ e.by # d /\ Executed(e.by)
              /\ Accepted(e.by)' /\ IdentityOf(e.by)' = IdentityOf(e.by)
              /\ IdentityOf(e.by) \in Identity
              /\ PolicyOf(e.by)' = PolicyOf(e.by) /\ Encoded(e.by)' = Encoded(e.by)
              /\ pc'[e.by] = pc[e.by] /\ stored'[e.by] = stored[e.by]
  <2>1. Executed(e.by) /\ e.by \in Dispatches /\ Accepted(e.by)
    BY DEF Executed, EffectInv
  <2>2. e.by # d
    BY <1>11, <2>1
  <2>3. IdentityOf(e.by) \in Identity
    BY <2>1, IdentityType
  <2> QED BY <1>10, <2>1, <2>2, <2>3, OthersStay DEF StepOf
<1>17. EffectInv'
  <2>1. ASSUME NEW e \in effects'
        PROVE  /\ e.by \in Dispatches /\ e.window \in Nat
               /\ Accepted(e.by)'
               /\ pc'[e.by] \in {"decode", "done"}
               /\ pc'[e.by] = "decode" => stored'[e.by] = Encoded(e.by)'
               /\ PolicyOf(e.by)' # "NONE" =>
                     \/ e.window < window'[IdentityOf(e.by)']
                     \/ e.window = window'[IdentityOf(e.by)'] /\ memory'[IdentityOf(e.by)'] # None
    <3>1. CASE e \in effects
      BY <1>3, <1>5, <1>7, <1>16, <3>1 DEF EffectInv
    <3>2. CASE e = [by |-> d, window |-> w]
      BY <1>1, <1>2, <1>3, <1>7, <1>8, <1>12, <3>2
    <3> QED BY <1>4, <3>1, <3>2
  <2> QED BY <2>1 DEF EffectInv
<1>18. MemoryInv'
  <2>1. memory' = [j \in Identity |-> memory'[j]]
    BY <1>5, <1>7 DEF MemoryInv
  <2>2. ASSUME NEW j \in Identity, memory'[j] # None
        PROVE  \E x \in Dispatches : RememberedOf(j, memory[j], x)'
    <3>1. CASE PolicyOf(d) # "NONE" /\ j = i
      <4>1. RememberedOf(j, memory[j], d)'
        BY <1>1, <1>3, <1>7, <1>11, <1>12, <3>1 DEF RememberedOf
      <4> QED BY <4>1
    <3>2. CASE ~(PolicyOf(d) # "NONE" /\ j = i)
      <4>1. memory'[j] = memory[j]
        BY <1>5, <1>7, <3>2
      <4>2. PICK x \in Dispatches : RememberedOf(j, memory[j], x)
        BY <2>2, <4>1 DEF MemoryInv
      <4>3. x # d
        BY <1>11, <4>2 DEF RememberedOf
      <4>4. RememberedOf(j, memory[j], x)'
        BY <1>10, <4>1, <4>2, <4>3, OthersStay DEF RememberedOf, StepOf
      <4> QED BY <4>4
    <3> QED BY <3>1, <3>2
  <2> QED BY <2>1, <2>2 DEF MemoryInv
<1>19. OncePerWindow'
  <2>1. ASSUME NEW e \in effects, PolicyOf(d) # "NONE", PolicyOf(e.by) # "NONE",
               IdentityOf(e.by) = i
        PROVE  e.window # w
    BY <1>2, <1>5, <2>1 DEF EffectInv, TypeOK
  <2>2. ASSUME NEW e \in effects', NEW f \in effects', e.by # f.by,
               PolicyOf(e.by)' # "NONE", PolicyOf(f.by)' # "NONE",
               IdentityOf(e.by)' = IdentityOf(f.by)'
        PROVE  e.window # f.window
    <3>1. CASE e \in effects /\ f \in effects
      BY <1>16, <2>2, <3>1 DEF OncePerWindow
    <3>2. CASE e \in effects /\ f = [by |-> d, window |-> w]
      BY <1>12, <1>16, <2>1, <2>2, <3>2
    <3>3. CASE f \in effects /\ e = [by |-> d, window |-> w]
      BY <1>12, <1>16, <2>1, <2>2, <3>3
    <3>4. CASE e = f
      BY <2>2, <3>4
    <3> QED BY <1>4, <3>1, <3>2, <3>3, <3>4
  <2> QED BY <2>2 DEF OncePerWindow
<1>20. LeaseInv'
  BY <1>10, LeaseStays
<1> QED BY <1>9, <1>10, <1>14, <1>15, <1>17, <1>18, <1>19, <1>20, StepKeeps, ServedFrozen

LEMMA CommitsKeep ==
    ASSUME DispatchInv, NEW d \in Dispatches, Commit(d) \/ CommitUnknown(d)
    PROVE  DispatchInv'
<1> USE DEF DispatchInv, StateInv
<1>1. pc[d] = "commit" /\ out[d] = "pending"
  BY DEF Commit, CommitUnknown, CallInv, CallOf
<1>2. CASE Commit(d) /\ PolicyOf(d) # "NONE" /\ Remembered(d) /\ Resolve(d) /\ UNCHANGED <<memory, effects>>
  BY <1>1, <1>2, ResolveKeeps DEF Commit, storage
<1>3. CASE Commit(d) /\ (PolicyOf(d) = "NONE" \/ ~Remembered(d)) /\ Effect(d)
           /\ Goto(d, "decode") /\ UNCHANGED <<stored, out>>
  <2>1. out' = [out EXCEPT ![d] = "pending"]
    BY <1>1, <1>3 DEF TypeOK
  <2> QED BY <1>1, <1>3, <2>1, EffectKeeps DEF Commit, Goto, Outcome
<1>4. CASE CommitUnknown(d)
  BY <1>1, <1>4, EffectKeeps DEF CommitUnknown, Goto, End, Outcome
<1> QED BY <1>2, <1>3, <1>4 DEF Commit

-----------------------------------------------------------------------------
(* The steps of nobody's call.                                             *)

LEMMA RegisterKeeps ==
    ASSUME DispatchInv, NEW r \in Registrations, Register(r)
    PROVE  DispatchInv'
<1> USE DEF DispatchInv, StateInv
<1>1. /\ ~frozen /\ Free(r)
      /\ handlers' = [c \in DOMAIN handlers \cup {r.command} |->
                         IF c = r.command THEN r ELSE handlers[c]]
      /\ UNCHANGED <<frozen, release, memory, window, effects, lease, request, version, pc, stored, out>>
  BY DEF Register, storage, calls
<1>2. \A d \in Dispatches : pc[d] = "idle" /\ request[d] = None /\ out[d] = "pending" /\ ~Executed(d)
  BY <1>1, NotYetExecuted DEF RegistryInv, CallInv, CallOf
<1>3. effects = {} /\ \A i \in Identity : memory[i] = None
  BY <1>2 DEF EffectInv, Executed, MemoryInv, RememberedOf
<1>4. handlers' \in UNION {[S -> Registrations] : S \in SUBSET {q.command : q \in Registrations}}
  <2>1. DOMAIN handlers \subseteq {q.command : q \in Registrations}
    BY DEF TypeOK
  <2>2. handlers' \in [DOMAIN handlers \cup {r.command} -> Registrations]
    BY <1>1 DEF RegistryInv
  <2> QED BY <2>1, <2>2
<1>5. TypeOK'
  BY <1>1, <1>4 DEF TypeOK
<1>6. RegistryInv'
  <2>1. DOMAIN handlers' = DOMAIN handlers \cup {r.command}
    BY <1>1
  <2>2. \A c \in DOMAIN handlers' : handlers'[c] = IF c = r.command THEN r ELSE handlers[c]
    BY <1>1
  <2> QED BY <1>1, <2>1, <2>2 DEF RegistryInv, Free
<1>7. CallInv' /\ OutcomeInv'
  BY <1>1, <1>2, <1>3 DEF CallInv, CallOf, OutcomeInv, OutcomeOf, Executed, Active
<1>8. EffectInv' /\ MemoryInv' /\ OncePerWindow'
  BY <1>1, <1>3 DEF EffectInv, MemoryInv, OncePerWindow
<1>9. \A i \in Identity : lease[i] = None
  BY <1>2 DEF LeaseInv, HolderOf, TypeOK
<1>10. LeaseInv'
  BY <1>1, <1>9 DEF LeaseInv
<1> QED BY <1>5, <1>6, <1>7, <1>8, <1>10

\* What the registry, the calls and the effects determine.
LEMMA Frame ==
    ASSUME UNCHANGED <<handlers, effects, calls>>, NEW x, NEW y
    PROVE  /\ Executed(x)' <=> Executed(x)
           /\ Accepted(x)' <=> Accepted(x)
           /\ PolicyOf(x)' = PolicyOf(x) /\ IdentityOf(x)' = IdentityOf(x)
           /\ Fingerprint(x)' = Fingerprint(x) /\ Encoded(x)' = Encoded(x)
           /\ SameRequest(x, y)' <=> SameRequest(x, y)
           /\ HolderOf(y, x)' <=> HolderOf(y, x)
           /\ CallOf(x)' <=> CallOf(x)
           /\ OutcomeOf(x)' <=> OutcomeOf(x)
<1>1. UNCHANGED <<handlers, effects, request, version, pc, stored, out>>
  BY DEF calls
<1>2. \A z : /\ Executed(z)' <=> Executed(z)
             /\ Accepted(z)' <=> Accepted(z)
             /\ PolicyOf(z)' = PolicyOf(z) /\ IdentityOf(z)' = IdentityOf(z)
             /\ Fingerprint(z)' = Fingerprint(z) /\ Encoded(z)' = Encoded(z)
  BY <1>1 DEF Executed, Accepted, PolicyOf, IdentityOf, Fingerprint, Encoded
<1>3. \A z : SameRequest(x, z)' <=> SameRequest(x, z)
  BY <1>1 DEF SameRequest
<1>4. CallOf(x)' <=> CallOf(x)
  BY <1>1, <1>2, <1>3 DEF CallOf, ResultOf
<1>5. OutcomeOf(x)' <=> OutcomeOf(x)
  BY <1>1, <1>2, <1>3 DEF OutcomeOf, UsedKeyOf, WhyUnreadable
<1>6. HolderOf(y, x)' <=> HolderOf(y, x)
  BY <1>1, <1>2 DEF HolderOf
<1> QED BY <1>2, <1>3, <1>4, <1>5, <1>6

LEMMA OutsideKeeps ==
    ASSUME DispatchInv,
           Freeze \/ Deploy \/ (\E i \in Identity : Expire(i) \/ LeaseLost(i)) \/ UNCHANGED vars
    PROVE  DispatchInv'
<1> USE DEF DispatchInv, StateInv
<1>1. /\ UNCHANGED <<handlers, effects, request, version, pc, stored, out>>
      /\ frozen => frozen'
  BY DEF Freeze, Deploy, Expire, LeaseLost, vars, registry, storage, calls
<1>2. UNCHANGED <<handlers, effects, calls>>
  BY <1>1 DEF calls
<1>3. CallInv' /\ OutcomeInv' /\ RegistryInv' /\ OncePerWindow' /\ LeaseInv'
  <2>1. CallInv'
    BY <1>2, Frame DEF CallInv
  <2>2. OutcomeInv'
    BY <1>2, Frame DEF OutcomeInv
  <2>3. RegistryInv'
    BY <1>1 DEF RegistryInv
  <2>4. OncePerWindow'
    BY <1>1, <1>2, Frame DEF OncePerWindow
  <2>5. ASSUME NEW i \in Identity, lease'[i] # None
        PROVE  lease'[i] = lease[i] /\ HolderOf(i, lease[i])
    <3>1. lease'[i] = lease[i]
      BY <2>5 DEF Freeze, Deploy, Expire, LeaseLost, vars, TypeOK
    <3> QED BY <2>5, <3>1 DEF LeaseInv
  <2>6. LeaseInv'
    <3>1. ASSUME NEW i \in Identity, NEW x, HolderOf(i, x) PROVE HolderOf(i, x)'
      BY <1>2, <3>1, Frame
    <3>2. ASSUME NEW i \in Identity, lease'[i] # None
          PROVE  \E x : x = lease'[i] /\ HolderOf(i, x)'
      BY <2>5, <3>1, <3>2
    <3> QED BY <3>2 DEF LeaseInv, HolderOf, Accepted, PolicyOf, IdentityOf
  <2> QED BY <2>1, <2>2, <2>3, <2>4, <2>6
<1>6. lease' \in [Identity -> Dispatches \cup {None}]
  BY DEF Freeze, Deploy, Expire, LeaseLost, vars, TypeOK
<1>4. CASE \/ Freeze \/ Deploy \/ UNCHANGED vars
           \/ \E i \in Identity : LeaseLost(i)
  <2>1. UNCHANGED <<memory, window>> /\ frozen' \in BOOLEAN /\ release' \in 1..MaxRelease
    <3>1. UNCHANGED <<memory, window>>
      BY <1>4 DEF Freeze, Deploy, LeaseLost, vars, storage
    <3>2. frozen' = frozen \/ frozen' = TRUE
      BY <1>4 DEF Freeze, Deploy, LeaseLost, vars, registry
    <3>3. release' = release \/ (release < MaxRelease /\ release' = release + 1)
      BY <1>4 DEF Freeze, Deploy, LeaseLost, vars
    <3>4. frozen' \in BOOLEAN
      BY <3>2, Zenon DEF TypeOK
    <3>5. release' \in 1..MaxRelease
      BY <3>3, BoundsAssumption DEF TypeOK
    <3> QED BY <3>1, <3>4, <3>5
  <2>4. TypeOK'
    BY <1>1, <1>6, <2>1 DEF TypeOK
  <2>2. EffectInv'
    BY <1>1, <1>2, <2>1, Frame DEF EffectInv
  <2>3. MemoryInv'
    BY <1>1, <1>2, <2>1, Frame DEF MemoryInv, RememberedOf
  <2> QED BY <1>3, <2>2, <2>3, <2>4
<1>5. ASSUME NEW i \in Identity, Expire(i) PROVE DispatchInv'
  <2>1. /\ memory' = [memory EXCEPT ![i] = None] /\ window' = [window EXCEPT ![i] = @ + 1]
        /\ window[i] < MaxWindow /\ UNCHANGED <<frozen, release>>
    BY <1>5 DEF Expire, registry
  <2>2. /\ \A j \in Identity : memory'[j] = IF j = i THEN None ELSE memory[j]
        /\ memory' = [j \in Identity |-> memory'[j]]
        /\ \A j \in Identity : window'[j] = IF j = i THEN window[i] + 1 ELSE window[j]
        /\ window' \in [Identity -> 0..MaxWindow]
    BY <2>1, BoundsAssumption DEF MemoryInv, TypeOK
  <2>3. TypeOK'
    BY <1>1, <1>6, <2>1, <2>2 DEF TypeOK
  <2>4. ASSUME NEW e \in effects PROVE IdentityOf(e.by) \in Identity
    BY IdentityType DEF EffectInv
  <2>5. EffectInv'
    <3>1. ASSUME NEW e \in effects, PolicyOf(e.by) # "NONE"
          PROVE  \/ e.window < window'[IdentityOf(e.by)]
                 \/ /\ e.window = window'[IdentityOf(e.by)]
                    /\ memory'[IdentityOf(e.by)] # None
      <4>1. e.window \in Nat /\ window[IdentityOf(e.by)] \in Nat
        BY <2>4, BoundsAssumption DEF EffectInv, TypeOK
      <4>2. \/ e.window < window[IdentityOf(e.by)]
            \/ e.window = window[IdentityOf(e.by)] /\ memory[IdentityOf(e.by)] # None
        BY <3>1 DEF EffectInv
      <4> QED BY <2>2, <2>4, <4>1, <4>2
    <3> QED BY <1>1, <1>2, <3>1, Frame DEF EffectInv
  <2>6. MemoryInv'
    BY <1>1, <1>2, <2>2, Frame DEF MemoryInv, RememberedOf
  <2> QED BY <1>3, <2>3, <2>5, <2>6
<1> QED BY <1>4, <1>5

-----------------------------------------------------------------------------
\* The invariant holds in every reachable state.
LEMMA DispatchInvariant == Spec => []DispatchInv
<1>1. Init => DispatchInv
  <2> SUFFICES ASSUME Init PROVE DispatchInv
    OBVIOUS
  <2> USE DEF Init
  <2>1. handlers \in [{} -> Registrations]
    OBVIOUS
  <2>2. TypeOK
    <3>1. /\ handlers \in UNION {[S -> Registrations] : S \in SUBSET {r.command : r \in Registrations}}
          /\ frozen \in BOOLEAN /\ release \in 1..MaxRelease
      <4>1. {} \in SUBSET {r.command : r \in Registrations}
        OBVIOUS
      <4>2. handlers \in UNION {[S -> Registrations] : S \in SUBSET {r.command : r \in Registrations}}
        BY <2>1, <4>1
      <4>3. release \in 1..MaxRelease
        BY BoundsAssumption
      <4> QED BY <4>2, <4>3
    <3>2. /\ \A i \in Identity : memory[i] = None
          /\ window \in [Identity -> 0..MaxWindow] /\ version \in [Dispatches -> 0..MaxRelease]
          /\ lease \in [Identity -> Dispatches \cup {None}]
      BY BoundsAssumption
    <3>3. /\ request \in [Dispatches -> Requests \cup {None}]
          /\ pc \in [Dispatches -> {"idle", "claim", "handler", "commit", "decode", "done"}]
          /\ stored \in [Dispatches -> Result \cup {None}] /\ out \in [Dispatches -> Outcome]
      BY DEF Outcome
    <3> QED BY <3>1, <3>2, <3>3 DEF TypeOK
  <2>3. RegistryInv /\ CallInv /\ OutcomeInv
    BY DEF RegistryInv, CallInv, CallOf, OutcomeInv, OutcomeOf, Executed, Active
  <2>4. EffectInv /\ MemoryInv /\ LeaseInv /\ OncePerWindow
    BY DEF EffectInv, MemoryInv, LeaseInv, OncePerWindow
  <2> QED BY <2>2, <2>3, <2>4 DEF DispatchInv, StateInv
<1>2. DispatchInv /\ [Next]_vars => DispatchInv'
  <2> SUFFICES ASSUME DispatchInv, [Next]_vars PROVE DispatchInv'
    OBVIOUS
  <2>1. ASSUME NEW d \in Dispatches,
               \/ Dispatch(d) \/ Claim(d) \/ ClaimWithoutHot(d)
               \/ Handler(d) \/ HandlerFails(d)
               \/ Commit(d) \/ CommitUnknown(d) \/ Decode(d) \/ Unavailable(d)
        PROVE  DispatchInv'
    BY <2>1, DispatchKeeps, ClaimKeeps, HandlerKeeps, CommitsKeep, EndingsKeep
  <2>2. ASSUME NEW r \in Registrations, Register(r) PROVE DispatchInv'
    BY <2>2, RegisterKeeps
  <2>3. CASE Freeze \/ Deploy \/ (\E i \in Identity : Expire(i) \/ LeaseLost(i)) \/ UNCHANGED vars
    BY <2>3, OutsideKeeps
  <2> QED BY <2>1, <2>2, <2>3 DEF Next
<1> QED BY <1>1, <1>2, PTL DEF Spec

\* Type correctness of the bus for any calls, registrations and releases.
THEOREM DispatchTypes == Spec => []TypeOK
<1>1. DispatchInv => TypeOK
  BY DEF DispatchInv, StateInv
<1> QED BY <1>1, DispatchInvariant, PTL

\* A caller gets the result of its own request, "conflict" only for a key that
\* another request has been brought to, and "in progress" only for a twin.
THEOREM ResultsAreOwn == Spec => []ResultIsOfOwnRequest
<1>1. DispatchInv => ResultIsOfOwnRequest
  BY OutcomesTogether DEF DispatchInv
<1> QED BY <1>1, DispatchInvariant, PTL

\* An identity has one effect per window, whatever modes and releases are mixed.
THEOREM ExecutesOncePerWindow == Spec => []OncePerWindow
<1>1. DispatchInv => OncePerWindow
  BY DEF DispatchInv, StateInv
<1> QED BY <1>1, DispatchInvariant, PTL

\* The caller whose execution was committed can read its result.
THEOREM OwnResultsDecode == Spec => []OwnResultDecodes
<1>1. DispatchInv => OwnResultDecodes
  BY OutcomesTogether DEF DispatchInv
<1> QED BY <1>1, DispatchInvariant, PTL

\* A result that cannot be had is one of an execution of the same request, in
\* the other mode or under another schema.
THEOREM UnreadableRequestsAreDone == Spec => []UnreadableMeansDone
<1>1. DispatchInv => UnreadableMeansDone
  BY OutcomesTogether DEF DispatchInv
<1> QED BY <1>1, DispatchInvariant, PTL

=============================================================================
