--------------------------- MODULE ProfileService ---------------------------
(***************************************************************************)
(* The service as its callers see it (entrypoints/http): requests with     *)
(* credentials, If-Match and Idempotency-Key, the statuses they get, and   *)
(* callers that time out and retry while an earlier attempt is still       *)
(* somewhere in the service.                                               *)
(*                                                                         *)
(* Below the boundary a dispatch is what the other modules establish: an   *)
(* effect is committed together with its memory and only if nothing is     *)
(* remembered (Idempotency implements OnceMemory), and commands change     *)
(* rows one at a time (ProfileStore implements ProfileRows).               *)
(*                                                                         *)
(* An answer reaches its caller with the step that produces it, unless the *)
(* caller has stopped waiting: an answer that is lost on the way is one    *)
(* whose caller timed out before.  A GET is one step, as its one statement *)
(* is; a slow one is a caller that takes its time afterwards.              *)
(***************************************************************************)
EXTENDS ProfileData, Sequences

CONSTANTS
    Clients,
    Deployments,  \* sets of secrets a deployment may have: verifier, service_token
    Sessions,     \* who the clients may be: client -> user, or None: the identity service
    Keys,         \* client -> the values of Idempotency-Key it uses
    Flaws,        \* what may be wrong with a request: kind -> table -> fields it gets wrong
    MaxVersion,   \* 2^63 - 1, the largest version of the column and of an ETag
    MaxExpiries,  \* bound: how often a remembered result expires
    MaxFaults     \* bound: timeouts, crashes, lost leases, failing stores

\* A client has at most one attempt that it waits for and one it gave up on.
Attempts == Clients \X {1, 2}

KeyValues == UNION {Keys[c] : c \in Clients}

Tokens == {"good", "absent", "not_bearer", "bad"}

Bodies == {"ok", "malformed", "schema", "domain"}

Patches == {m.patch : m \in {m \in Commands : m.kind = "change"}}

\* Requests to change a row and to provision a user.
PatchSpace ==
    [by : Clients, kind : {"change"}, table : Tables, user : Users, token : Tokens,
     if_match : Nat \cup {None}, key : KeyValues \cup {None},
     body : Bodies, content : Patches, basis : Rows]

PutSpace ==
    [by : Clients, kind : {"provision"}, table : {"profile"}, user : Users, token : Tokens,
     if_match : {None}, key : Users, body : Bodies, content : {"past", "future"},
     basis : {None}]

\* What is remembered of either.
PatchMemory == [fp : Users \X Nat \X Bodies \X Patches, doc : Rows]

PutMemory == [fp : Users \X {None} \X Bodies \X {"past", "future"}, doc : {None}]

ASSUME BoundsAssumption ==
    MaxVersion \in Nat \ {0} /\ MaxExpiries \in Nat /\ MaxFaults \in Nat
ASSUME VersionsAssumption ==
    \A rows \in Start : \A k \in Key : rows[k] # None => rows[k].version <= MaxVersion
ASSUME SessionsAssumption ==
    /\ Sessions \subseteq [Clients -> Users \cup {None}]
    /\ None \notin Users
    /\ \A c \in Clients : None \notin Keys[c]
ASSUME NoneAssumption ==
    /\ None \notin Attempts /\ None \notin Nat
    /\ None \notin PatchSpace /\ None \notin PutSpace
    /\ None \notin PatchMemory /\ None \notin PutMemory

\* A flaw leaves a header out or spoils it, or the body; it never turns If-Match
\* into the version of another representation.
ASSUME FlawsAssumption ==
    /\ \A t \in Tables : \A flaw \in Flaws.change[t] :
          /\ DOMAIN flaw \subseteq {"token", "if_match", "key", "body"}
          /\ "token" \in DOMAIN flaw => flaw.token \in {"absent", "not_bearer", "bad"}
          /\ "if_match" \in DOMAIN flaw => flaw.if_match \in {None} \cup (Nat \ (1..MaxVersion))
          /\ "key" \in DOMAIN flaw => flaw.key = None
          /\ "body" \in DOMAIN flaw => flaw.body \in {"malformed", "schema", "domain"}
    /\ \A flaw \in Flaws.provision.profile :
          /\ DOMAIN flaw \subseteq {"token", "body"}
          /\ "token" \in DOMAIN flaw => flaw.token \in {"absent", "not_bearer", "bad"}
          /\ "body" \in DOMAIN flaw => flaw.body \in {"malformed", "schema"}

Identity ==
    {<<u, <<"change", t>>, k>> : u \in Users, t \in Tables, k \in KeyValues}
    \cup {<<"identity", <<"provision", "profile">>, u>> : u \in Users}

VARIABLES
    rows,        \* committed rows
    born,        \* rows whose created_at was in the future when they were created
    clock,       \* "before" or "after" those dates
    configured,  \* which secrets the deployment has
    session,     \* the user each client signs in as, or None
    memory,      \* identity -> the remembered result, or None
    lease,       \* identity -> who executes under it, or None
    req,         \* attempt -> its request, or None
    stage,       \* attempt -> how far it is
    kept,        \* attempt -> the row it has read and found in no need of a change, or None
    want,        \* client -> the request it tries to get done, or None
    wait,        \* client -> the attempt whose answer it waits for, or None
    seen,        \* client -> table -> the last representation it was given
    got,         \* client -> the last final answer
    log,         \* history: the requests that made the versions of each row
    expired,     \* history: how often each memory has expired
    faults       \* history: how many faults there were

deployment == <<configured, session>>
database == <<rows, born, clock>>
idempotency == <<memory, lease, expired>>
caller == <<want, wait, seen, got>>
vars == <<deployment, database, idempotency, req, stage, kept, caller, log, faults>>

Statuses == {"200", "204", "400", "401", "404", "409 version", "409 taken",
             "409 key", "409 in progress", "422", "428", "500", "503"}

\* The types; and nobody waits for an attempt that is not being served.
TypeOK ==
    /\ \A k \in Key : rows[k] \in Row(k[1]) \cup {None}
    /\ born \subseteq Key
    /\ clock \in {"before", "after"}
    /\ configured \in Deployments
    /\ session \in Sessions
    /\ \A i \in Identity : memory[i] = None \/ memory[i].doc \in Rows \cup {None}
    /\ \A i \in Identity : lease[i] = None \/ lease[i].by \in Attempts \cup {None}
    /\ stage \in [Attempts -> {"free", "sent", "run"}]
    /\ \A a \in Attempts : (stage[a] = "free") <=> (req[a] = None)
    /\ kept \in [Attempts -> Rows \cup {None}]
    /\ \A c \in Clients :
          /\ wait[c] # None => want[c] # None /\ req[wait[c]] = want[c]
          /\ got[c] = None \/ got[c].status \in Statuses
          /\ \A t \in Tables : seen[c][t] \in Row(t) \cup {None}
    /\ \A k \in Key : rows[k] # None => rows[k].version \in 1..MaxVersion
    /\ expired \in [Identity -> 0..MaxExpiries]
    /\ faults \in 0..MaxFaults

Init ==
    /\ rows \in Start
    /\ born = {}
    /\ clock = "before"
    /\ configured \in Deployments
    /\ session \in Sessions
    /\ memory = [i \in Identity |-> None]
    /\ lease = [i \in Identity |-> None]
    /\ req = [a \in Attempts |-> None]
    /\ stage = [a \in Attempts |-> "free"]
    /\ kept = [a \in Attempts |-> None]
    /\ want = [c \in Clients |-> None]
    /\ wait = [c \in Clients |-> None]
    /\ seen = [c \in Clients |-> [t \in Tables |-> None]]
    /\ got = [c \in Clients |-> None]
    /\ log = [k \in Key |-> <<>>]
    /\ expired = [i \in Identity |-> 0]
    /\ faults = 0

Fault == faults < MaxFaults /\ faults' = faults + 1

-----------------------------------------------------------------------------
(* Requests                                                                *)

\* PATCH of the own profile or settings, on top of the representation in the
\* client's hands.  `basis` is what the client knows; it is not sent.
Patch(c, m, key) ==
    [by |-> c, kind |-> "change", table |-> m.table, user |-> session[c],
     token |-> "good", if_match |-> seen[c][m.table].version, key |-> key,
     body |-> "ok", content |-> m.patch, basis |-> seen[c][m.table]]

\* PUT of a user by the identity service; the key is the user.
Put(c, u, registered_at) ==
    [by |-> c, kind |-> "provision", table |-> "profile", user |-> u,
     token |-> "good", if_match |-> None, key |-> u,
     body |-> "ok", content |-> registered_at, basis |-> None]

Check(fails, status) == IF fails THEN <<status>> ELSE <<>>

\* optional_viewer_id and current_user_id
ViewerChecks(token) ==
    Check(token \in {"absent", "not_bearer"}, "401")
    \o Check("verifier" \notin configured, "503")
    \o Check(token = "bad", "401")

\* Mutant of ExpectedVersion: an off-by-one at the end of the bigint range.
ExpectedVersionBelowMax(r) == r.if_match \in 1 .. MaxVersion - 1

\* expected_version accepts the ETag.  0 stands for every other text.
ExpectedVersion(r) == r.if_match \in 1..MaxVersion

\* expected_version, command_context and the schema of the body
PatchChecks(r) ==
    Check(r.if_match = None, "428")
    \o Check(~ExpectedVersion(r), "400")
    \o Check(r.key = None \/ r.body = "schema", "422")

\* require_identity_service and the schema of the body
ServiceChecks(r) ==
    Check("service_token" \notin configured, "503")
    \o Check(r.token # "good", "401")
    \o Check(r.body = "schema", "422")

\* The refusals of the boundary; the first one is the answer.  FastAPI reads the
\* body, and refuses one that is no JSON, before it solves any dependency.
Refusals(r) ==
    Check(r.body = "malformed", "422")
    \o (IF r.kind = "change" THEN ViewerChecks(r.token) \o PatchChecks(r) ELSE ServiceChecks(r))

-----------------------------------------------------------------------------
(* Statuses                                                                *)

\* register_exception_handlers; what has no handler ends in RequestIdMiddleware.
StatusOf(outcome) ==
    CASE outcome = "not_found"                    -> "404"
      [] outcome = "mismatch"                     -> "409 version"
      [] outcome = "taken"                        -> "409 taken"
      [] outcome = "conflict"                     -> "409 key"
      [] outcome = "in_progress"                  -> "409 in progress"
      [] outcome = "value"                        -> "422"
      [] outcome \in {"txconflict", "unavailable"} -> "503"
      [] OTHER                                    -> "500"

\* What the routers return without an error.
SuccessOf(r) == IF r.kind = "provision" THEN "204" ELSE "200"

\* Mutant of Representation: the ETag is that of the row as it is now.
RepresentationCurrentTag(r, doc) ==
    [doc EXCEPT !.version = rows[<<r.table, r.user>>].version]

\* The DTO and, from set_private_version, its version as ETag.
Representation(r, doc) == doc

-----------------------------------------------------------------------------
(* Callers                                                                 *)

\* What a caller repeats with the same key.
Transient == {"503", "409 in progress"}

\* The attempt ends; its caller, if it still waits, learns the status.
Answer(a, status, doc) ==
    LET r == req[a]
        c == a[1]
    IN  /\ req' = [req EXCEPT ![a] = None]
        /\ stage' = [stage EXCEPT ![a] = "free"]
        /\ kept' = [kept EXCEPT ![a] = None]
        /\ IF wait[c] # a THEN UNCHANGED caller
           ELSE IF status \in Transient
           THEN wait' = [wait EXCEPT ![c] = None] /\ UNCHANGED <<want, seen, got>>
           ELSE /\ wait' = [wait EXCEPT ![c] = None]
                /\ want' = [want EXCEPT ![c] = None]
                /\ got' = [got EXCEPT ![c] = [request |-> r, status |-> status, doc |-> doc]]
                /\ seen' = IF status = "200"
                           THEN [seen EXCEPT ![c][r.table] = Representation(r, doc)]
                           ELSE seen

Free(c) ==
    IF stage[<<c, 1>>] = "free" THEN <<c, 1>> ELSE <<c, 2>>

Send(c, r) ==
    LET a == Free(c) IN
    /\ stage[a] = "free"
    /\ req' = [req EXCEPT ![a] = r]
    /\ stage' = [stage EXCEPT ![a] = "sent"]
    /\ wait' = [wait EXCEPT ![c] = a]

\* What a client may send next: an edit of what it has seen, or the provisioning
\* of a user, right or with a flaw.
Requests(c) ==
    UNION {{Patched(r, flaw) : flaw \in Flaws[r.kind][r.table]} :
        r \in {Patch(c, m, key) :
                  m \in {m \in Commands :
                            /\ m.kind = "change" /\ m.user = session[c]
                            /\ seen[c][m.table] # None
                            /\ m.expected = seen[c][m.table].version},
                  key \in Keys[c]}
              \cup {Put(c, m.user, date) :
                  m \in {m \in Commands : m.kind = "provision" /\ session[c] = None},
                  date \in {"past", "future"}}}

\* A refused request changes nothing; this one passes the boundary.
Request(c) ==
    /\ want[c] = None
    /\ \E r \in Requests(c) :
          /\ Refusals(r) = <<>>
          /\ want' = [want EXCEPT ![c] = r]
          /\ Send(c, r)
    /\ got' = [got EXCEPT ![c] = None]
    /\ UNCHANGED <<deployment, database, idempotency, kept, seen, log, faults>>

\* GetMyProfileHandler and GetMySettingsHandler: the row as committed, if any.
OwnRow(c, t) == rows[<<t, session[c]>>]

\* get_my_profile, get_my_settings; an answer 404 tells the client nothing new.
Get(c, t) ==
    LET row == OwnRow(c, t) IN
    /\ want[c] = None /\ session[c] # None
    /\ ViewerChecks("good") = <<>>
    /\ row # None /\ row # seen[c][t]
    /\ seen' = [seen EXCEPT ![c][t] = Representation([table |-> t, user |-> session[c]], row)]
    /\ got' = [got EXCEPT ![c] = None]
    /\ UNCHANGED <<deployment, database, idempotency, req, stage, kept, want, wait, log, faults>>

\* The answer does not come in time.
Timeout(c) ==
    /\ wait[c] # None
    /\ Fault
    /\ wait' = [wait EXCEPT ![c] = None]
    /\ UNCHANGED <<deployment, database, idempotency, req, stage, kept, want, seen, got, log>>

\* The same request again.
Retry(c) ==
    /\ want[c] # None /\ wait[c] = None
    /\ Send(c, want[c])
    /\ UNCHANGED <<deployment, database, idempotency, kept, want, seen, got, log, faults>>

-----------------------------------------------------------------------------
(* The service                                                             *)

\* command_context and provision_profile: scope, operation and key.
IdentityOf(r) ==
    <<IF r.kind = "provision" THEN "identity" ELSE r.user, <<r.kind, r.table>>, r.key>>

\* The fields of the command that the router builds.
Fingerprint(r) == <<r.user, r.if_match, r.body, r.content>>

\* Mutant of Remembered: what other attempts have left is not looked at.
RememberedNever(a) == FALSE

Remembered(a) == memory[IdentityOf(req[a])] # None

\* Mutant of Resolve: the fingerprint is not compared.
ResolveAny(a) ==
    Answer(a, SuccessOf(req[a]), memory[IdentityOf(req[a])].doc)

\* A remembered result answers the same command and refuses any other.
Resolve(a) ==
    LET m == memory[IdentityOf(req[a])] IN
    IF m.fp = Fingerprint(req[a])
    THEN Answer(a, SuccessOf(req[a]), m.doc)
    ELSE Answer(a, StatusOf("conflict"), None)

\* The lease goes with the attempt that holds it, or stays for its time.
Leave(a, i, how) ==
    IF lease[i] = None \/ lease[i].by # a THEN lease
    ELSE [lease EXCEPT ![i] = IF how = "released" THEN None ELSE [@ EXCEPT !.by = None]]

\* The coordinator finds a result, a live lease, or claims the key.
Claim(a) ==
    LET i == IdentityOf(req[a])
        fp == Fingerprint(req[a])
    IN  /\ stage[a] = "sent"
        /\ \/ /\ Remembered(a)
              /\ Resolve(a)
              /\ UNCHANGED lease
           \/ /\ ~Remembered(a) /\ lease[i] # None
              /\ Answer(a, StatusOf(IF lease[i].fp = fp THEN "in_progress" ELSE "conflict"), None)
              /\ UNCHANGED lease
           \/ /\ ~Remembered(a) /\ lease[i] = None
              /\ lease' = [lease EXCEPT ![i] = [fp |-> fp, by |-> a]]
              /\ stage' = [stage EXCEPT ![a] = "run"]
              /\ UNCHANGED <<req, kept, caller>>
        /\ UNCHANGED <<deployment, database, memory, expired, log, faults>>

\* Redis does not answer: the execution relies on PostgreSQL alone.
ClaimWithoutHot(a) ==
    /\ stage[a] = "sent"
    /\ ~Remembered(a)
    /\ Fault
    /\ stage' = [stage EXCEPT ![a] = "run"]
    /\ UNCHANGED <<deployment, database, idempotency, req, kept, caller, log>>

Abstract == INSTANCE ProfileRows

\* Mutant of MatchesVersion: the version is not compared.
MatchesAnyVersion(r) == TRUE

MatchesVersion(r) == rows[<<r.table, r.user>>].version = r.if_match

\* How the handler ends: value objects are built after the version check, a
\* change is dated before it is written, and the unique index comes last.
Outcome(r) ==
    LET k == <<r.table, r.user>>
        row == rows[k]
    IN  IF r.kind = "provision" THEN "ok"
        ELSE IF row = None THEN "not_found"
        ELSE IF ~MatchesVersion(r) THEN "mismatch"
        ELSE IF r.body = "domain" THEN "value"
        ELSE IF ~Changes(row, r.content) THEN "ok"
        ELSE IF k \in born /\ clock = "before" THEN "invalid_timestamp"
        ELSE IF row.version = MaxVersion THEN "out_of_range"
        ELSE IF ~Abstract!UsernameFree(k, Changed(row, r.content)) THEN "taken"
        ELSE "ok"

\* The handler finds that the command changes nothing: it will not write, holds
\* no lock, and answers with what it has read.
Keep(a) ==
    LET r == req[a]
        row == rows[<<r.table, r.user>>]
    IN  /\ stage[a] = "run" /\ kept[a] = None
        /\ r.kind = "change" /\ Outcome(r) = "ok" /\ ~Changes(row, r.content)
        /\ kept' = [kept EXCEPT ![a] = row]
        /\ UNCHANGED <<deployment, database, idempotency, req, stage, caller, log, faults>>

\* The handler comes to its end.  One that writes holds the row from its version
\* check on; one that does not, ends whatever has become of the row.
Succeeds(a) ==
    LET r == req[a] IN
    \/ kept[a] # None
    \/ /\ Outcome(r) = "ok"
       /\ r.kind = "change" => Changes(rows[<<r.table, r.user>>], r.content)

\* The row that a successful PATCH answers with.
Result(a) ==
    LET r == req[a] IN
    IF r.kind = "provision" THEN None
    ELSE IF kept[a] # None THEN kept[a]
    ELSE Changed(rows[<<r.table, r.user>>], r.content)

\* The rows and the memory of the result, in one commit.
Effect(a) ==
    LET r == req[a]
        k == <<r.table, r.user>>
    IN  /\ \/ /\ r.kind = "provision"
              /\ Abstract!ApplyProvision(r.user)
              /\ born' = IF r.content = "past" \/ clock = "after" THEN born
                         ELSE born \cup {j \in Key : j[2] = r.user /\ rows[j] = None}
              /\ UNCHANGED log
           \/ /\ r.kind = "change" /\ kept[a] = None
              /\ rows' = [rows EXCEPT ![k] = Result(a)]
              /\ log' = [log EXCEPT ![k] = Append(@, [request |-> r, before |-> rows[k]])]
              /\ UNCHANGED born
           \/ /\ kept[a] # None
              /\ UNCHANGED <<rows, born, log>>
        /\ memory' = [memory EXCEPT ![IdentityOf(r)] =
                         [fp |-> Fingerprint(r), doc |-> Result(a)]]

\* The dispatch comes to its end: as the loser of a race that left a result,
\* with an error of the handler, or with its own effect.
Run(a) ==
    LET r == req[a] IN
    /\ stage[a] = "run"
    /\ \/ /\ Remembered(a)
          /\ Resolve(a)
          /\ UNCHANGED <<rows, born, memory, log>>
       \/ /\ ~Remembered(a) /\ kept[a] = None /\ Outcome(r) # "ok"
          /\ Answer(a, StatusOf(Outcome(r)), None)
          /\ UNCHANGED <<rows, born, memory, log>>
       \/ /\ ~Remembered(a) /\ Succeeds(a)
          /\ Effect(a)
          /\ Answer(a, SuccessOf(r), Result(a))
    /\ lease' = Leave(a, IdentityOf(r), "released")
    /\ UNCHANGED <<deployment, clock, expired, faults>>

\* A store fails, a deadlock is broken up, or a stored result cannot be decoded.
\* An error that _raise_persistence_error or the readers do not translate is a
\* 500, and the effect may be committed nevertheless.
Fail(a) ==
    LET i == IdentityOf(req[a]) IN
    /\ stage[a] # "free"
    /\ Fault
    /\ \/ /\ stage[a] = "run" /\ ~Remembered(a) /\ Succeeds(a)
          /\ Effect(a)
       \/ UNCHANGED <<rows, born, memory, log>>
    /\ \E outcome \in {"unavailable", "txconflict", "untranslated"}, how \in {"released", "left"} :
          /\ Answer(a, StatusOf(outcome), None)
          /\ lease' = IF stage[a] = "run" THEN Leave(a, i, how) ELSE lease
    /\ UNCHANGED <<deployment, clock, expired>>

\* Mutant of Crash: the caller is left waiting on a connection nobody serves.
CrashUnnoticed(a) ==
    /\ stage[a] # "free"
    /\ Fault
    /\ req' = [req EXCEPT ![a] = None]
    /\ stage' = [stage EXCEPT ![a] = "free"]
    /\ kept' = [kept EXCEPT ![a] = None]
    /\ lease' = IF stage[a] = "run" THEN Leave(a, IdentityOf(req[a]), "left") ELSE lease
    /\ UNCHANGED <<deployment, database, memory, expired, caller, log>>

\* The process dies, and with it the connection.
Crash(a) ==
    LET c == a[1] IN
    /\ stage[a] # "free"
    /\ Fault
    /\ req' = [req EXCEPT ![a] = None]
    /\ stage' = [stage EXCEPT ![a] = "free"]
    /\ kept' = [kept EXCEPT ![a] = None]
    /\ lease' = IF stage[a] = "run" THEN Leave(a, IdentityOf(req[a]), "left") ELSE lease
    /\ wait' = [wait EXCEPT ![c] = IF @ = a THEN None ELSE @]
    /\ UNCHANGED <<deployment, database, memory, expired, want, seen, got, log>>

\* Mutant of LeaseRunsOut: an abandoned lease has no time to live.
LeaseRunsOutNever(i) ==
    /\ lease[i] # None /\ lease[i].by # None
    /\ lease' = [lease EXCEPT ![i] = None]
    /\ UNCHANGED <<deployment, database, memory, expired, req, stage, kept, caller, log, faults>>

\* Nobody renews it any more.
LeaseRunsOut(i) ==
    /\ lease[i] # None /\ lease[i].by = None
    /\ lease' = [lease EXCEPT ![i] = None]
    /\ UNCHANGED <<deployment, database, memory, expired, req, stage, kept, caller, log, faults>>

\* The lease of a running execution is lost: late renewals, Redis restarted.
LeaseLost(i) ==
    /\ lease[i] # None /\ lease[i].by # None
    /\ Fault
    /\ lease' = [lease EXCEPT ![i] = None]
    /\ UNCHANGED <<deployment, database, memory, expired, req, stage, kept, caller, log>>

\* The retention of a remembered result ends.
Expire(i) ==
    /\ memory[i] # None
    /\ expired[i] < MaxExpiries
    /\ memory' = [memory EXCEPT ![i] = None]
    /\ expired' = [expired EXCEPT ![i] = @ + 1]
    /\ UNCHANGED <<deployment, database, lease, req, stage, kept, caller, log, faults>>

\* The dates that were in the future are reached.
ClockPasses ==
    /\ clock = "before" /\ born # {}
    /\ clock' = "after"
    /\ UNCHANGED <<deployment, rows, born, idempotency, req, stage, kept, caller, log, faults>>

-----------------------------------------------------------------------------
Next ==
    \/ \E c \in Clients :
          \/ Request(c) \/ Timeout(c) \/ Retry(c)
          \/ \E t \in Tables : Get(c, t)
    \/ \E a \in Attempts :
          \/ Claim(a) \/ ClaimWithoutHot(a)
          \/ Keep(a) \/ Run(a) \/ Fail(a) \/ Crash(a)
    \/ \E i \in Identity : LeaseRunsOut(i) \/ LeaseLost(i) \/ Expire(i)
    \/ ClockPasses

Spec == Init /\ [][Next]_vars

\* The event loop serves what it has accepted, Redis drops what nobody renews,
\* and callers do retry.
LiveSpec ==
    /\ Spec
    /\ \A a \in Attempts : WF_vars(Claim(a) \/ Keep(a) \/ Run(a))
    /\ WF_vars(\E i \in Identity : LeaseRunsOut(i))
    /\ \A c \in Clients : WF_vars(Retry(c))

-----------------------------------------------------------------------------
(* Properties.                                                             *)

\* A committed edit was made on exactly the content its client had been given:
\* also when that came from a replayed answer, when the row moved on between
\* the answer and the edit, and when the edit arrives late.
EditsBuildOnSeen ==
    \A k \in Key : \A n \in DOMAIN log[k] :
        log[k][n].before = log[k][n].request.basis

\* The same key, for the same command.
SameOperation(r, s) ==
    IdentityOf(r) = IdentityOf(s) /\ Fingerprint(r) = Fingerprint(s)

\* A request that is retried changes its row once, even when an attempt arrives
\* after the memory of its key has expired.
AppliedOnce ==
    \A k \in Key : \A m, n \in DOMAIN log[k] :
        m # n => ~SameOperation(log[k][m].request, log[k][n].request)

\* 200 to a PATCH carries the content that the client had seen with its own
\* changes made to it, under the version that follows, whichever attempt did
\* the work and whatever others have committed since.
AnswerIsAsked ==
    \A c \in Clients :
        (got[c] # None /\ got[c].status = "200" /\ got[c].request.kind = "change") =>
            LET r == got[c].request IN
            got[c].doc = IF Changes(r.basis, r.content)
                         THEN Changed(r.basis, r.content) ELSE r.basis

\* A client told "Version conflict" may start again from a fresh read: no
\* attempt of its request has been or will be applied, unless its memory expired
\* before the retry.
VersionConflictIsFinal ==
    \A c \in Clients :
        (got[c] # None /\ got[c].status = "409 version") =>
            LET r == got[c].request IN
            \A n \in DOMAIN log[<<r.table, r.user>>] :
                SameOperation(log[<<r.table, r.user>>][n].request, r)
                    => expired[IdentityOf(r)] > 0

\* 204 is answered without a look at the rows when the completion is remembered,
\* and still means that the user has a profile and settings.
ProvisionedIsServed ==
    \A c \in Clients :
        (got[c] # None /\ got[c].status = "204") =>
            \A t \in Tables : rows[<<t, got[c].request.user>>] # None

\* What a client sends that follows the contract.
Faithful(r) ==
    /\ r.token = "good" /\ r.body = "ok"
    /\ r.kind = "change" => r.key # None /\ r.if_match = r.basis.version

\* A client that sends what the service gave it passes the boundary, whatever
\* version it was given, and gets 500 only after a fault, for a registration
\* dated in the future, or when the version cannot grow.
FaithfulClientServed ==
    \A c \in Clients :
        /\ (want[c] = None /\ configured = {"verifier", "service_token"}) =>
               \A r \in Requests(c) : Faithful(r) => Refusals(r) = <<>>
        /\ (got[c] # None /\ Faithful(got[c].request)) =>
               \/ got[c].status \in {"200", "204", "409 version", "409 taken", "409 key"}
               \/ /\ got[c].status = "500"
                  /\ \/ faults > 0
                     \/ got[c].request.basis # None
                        /\ \/ <<got[c].request.table, got[c].request.user>> \in born
                           \/ got[c].request.basis.version = MaxVersion

\* Every caller that retries under a key of its own gets a final answer: no
\* abandoned lease and no attempt that it gave up on keeps it out for ever.
RetriesEnd ==
    \A c \in Clients :
        (want[c] # None /\ \A d \in Clients \ {c} : Keys[c] \cap Keys[d] = {})
            ~> (want[c] = None)
=============================================================================
