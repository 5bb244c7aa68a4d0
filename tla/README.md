# Formal model of the user profile service

The service keeps one profile and one settings row per user in PostgreSQL.
Commands (provisioning, profile and settings changes) arrive over HTTP with an
idempotency key and, for changes, an expected version; queries read public
profiles through a privacy policy. Redis speeds idempotency up and is guarded
by a circuit breaker. This directory holds TLA+ models of the parts in which
several requests, nodes or stores meet, the TLC configurations that check them,
and TLAPS proofs of the properties that matter most.

Paths below are relative to `src/src/app`.

## 1. Inventory

| Component | State | Operations | What is hard |
|---|---|---|---|
| Circuit breaker (`infrastructure/resilience`) | state, failure count, opening time, generation, probe | `call` around every Redis operation | overlapping calls, late outcomes, a cancelled probe |
| Hot store (`infrastructure/idempotency/redis`) | one Redis hash per identity with a TTL | claim, renew, complete, release (Lua) | expiry, eviction, scripts that run after their caller gave up |
| Coordinator (`application/idempotency/coordinator.py`) | lease token, heartbeat task, `lost_lease` | execute | lease expiry during execution, heartbeat races, cancellation, degraded modes |
| Transactional execution and durable store | replay row per identity | find, operate, upsert, commit | unknown commit outcome, losing a race late, expiry while waiting |
| Bus, registry, codec, fingerprint (`application/dispatching`, `application/idempotency`) | registrations, schema versions | register, freeze, dispatch, encode, decode | result modes and releases mixed under one key |
| Aggregates and privacy policy (`domain`) | fields and version | create, change, mask | - |
| Command handlers, repositories, unit of work | rows, row locks, username index | five commands | lost updates, name races and swaps, half-provisioned users |
| Public queries (`application/queries/profiles`) | two snapshots per query | public, batch, search | privacy changes between the two statements |
| HTTP boundary (`entrypoints/http`) and own queries | configured secrets; what callers hold: ETags, keys, answers | GET, PATCH, PUT and their checks, errors to statuses | attempts that outlive their caller's patience, replayed answers, what a status lets a retrying caller conclude |
| Request middleware (`entrypoints/http/middlewares`) | request id, response state, final record | resolve an id, send, handle errors, finish | errors and cancellation between the parts of a response, clients that leave, two middlewares that answer errors |
| Tokens, wiring, health, logging, metrics, settings, result protector | - | - | stateless, written once, or not connected |

A command travels: router → `CommandBus.dispatch` → `CommandExecution` →
`IdempotencyMiddleware` → coordinator → (breaker → Redis) and transactional
execution → handler → repositories, all in one unit of work; the result is
encoded, stored with the effect, and decoded on one common exit.

What makes each part correct:

- breaker: one probe, owned by a live call; no influence of an earlier period;
  recovery;
- idempotency: one effect per key and retention period, one answer, no lease
  touched by a stranger, every dispatch ends;
- dispatch: a result goes only to the request it belongs to; its stored form is
  never a reason to execute again;
- persistence: concurrent transactions amount to whole commands; versions name
  contents; usernames are unique; nobody waits for ever;
- queries: hiding works at once; provisioning is never seen half-done;
- boundary: an edit lands only on what its caller has seen, once; each answer
  tells the caller what became of its own request; retries come to an end;
- middleware: one response, with the id of the log, and an honest record.

`PROJECT.json` lists the hazards line by line, with the properties that would
notice each.

## 2. Modules

| Module | Models | Uses |
|---|---|---|
| `CircuitBreaker` | the breaker and its callers | |
| `HotStore` | the Lua scripts as operators on one entry | |
| `Idempotency` | coordinator, heartbeat, transaction, Redis, replay row | `HotStore` |
| `OnceMemory` | abstract: a memory of at most one live result | |
| `IdempotencyOnce` | refinement mapping `Idempotency` → `OnceMemory` | both |
| `RequestFingerprint` | the canonical form of a body as operators, and the equality it decides | |
| `CommandDispatch` | bus, registry, modes, codec, releases, above what `OnceMemory` promises | `RequestFingerprint` |
| `ProfileData` | aggregates, commands, privacy as operators | |
| `ProfileRows` | abstract: rows changed by whole commands | `ProfileData` |
| `ProfileStore` | handlers, repositories, unit of work, statement by statement; refines `ProfileRows` | `ProfileData` |
| `ProfileReads` | public queries beside `ProfileRows` | `ProfileRows` |
| `ProfileService` | the whole service for callers that time out and retry: HTTP boundary, a dispatch as `OnceMemory` and `ProfileRows` describe it | `ProfileData`, `ProfileRows` |
| `RequestLifecycle` | `RequestIdMiddleware` around one request | |
| `*Proofs` | lemmas and theorems about the module of that name | the above |
| `MC*` | instances for TLC | |

A definition whose name ends the comment `Mutant of X` is a deliberately wrong
version of `X`, which shows that some property notices the error; no
specification uses it.

### CircuitBreaker

One caller per element of `Callers`, again and again. Each critical section
under the lock is a step: it contains no await that suspends, so the lock is
never contended. `Reject`, `AdmitClosed`, `AdmitProbe` are the ways into `call`,
`HandleSuccess`, `HandleFailure` and `ReleaseProbe` (cancellation, a classifier
that raises) the ways out. `sinceOpened` stands for `time.monotonic() -
_opened_at` and stops counting at the recovery timeout, past which nothing can
tell it apart. Bound: `MaxFaults` failures and cancellations.

### Idempotency and HotStore

The stores keep one entry per identity and nothing relates two identities, so
the module follows one identity and all dispatches that use it, among them some
with another body (`Fp`). A dispatch's name is also its lease token.

- A step is the code between two awaits with the effect of the awaited call.
- `stray` holds Redis calls that nobody waits for: after a timeout, a
  cancellation or a crash they run later or never. To the coordinator an open
  breaker and a corrupted entry look the same as a timeout.
- `limbo` holds transactions whose COMMIT was sent and whose client is gone;
  PostgreSQL decides later. The caller was told "unavailable".
- `rowLock` and `keyLock` are the business row and the replay row. A `Guarded`
  command checks the version of its row. It issues an UPDATE, and so locks the row
  and moves its version, only if its body changes something (`Changing`); an edit
  that changes nothing commits its replay record and nothing else. `OtherWriter` is
  a command with another key.
- `draft` is `expires_at` of the result being written; `created_at` is `draft -
  RetentionSeconds`. The upsert replaces the row only if it expired by then.
- Reading the row and comparing its `expires_at` with the clock are one step.
- A cancellation that arrives while the heartbeat is joined is suppressed by the
  code and has no effect in the model.
- The heartbeat may be arbitrarily slow or fast: nothing depends on its period.
- Redis still serves a key at its deadline, the coordinator does not: the
  weaker assumption of the two.
- Nodes, Redis and PostgreSQL share a clock, as the service assumes of its
  hosts. Bounds: `MaxTime`, and one run of the pipeline per dispatch.
- HOT_ONLY: the operation has a transaction of its own. A commit decided after
  the client has gone is not followed there, as nothing remembers it.

### CommandDispatch

Above the layer that `OnceMemory` describes. A body is a function from fields to
typed values, and `RequestFingerprint` computes what the fingerprint keeps of
it: instants in UTC, decimals without trailing zeros, enums as their values, sets
without order. A value that has no canonical form makes the dispatch fail before
its key is looked at. JSON texts are kept as their parts, SHA-256 is taken to be
injective, and collections hold scalars. A result's value is the dispatch that executed.

A claim takes the lease of its key, or meets the lease of another dispatch: one
with the same fingerprint makes the call "in progress", one with another makes it
a conflict, though nothing has been executed yet. `ClaimWithoutHot` goes on without
Redis and `LeaseLost` lets a lease run out under its holder, so that several
dispatches may execute at a time and the memory decides between them. `Leave` gives
the lease back when an execution is over, unless Redis is not reached. `Deploy`
raises the schema version, older processes go on serving (`version` ≤
`release`). Policies: HOT_DURABLE and none. Bounds: `MaxRelease`, `MaxWindow`.

### ProfileData, ProfileRows, ProfileStore

A client runs one command in one transaction; a step is one SQL statement at
READ COMMITTED together with the code up to the next. `rows` is what is
committed, `held` what an open transaction has written and locked.

- A statement that meets a locked row waits and judges the committed row
  afterwards; `INSERT ... ON CONFLICT DO NOTHING` waits too.
- An UPDATE that changes the username writes its row (`Update`) and then enters
  the unique index (`EnterIndex`, `UsernameTaken`), where it may wait for others:
  this is how two users who swap names deadlock.
- `CommitUnknown`: committed, the acknowledgement lost. `Abort`: everything that
  rolls back. `DeadlockVictim`: error 40P01 as `TransactionConflictError`.
- The `exists` after an UPDATE without a row and the SELECT after an INSERT that
  found a row are merged with it: no caller deletes rows.
- `SelectInvalidTime`: `created_at` came from another service and may lie in the
  future, in which case a change raises `InvalidTimestampError`.
- The `Start` of a model is any valid content of the tables.

### ProfileReads

Each query reads profiles, then settings; commands commit in between. Batch
order is abstracted. `opened` and `half` are history variables. One
reader is enough, since readers do not influence anything.

### ProfileService

Clients are sessions of users or the identity service. A client reads a
representation (`Get`), edits it (`Patch`) or provisions a user (`Put`), waits,
times out, and sends the same request with the same key again, up to two
attempts at a time; the one it gave up on goes on running.

- `Refusals` lists what the boundary objects to, in the order in which FastAPI
  resolves the dependencies; the first is the answer. A refused request changes
  nothing, so only requests that pass become steps; `FaithfulClientServed` looks
  at the refusals.
- A body that is no JSON is refused (422) before any dependency runs; a body that
  the schema refuses comes after them.
- `Claim` and `Run` are a dispatch at the grain that `OnceMemory` and
  `ProfileRows` promise (the refinements are proved): one lookup or claim, one
  commit of rows and memory. `Keep` is the edit that changes nothing: it has read
  its row (`kept`) and holds no lock, so that `Run` commits its result even if the
  row has moved on meanwhile. `ClaimWithoutHot` is the degraded path, `LeaseLost`
  an execution whose lease is gone, `Fail` every store error, with the effect
  committed or not, translated (503) or not (500).
- `StatusOf` is the table of exception handlers. What has none is a 500:
  `InvalidTimestampError`, and a version that PostgreSQL cannot increase.
- `born` and `clock` stand for registrations dated in the future: one horizon
  that passes once.
- A GET is one step, and an answer arrives with the step that produces it: a
  slow answer is one whose caller timed out.
- Bounds: `MaxVersion` for 2^63 - 1, `MaxExpiries` per key, `MaxFaults` for
  timeouts, crashes, lost leases and store errors together.

Of the statuses only "409 Version conflict" tells a caller that its request will
never be applied (`VersionConflictIsFinal`). "409 Username already taken" does
not: an attempt given up on earlier may still find the name free.

### RequestLifecycle

One request from the first line of `__call__` to what the framework does
afterwards. `pc = "send"` is the await of `send`; before it the response is
already noted as started, in this middleware and in ServerErrorMiddleware. A
body has one part. The application raises, begins a second response, or returns
without one; the client leaves and the server cancels at any await.

## 3. Runs

| Run | Instance | Shows |
|---|---|---|
| `breaker` | 3 callers, fail_max 2, 6 faults, fairness | types, count, probe, stale outcomes; an open breaker closes again |
| `idempotency_faults` | 2 dispatches of a command that changes its row, all faults but cancellation, time 0..3 | cache and record agree; leases are touched by their owners only; no false version mismatch |
| `idempotency_three` | 3 dispatches: two of an edit that changes nothing, one with another body that does; cancellation, time 0..2 | once per retention, equal answers, refinement of `OnceMemory` |
| `hot_only` | 3 dispatches, HOT_ONLY, timeouts and cancellation | success only when published; equal answers |
| `idempotency_live` | 2 dispatches with different bodies, fairness | every dispatch ends |
| `store_safety` | 3 clients, 2 users, all commands, users whole, absent or half | refinement of `ProfileRows`; versions; whole users |
| `store_renames` | 3 clients that change, swap and take back names, fairness | unique usernames; every command ends |
| `reads` | 1 reader, 2 users, versions up to 4, every query | hiding is immediate; settings are there |
| `dispatch` | 3 dispatches, 4 registrations, 2 releases, bodies in two spellings, leases that are lost | results, conflicts and "in progress", windows, modes, schemas; the canonical form against equality for some 350 values of all types |
| `service` | two sessions of one user, or a user and the identity service; right and flawed requests; versions 1..2; 1 fault, 1 expiry per key; fairness | refusals, 204 and 500; retries end |
| `service_retries` | two sessions of one user; versions 1..4; 2 faults, 1 expiry per key | edits build on what was seen and are applied once; what 200 and a version conflict mean |
| `request_lifecycle` | three statuses, four forms of the id header | one response, honest record, no silent end |

Why the bounds are enough to meet the interesting cases: with a lease of 1 and a
retention of 2 the clock lets a lease expire during an execution, a record expire
before the answer, and a second period begin; two faults trip a breaker and the
rest hits its probe; three dispatches are an owner, a duplicate and a stranger to
the body; three clients let one commit between two that race; two releases are
an old and a new one. In `service` the one fault is what separates an attempt
from its caller or its lease, an expiry lets an old attempt arrive at an
empty memory, and versions 1 and 2 are an edit and the end of the range. In
`service_retries` one fault sends a second attempt after the first and the other
takes away a lease, so that both execute; versions up to 4 let a user edit, be
overtaken, change nothing, and reach the end of the range. The two sessions are
interchangeable there, and only invariants are checked, so that the symmetry is
sound. Clients use keys of their own, each for all its requests, so that
a key is also met with another body. The expected versions of `MCCommands` only
name the patches that are tried.

Deadlock is not checked where every dispatch, client, reader or request may be done, which
is the normal end of these models. In the breaker's models there is always a next
call, and deadlock is checked.

Fairness: a Redis call ends because the client has a socket timeout; a statement
that can run does; PostgreSQL ends transactions it was told to commit and looks
for deadlocks; requests keep arriving at the breaker (only a call moves it out
of OPEN). In `ProfileService` an accepted attempt is served, Redis drops a lease
that nobody renews, and a caller without a final answer retries (`in progress`
comes with Retry-After). Nothing is assumed about the clock in `Idempotency`, nor about faults,
except that those of the breaker's model are bounded: recovery is claimed for
the time after them.

### What the properties do not promise

- `NoFalseMismatch` is about requests that change their row. An edit that changes
  nothing takes no lock: if another writer commits between its version check and
  its commit, a duplicate that comes in between finds a newer version and no
  record, and is told of a version mismatch, although the first one then succeeds.
  The duplicate had no effect to lose.
- A query reads profile and settings at two moments. `HiddenStaysHidden` says that
  hiding is immediate, because settings are read last; it says nothing about
  fields that their owner opens meanwhile.
- A call may be refused for a body that is never executed: the lease in flight is
  enough (`ResultIsOfOwnRequest` names both reasons).

## 4. Proofs

All theorems hold for every value of the constants under the named `ASSUME`s.

- `CircuitBreakerProofs`: `BreakerInv` adds `CallsMatchBreaker` to the
  properties: what a running call remembers (generation, token) relative to the
  breaker. `SingleProbe` and `StaleOutcomeIgnored` follow from it.
- `IdempotencyProofs`: types for both modes; for HOT_DURABLE `DurableInv` =
  `TransactionInv` (the key lock is held exactly by transactions at COMMIT, in
  limbo too, and their period starts after the committed record ended) +
  `RecordInv` (the record is the latest effect, effects have disjoint periods) +
  `ResultInv` (a result in hand or in Redis is the record or expired). Neither
  leases nor heartbeats occur in the argument: Redis is never needed for safety,
  as the code intends. `LeaseStaysWithOwner` is proved per script: while an entry is
  a lease, its token and its deadline change, and the entry goes or becomes a
  result, only through its owner or a script that the owner sent, or because Redis
  drops it; a published result is never rewritten. From the same
  invariant every step is a step of `OnceMemory` or a stutter
  (`DurableImplementsOnceMemory`, assuming `Mode = "HOT_DURABLE"`).
  `NoFalseMismatch` has an invariant of its own, `MismatchInv`: a transaction that
  has changed a guarded row and not committed yet, in limbo too, holds the row in
  the expected version. So a dispatch of such a request that sees another version knows
  that no attempt can still commit, and what it then finds, or does not find, on record is
  final. In HOT_ONLY nothing but Redis remembers, and the argument is another one
  (`HotOnlyInv`): without evictions no script replaces a completed entry, so an
  answer is what the entry holds until it expires (`HotOnlySuccessStored`,
  `AnswersAgree`). That effects may repeat there does not matter to it.
- `CommandDispatchProofs`: first that the fingerprint decides equality of
  bodies (`ScalarDecided`, `NoneIsApart` and what follows from them), then
  `DispatchInv`: commands and operations correspond one to one once the bus is
  built (`RegistryInv`), a memory is the encoded result of an execution under that
  identity (`MemoryInv`), and an effect belongs to a window that is over or whose
  memory is still there (`EffectInv`). The fingerprint does not contain the
  command; that a result still never goes to another one needs `RegistryInv` and
  the decision lemmas together. `LeaseInv` (a lease is held by an accepted
  call of that identity) gives the reasons of a conflict and of "in progress"; that an unreadable result is one of
  the same request (`UnreadableMeansDone`) follows from `MemoryInv`. `FieldsAssumption` says what the command classes
  say: fields are flat, none is a Decimal or a collection, and each has one type,
  or None where it is optional.
- `ProfileDataProofs`: lemmas on rows and patches.
- `ProfileStoreProofs`: `StoreInv` says which rows an open transaction holds and
  that a row held for a change is still in the expected version, so the
  draft is the patch on top of the committed row (`ChangeInv`); that entries past
  the index clash with nothing (`IndexInv`). Types, unique usernames, whole
  users and the refinement of `ProfileRows` follow; `AnswerInv` gives
  `VersionNamesContent`.
- `ProfileReadsProofs`: versions only grow and rows only appear, so what a reader
  holds between its statements is never newer than the committed row; with
  the definition of the public view this gives both properties.
- `ProfileServiceProofs`: all properties of `ProfileService` but `RetriesEnd`, from
  `ServiceInv`. None of them is inductive, because a version number alone does not
  say which content it stands for. The invariant therefore follows the contents a
  row has had (`Versions`: the current one and every `before` of its log):
  - `HistoryInv`: versions in a history are pairwise different and below the
    current one, so a version names one content (`VersionsUnique`); each entry was
    made on the content its request names, and its result is remembered unless it
    has expired;
  - `MemoryInv`: a remembered document is the outcome of the remembered patch on the
    content that the remembered version names;
  - `AttemptInv`, `SeenInv`: what a client was given, and what its requests are
    based on, late and abandoned ones too, is a content its own row has had;
  - `KeptInv`: what an edit that changes nothing has read is the content its
    request is based on, and its patch leaves it as it is;
  - `AnsweredInv`: what each status promises, stated for data that grows.
    `AnsweredStays` shows that no later commit, expiry or fault takes a promise back.

  `EditsBuildOnSeen` is then the equality of two contents with one version.
  `AppliedOnce` needs no memory at all: a second application would have to find
  the version of the first one current again. `VersionConflictIsFinal` does need
  it, for the time before the conflict: an application that is still remembered
  would have been replayed. Assumptions: `FlawsAssumption` (a flawed request has a
  header missing or spoilt, or a bad or malformed body, and never the version of something
  else), versions in range at the start, clients that are users or the identity
  service, and a `None` that is nothing else.
- `RequestLifecycleProofs`: `LifecycleInv` = types + `WireInv` (what is on the
  wire, relative to what was noted as started and complete) + `EndInv` (how
  `__call__` ends: an error leaves it only after a response began, so
  ServerErrorMiddleware never answers a second time) + `RecordInv` (the final
  record is the last and only one). All three properties follow from it, for
  every set of statuses between 100 and 599 (`StatusesAssumption`) and a `None`
  that is no way of raising (`NoneAssumption`).

Every invariant and every step property of the runs is stated by a theorem. Only
model-checked are

- all liveness (`Recovers`, `EveryDispatchEnds`, `EveryCommandEnds`, `RetriesEnd`),
  since fairness is beyond the prover;
- the canonical form of decimals and collections (`CanonicalFormDecides`, over the
  values of the instance): powers of ten and sorting need induction over data. The
  proofs cover the types that the commands have.

## 5. Not modelled

- `check_exists` (HEAD): one pure read. The health routes and the lifespan: a flag
  that is set once and cleared once.
- Validation of strings in value objects and schemas: unit tests; requests are
  valid, refused by the schema, or refused by a value object.
- `create` and `delete` of the repositories: nothing calls them.
- Token verification is a library; a token is absent, malformed, bad or good.
- Wiring, logging, metrics, configuration, the AES-GCM protector (not
  connected).

## 6. Plan

1. Done: breaker, idempotency with its abstract specification, dispatch with the
   fingerprint, persistence with its abstract specification, queries, the
   service as its callers see it, the request middleware; their runs and the
   proofs above.
2. Done: proofs of every safety property of the runs.
3. Breaker and hot store together: a coordinator that degrades while the breaker
   is open and returns when it closes. To the coordinator an open breaker looks
   like a timeout, so the present models cover its safety.
