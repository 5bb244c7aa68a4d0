----------------------------- MODULE Idempotency -----------------------------
(***************************************************************************)
(* Execution of idempotent commands: the coordinator                       *)
(* (application/idempotency/coordinator.py), the transactional execution   *)
(* (application/idempotency/transactional_execution.py), the Redis lease   *)
(* and result cache (HotStore) and the PostgreSQL replay record            *)
(* (infrastructure/idempotency/postgres/durable_store.py).                 *)
(*                                                                         *)
(* Both stores keep one entry per identity (subject, operation, key        *)
(* digest) and nothing relates two identities, so the module follows one   *)
(* identity and every dispatch that uses it: duplicates, retries, and      *)
(* requests that reuse the key with another body.                          *)
(*                                                                         *)
(* A step is the code between two awaits together with the effect of the   *)
(* call it waits for.  A Redis call its caller gave up on (socket timeout, *)
(* cancellation, crash) stays in `stray` and may still run at any later    *)
(* moment, or never.                                                       *)
(***************************************************************************)
EXTENDS HotStore, FiniteSets

CONSTANTS
    Dispatches,        \* one element per dispatch; it is also its lease token
    Fingerprints,      \* request fingerprints
    Fp,                \* the fingerprint of each dispatch
    Mode,              \* policy.mode
    LeaseSeconds,      \* policy.lease_seconds
    RetentionSeconds,  \* policy.retention_seconds
    HotCacheSeconds,   \* policy.hot_cache_seconds
    Guarded,           \* whether the command carries an expected version
    Changing,          \* fingerprints whose request changes the row it expects
    Faults,            \* what the environment may do
    MaxTime            \* bound: last value of the clock

FaultKinds ==
    {"timeout", "cancel", "crash", "evict", "database", "conflict", "writer",
     "domain"}

ASSUME FpAssumption == Fp \in [Dispatches -> Fingerprints]
ASSUME ModeAssumption == Mode \in {"HOT_ONLY", "HOT_DURABLE"}
ASSUME PeriodAssumption ==
    /\ LeaseSeconds \in Nat \ {0}
    /\ RetentionSeconds \in Nat \ {0}
    /\ HotCacheSeconds \in 1..RetentionSeconds
ASSUME EnvironmentAssumption ==
    /\ Guarded \in BOOLEAN
    /\ Changing \subseteq Fingerprints
    /\ Faults \subseteq FaultKinds
    /\ MaxTime \in Nat
ASSUME NoneAssumption ==
    /\ None \notin Dispatches
    /\ None \notin [fp : Fingerprints, by : Dispatches, exp : Nat]

VARIABLES
    now,        \* the synchronised clock of the nodes, Redis and PostgreSQL
    hot,        \* the Redis entry
    record,     \* the committed row of user_profile.idempotency_records
    effects,    \* committed business effects, each as the result it produced
    version,    \* version of the resource the command changes
    rowLock,    \* open transaction that updated the resource
    keyLock,    \* open transaction that wrote the replay record
    limbo,      \* transactions whose COMMIT was sent and whose client is gone
    pc,         \* where each dispatch is
    out,        \* its outcome, or the error it is about to raise
    draft,      \* expires_at of the result its open transaction writes
    got,        \* the completed result it holds
    leased,     \* it is inside _execute_claimed
    lost,       \* lost_lease
    heartbeat,  \* its heartbeat task
    stray       \* Redis calls nobody waits for any more

stores == <<hot, record, effects>>
locks == <<rowLock, keyLock, limbo>>
beats == <<lost, heartbeat>>
vars == <<now, stores, version, locks, pc, out, draft, got, leased, beats,
          stray>>

Result == [fp : Fingerprints, by : Dispatches, exp : Nat]

Control ==
    {"start", "busy", "find", "op", "insert", "commit", "race", "finish",
     "failing", "complete", "release", "evaluate", "done"}

Outcome ==
    {"pending", "ok", "conflict", "in_progress", "unavailable", "mismatch",
     "txconflict", "domain", "cancelled", "crashed"}

Command == {"claim", "renew", "complete", "release"}

TypeOK ==
    /\ now \in 0..MaxTime
    /\ hot \in EntryType(Fingerprints, Dispatches, Result)
    /\ record \in Result \cup {None}
    /\ effects \subseteq Result
    /\ version \in Nat
    /\ rowLock \in Dispatches \cup {None}
    /\ keyLock \in Dispatches \cup {None}
    /\ limbo \subseteq Dispatches
    /\ pc \in [Dispatches -> Control]
    /\ out \in [Dispatches -> Outcome]
    /\ draft \in [Dispatches -> Nat]
    /\ got \in [Dispatches -> Result \cup {None}]
    /\ leased \in [Dispatches -> BOOLEAN]
    /\ lost \in [Dispatches -> BOOLEAN]
    /\ heartbeat \in [Dispatches -> {"off", "sleep", "sent"}]
    /\ stray \subseteq Command \X Dispatches

\* The version every dispatch of the identity expects: it is part of the
\* request, hence of the fingerprint, and was current when it was read.
ExpectedVersion == 1

Init ==
    /\ now = 0
    /\ hot = NoEntry
    /\ record = None
    /\ effects = {}
    /\ version = ExpectedVersion
    /\ rowLock = None
    /\ keyLock = None
    /\ limbo = {}
    /\ pc = [d \in Dispatches |-> "start"]
    /\ out = [d \in Dispatches |-> "pending"]
    /\ draft = [d \in Dispatches |-> 0]
    /\ got = [d \in Dispatches |-> None]
    /\ leased = [d \in Dispatches |-> FALSE]
    /\ lost = [d \in Dispatches |-> FALSE]
    /\ heartbeat = [d \in Dispatches |-> "off"]
    /\ stray = {}

-----------------------------------------------------------------------------
(* How a dispatch moves on.                                                *)

Goto(d, label) == pc' = [pc EXCEPT ![d] = label]

End(d, outcome) ==
    /\ Goto(d, "done")
    /\ out' = [out EXCEPT ![d] = outcome]

\* An exception: _execute_claimed releases its lease first.
Raise(d, error) ==
    /\ Goto(d, IF leased[d] THEN "failing" ELSE "done")
    /\ out' = [out EXCEPT ![d] = error]

\* execute_once or operation() returned.
Return(d, result) ==
    /\ Goto(d, IF leased[d] THEN "finish" ELSE "evaluate")
    /\ got' = [got EXCEPT ![d] = result]
    /\ UNCHANGED out

\* The transaction of d is over: its row locks go.
EndTransaction(d) ==
    /\ rowLock' = IF rowLock = d THEN None ELSE rowLock
    /\ keyLock' = IF keyLock = d THEN None ELSE keyLock
    /\ limbo' = limbo \ {d}

\* Cancel and join: a renewal already sent may still arrive.
StopHeartbeat(d) ==
    /\ heartbeat' = [heartbeat EXCEPT ![d] = "off"]
    /\ UNCHANGED lost

SentRenewal(d) ==
    IF heartbeat[d] = "sent" THEN {<<"renew", d>>} ELSE {}

-----------------------------------------------------------------------------
(* coordinator.execute: the hot claim.                                     *)

Claim(d) ==
    /\ pc[d] = "start"
    /\ hot' = Claimed(hot, Fp[d], d, now + LeaseSeconds)
    /\ LET status == ClaimStatus(hot, Fp[d]) IN
       \/ /\ status = "ACQUIRED"
          /\ leased' = [leased EXCEPT ![d] = TRUE]
          /\ heartbeat' = [heartbeat EXCEPT ![d] = "sleep"]
          /\ Goto(d, IF Mode = "HOT_ONLY" THEN "op" ELSE "find")
          /\ UNCHANGED <<got, out>>
       \/ /\ status = "REPLAY"
          /\ got' = [got EXCEPT ![d] = hot.result]
          /\ Goto(d, "evaluate")
          /\ UNCHANGED <<leased, heartbeat, out>>
       \/ /\ status \in {"CONFLICT", "IN_PROGRESS"}
          /\ Goto(d, IF Mode = "HOT_ONLY" THEN "done" ELSE "busy")
          /\ out' = [out EXCEPT ![d] =
                        IF status = "CONFLICT" THEN "conflict" ELSE "in_progress"]
          /\ UNCHANGED <<got, leased, heartbeat>>
    /\ UNCHANGED <<now, record, effects, version, locks, draft, lost, stray>>

\* IdempotencyUnavailableError: open breaker, corrupted entry, Redis error.
ClaimUnavailable(d) ==
    /\ "timeout" \in Faults
    /\ pc[d] = "start"
    /\ stray' = stray \cup {<<"claim", d>>}
    /\ IF Mode = "HOT_ONLY"
       THEN End(d, "unavailable")
       ELSE Goto(d, "find") /\ UNCHANGED out
    /\ UNCHANGED <<now, stores, version, locks, draft, got, leased, beats>>

-----------------------------------------------------------------------------
(* The durable record.                                                     *)

\* get_completed: the row of this identity that has not expired.
Existing == record # None /\ record.exp > now

\* _find_existing: replay, conflict, or nothing.
Lookup(d, ifNone) ==
    \/ /\ Existing /\ record.fp = Fp[d]
       /\ Return(d, record)
    \/ /\ Existing /\ record.fp # Fp[d]
       /\ Goto(d, IF leased[d] THEN "finish" ELSE "done")
       /\ out' = [out EXCEPT ![d] = "conflict"]
       /\ UNCHANGED got
    \/ /\ ~Existing
       /\ ifNone
       /\ UNCHANGED got

\* _resolve_busy: a committed winner takes precedence over the hot status.
ResolveBusy(d) ==
    /\ pc[d] = "busy"
    /\ \/ /\ Existing /\ record.fp = Fp[d]
          /\ Goto(d, "evaluate")
          /\ got' = [got EXCEPT ![d] = record]
          /\ UNCHANGED out
       \/ /\ Existing /\ record.fp # Fp[d]
          /\ End(d, "conflict")
          /\ UNCHANGED got
       \/ /\ ~Existing
          /\ End(d, out[d])
          /\ UNCHANGED got
    /\ UNCHANGED <<now, stores, version, locks, draft, leased, beats, stray>>

\* _execute_once up to the lookup that precedes the transaction.
FindExisting(d) ==
    /\ pc[d] = "find"
    /\ Lookup(d, Goto(d, "op") /\ UNCHANGED out)
    /\ UNCHANGED <<now, stores, version, locks, draft, leased, beats, stray>>

\* A guarded command updates the row only when that changes it.  The version
\* fixes the content, so the fingerprint decides; a no-op writes its replay
\* record and nothing else.
Updates(d) == Guarded /\ Fp[d] \in Changing

\* operation() inside the shared transaction: the version check, then, unless
\* nothing changes, the UPDATE, which waits for whoever holds the row.  The
\* deadline is fixed when the operation returns.
Operation(d) ==
    /\ pc[d] = "op"
    /\ Mode = "HOT_DURABLE"
    /\ Guarded => version = ExpectedVersion
    /\ Updates(d) => rowLock = None
    /\ rowLock' = IF Updates(d) THEN d ELSE rowLock
    /\ draft' = [draft EXCEPT ![d] = now + RetentionSeconds]
    /\ Goto(d, "insert")
    /\ UNCHANGED <<now, stores, version, keyLock, limbo, out, got, leased, beats,
                   stray>>

Draft(d) == [fp |-> Fp[d], by |-> d, exp |-> draft[d]]

\* Mutant of LiveAtInsert: the conflict branch replaces any row.
NeverLiveAtInsert(d) == FALSE

\* try_add_completed: ON CONFLICT DO UPDATE WHERE expires_at <= created_at.
\* created_at is the clock when the deadline was fixed, before any wait.
LiveAtInsert(d) ==
    record # None /\ record.exp > draft[d] - RetentionSeconds

\* The INSERT waits for an open transaction that wrote the same key.
Insert(d) ==
    /\ pc[d] = "insert"
    /\ keyLock = None
    /\ ~LiveAtInsert(d)
    /\ keyLock' = d
    /\ Goto(d, "commit")
    /\ UNCHANGED <<now, stores, version, rowLock, limbo, out, draft, got, leased,
                   beats, stray>>

\* _ConcurrentWinnerCommitted: the losing transaction rolls back.
InsertLoses(d) ==
    /\ pc[d] = "insert"
    /\ keyLock = None
    /\ LiveAtInsert(d)
    /\ EndTransaction(d)
    /\ Goto(d, "race")
    /\ out' = [out EXCEPT ![d] = "unavailable"]
    /\ UNCHANGED <<now, stores, version, draft, got, leased, beats, stray>>

\* What a commit makes visible: the effect and the replay record together.
Commits(d) ==
    /\ record' = Draft(d)
    /\ effects' = effects \cup {Draft(d)}
    /\ version' = IF Updates(d) THEN version + 1 ELSE version

Commit(d) ==
    /\ pc[d] = "commit"
    /\ Commits(d)
    /\ EndTransaction(d)
    /\ Return(d, Draft(d))
    /\ UNCHANGED <<now, hot, draft, leased, beats, stray>>

\* Version mismatch or TransactionConflictError: roll back, then look whether
\* a duplicate committed first.
LosesRace(d) ==
    /\ Mode = "HOT_DURABLE"
    /\ \/ /\ pc[d] = "op"
          /\ Guarded /\ version # ExpectedVersion
          /\ out' = [out EXCEPT ![d] = "mismatch"]
       \/ /\ pc[d] \in {"op", "insert"}
          /\ "conflict" \in Faults
          /\ out' = [out EXCEPT ![d] = "txconflict"]
    /\ EndTransaction(d)
    /\ Goto(d, "race")
    /\ UNCHANGED <<now, stores, version, draft, got, leased, beats, stray>>

\* Mutant of RaceLookup: the original error is raised without a lookup.
RaceErrorRaised(d) ==
    /\ pc[d] = "race"
    /\ Raise(d, out[d])
    /\ UNCHANGED <<now, stores, version, locks, draft, got, leased, beats, stray>>

RaceLookup(d) ==
    /\ pc[d] = "race"
    /\ Lookup(d, Raise(d, out[d]))
    /\ UNCHANGED <<now, stores, version, locks, draft, leased, beats, stray>>

-----------------------------------------------------------------------------
(* HOT_ONLY: the operation commits its own transaction.                    *)

HotOnlyResult(d) == [fp |-> Fp[d], by |-> d, exp |-> now + RetentionSeconds]

HotOnlyCommits(d) ==
    /\ pc[d] = "op"
    /\ Mode = "HOT_ONLY"
    /\ Guarded => version = ExpectedVersion
    /\ effects' = effects \cup {HotOnlyResult(d)}
    /\ version' = IF Updates(d) THEN version + 1 ELSE version
    /\ UNCHANGED record

OperationHotOnly(d) ==
    /\ HotOnlyCommits(d)
    /\ Return(d, HotOnlyResult(d))
    /\ UNCHANGED <<now, hot, locks, draft, leased, beats, stray>>

\* The commit took place, its acknowledgement was lost or cancelled.
HotOnlyCommitUnknown(d) ==
    /\ HotOnlyCommits(d)
    /\ \/ "database" \in Faults /\ Raise(d, "unavailable")
       \/ "cancel" \in Faults /\ Raise(d, "cancelled")
    /\ UNCHANGED <<now, hot, locks, draft, got, leased, beats, stray>>

-----------------------------------------------------------------------------
(* Errors of the operation and of the database.                            *)

\* The handler raises: not found, username taken, invalid value; in HOT_ONLY a
\* version mismatch is an error like any other.
OperationRaises(d) ==
    /\ pc[d] = "op"
    /\ EndTransaction(d)
    /\ \/ "domain" \in Faults /\ Raise(d, "domain")
       \/ /\ Mode = "HOT_ONLY" /\ Guarded /\ version # ExpectedVersion
          /\ Raise(d, "mismatch")
    /\ UNCHANGED <<now, stores, version, draft, got, leased, beats, stray>>

\* Mutant of DatabaseFails: the failed transaction is not rolled back.
DatabaseFailsKeepsLocks(d) ==
    /\ "database" \in Faults
    /\ pc[d] \in {"busy", "find", "op", "insert", "race"}
    /\ Raise(d, "unavailable")
    /\ UNCHANGED <<now, stores, version, locks, draft, got, leased, beats, stray>>

\* PersistenceUnavailableError with the transaction rolled back.
DatabaseFails(d) ==
    /\ "database" \in Faults
    /\ pc[d] \in {"busy", "find", "op", "insert", "race"}
    /\ EndTransaction(d)
    /\ Raise(d, "unavailable")
    /\ UNCHANGED <<now, stores, version, draft, got, leased, beats, stray>>

\* COMMIT was sent and its answer is lost or no longer awaited: the server
\* commits or rolls back later, on its own.
CommitUnknown(d) ==
    /\ pc[d] = "commit"
    /\ limbo' = limbo \cup {d}
    /\ \/ "database" \in Faults /\ Raise(d, "unavailable")
       \/ "cancel" \in Faults /\ Raise(d, "cancelled")
    /\ UNCHANGED <<now, stores, version, rowLock, keyLock, draft, got, leased,
                   beats, stray>>

LimboCommits(d) ==
    /\ d \in limbo
    /\ Commits(d)
    /\ EndTransaction(d)
    /\ UNCHANGED <<now, hot, pc, out, draft, got, leased, beats, stray>>

LimboRollsBack(d) ==
    /\ d \in limbo
    /\ EndTransaction(d)
    /\ UNCHANGED <<now, stores, version, pc, out, draft, got, leased, beats, stray>>

-----------------------------------------------------------------------------
(* _execute_claimed after the execution, _complete, _release.              *)

\* The exception path: release (unless the lease is known to be lost) while
\* the heartbeat still runs, stop it, re-raise.
Fail(d) ==
    /\ pc[d] = "failing"
    /\ hot' = IF lost[d] THEN hot ELSE Released(hot, d)
    /\ stray' = stray \cup SentRenewal(d)
    /\ StopHeartbeat(d)
    /\ End(d, out[d])
    /\ UNCHANGED <<now, record, effects, version, locks, draft, got, leased>>

FailReleaseUnavailable(d) ==
    /\ "timeout" \in Faults
    /\ pc[d] = "failing"
    /\ ~lost[d]
    /\ stray' = stray \cup SentRenewal(d) \cup {<<"release", d>>}
    /\ StopHeartbeat(d)
    /\ End(d, out[d])
    /\ UNCHANGED <<now, stores, version, locks, draft, got, leased>>

\* The normal path: stop the heartbeat, then publish, release or neither.
Finish(d) ==
    /\ pc[d] = "finish"
    /\ stray' = stray \cup SentRenewal(d)
    /\ StopHeartbeat(d)
    /\ \/ /\ lost[d]
          /\ Mode = "HOT_ONLY"
          /\ End(d, "unavailable")
       \/ /\ lost[d]
          /\ Mode = "HOT_DURABLE"
          /\ Goto(d, IF got[d] # None THEN "evaluate" ELSE "done")
          /\ UNCHANGED out
       \/ /\ ~lost[d]
          /\ Goto(d, IF got[d] # None THEN "complete" ELSE "release")
          /\ UNCHANGED out
    /\ UNCHANGED <<now, stores, version, locks, draft, got, leased>>

HotResultTtl == IF Mode = "HOT_ONLY" THEN RetentionSeconds ELSE HotCacheSeconds

\* Mutant of Complete: HOT_ONLY answers although nothing was published.
CompleteUnchecked(d) ==
    /\ pc[d] = "complete"
    /\ hot' = Completed(hot, d, got[d], HotResultTtl, now)
    /\ Goto(d, "evaluate")
    /\ UNCHANGED <<now, record, effects, version, locks, out, draft, got,
                   leased, beats, stray>>

\* _complete: in HOT_ONLY an unpublished result is an error, in HOT_DURABLE
\* the committed effect stands.
Complete(d) ==
    /\ pc[d] = "complete"
    /\ hot' = Completed(hot, d, got[d], HotResultTtl, now)
    /\ IF Mode = "HOT_ONLY" /\ ~Publishes(hot, d, got[d], now)
       THEN End(d, "unavailable")
       ELSE Goto(d, "evaluate") /\ UNCHANGED out
    /\ UNCHANGED <<now, record, effects, version, locks, draft, got, leased,
                   beats, stray>>

CompleteUnavailable(d) ==
    /\ "timeout" \in Faults
    /\ pc[d] = "complete"
    /\ stray' = stray \cup {<<"complete", d>>}
    /\ IF Mode = "HOT_ONLY"
       THEN End(d, "unavailable")
       ELSE Goto(d, "evaluate") /\ UNCHANGED out
    /\ UNCHANGED <<now, stores, version, locks, draft, got, leased, beats>>

\* _release after a durable conflict.
Release(d) ==
    /\ pc[d] = "release"
    /\ hot' = Released(hot, d)
    /\ End(d, out[d])
    /\ UNCHANGED <<now, record, effects, version, locks, draft, got, leased,
                   beats, stray>>

ReleaseUnavailable(d) ==
    /\ "timeout" \in Faults
    /\ pc[d] = "release"
    /\ stray' = stray \cup {<<"release", d>>}
    /\ End(d, out[d])
    /\ UNCHANGED <<now, stores, version, locks, draft, got, leased, beats>>

\* Mutant of Evaluate: the deadline is not looked at again.
EvaluateUnchecked(d) ==
    /\ pc[d] = "evaluate"
    /\ End(d, "ok")
    /\ UNCHANGED <<now, stores, version, locks, draft, got, leased, beats, stray>>

\* _evaluate_result of a completed result.
Evaluate(d) ==
    /\ pc[d] = "evaluate"
    /\ End(d, IF got[d].exp <= now THEN "unavailable" ELSE "ok")
    /\ UNCHANGED <<now, stores, version, locks, draft, got, leased, beats, stray>>

-----------------------------------------------------------------------------
(* _heartbeat                                                              *)

HeartbeatWakes(d) ==
    /\ heartbeat[d] = "sleep"
    /\ heartbeat' = [heartbeat EXCEPT ![d] = "sent"]
    /\ UNCHANGED <<now, stores, version, locks, pc, out, draft, got, leased,
                   lost, stray>>

Renew(d) ==
    /\ heartbeat[d] = "sent"
    /\ hot' = Renewed(hot, d, now + LeaseSeconds)
    /\ heartbeat' = [heartbeat EXCEPT ![d] =
                        IF Owns(hot, d) THEN "sleep" ELSE "off"]
    /\ lost' = [lost EXCEPT ![d] = ~Owns(hot, d)]
    /\ UNCHANGED <<now, record, effects, version, locks, pc, out, draft, got,
                   leased, stray>>

\* Any exception of the renewal counts as a lost lease, even if the call
\* reached Redis or is about to.
RenewUnavailable(d) ==
    /\ "timeout" \in Faults
    /\ heartbeat[d] = "sent"
    /\ heartbeat' = [heartbeat EXCEPT ![d] = "off"]
    /\ lost' = [lost EXCEPT ![d] = TRUE]
    /\ stray' = stray \cup {<<"renew", d>>}
    /\ UNCHANGED <<now, stores, version, locks, pc, out, draft, got, leased>>

-----------------------------------------------------------------------------
(* Cancellation and crash.                                                 *)

\* The Redis command in flight at this point of the dispatch.
InFlight(d) ==
    CASE pc[d] = "start"                            -> {<<"claim", d>>}
      [] pc[d] = "complete"                         -> {<<"complete", d>>}
      [] pc[d] = "release"                          -> {<<"release", d>>}
      [] pc[d] = "failing" /\ ~lost[d]              -> {<<"release", d>>}
      [] OTHER                                      -> {}

\* CancelledError at an await of the database: the transaction rolls back.
CancelDatabase(d) ==
    /\ "cancel" \in Faults
    /\ pc[d] \in {"busy", "find", "op", "insert", "race"}
    /\ EndTransaction(d)
    /\ Raise(d, "cancelled")
    /\ UNCHANGED <<now, stores, version, draft, got, leased, beats, stray>>

\* CancelledError at an await of Redis.  In the join of _stop_heartbeat it is
\* suppressed and the dispatch goes on.
CancelRedis(d) ==
    /\ "cancel" \in Faults
    /\ pc[d] \in {"start", "complete", "release", "failing"}
    /\ stray' = stray \cup InFlight(d) \cup SentRenewal(d)
    /\ StopHeartbeat(d)
    /\ End(d, "cancelled")
    /\ UNCHANGED <<now, stores, version, locks, draft, got, leased>>

\* The process dies: no release, and the server rolls the transaction back.
Crash(d) ==
    /\ "crash" \in Faults
    /\ pc[d] # "done"
    /\ stray' = stray \cup InFlight(d) \cup SentRenewal(d)
    /\ StopHeartbeat(d)
    /\ IF pc[d] = "commit"
       THEN limbo' = limbo \cup {d} /\ UNCHANGED <<rowLock, keyLock>>
       ELSE EndTransaction(d)
    /\ End(d, "crashed")
    /\ HotOnlyCommits(d) \/ UNCHANGED <<record, effects, version>>
    /\ UNCHANGED <<now, hot, draft, got, leased>>

-----------------------------------------------------------------------------
(* The environment.                                                        *)

Deliver(command, d) ==
    CASE command = "claim"    -> Claimed(hot, Fp[d], d, now + LeaseSeconds)
      [] command = "renew"    -> Renewed(hot, d, now + LeaseSeconds)
      [] command = "complete" -> Completed(hot, d, got[d], HotResultTtl, now)
      [] command = "release"  -> Released(hot, d)

\* A call nobody waits for reaches Redis after all.
StrayArrives ==
    /\ \E s \in stray :
          /\ hot' = Deliver(s[1], s[2])
          /\ stray' = stray \ {s}
    /\ UNCHANGED <<now, record, effects, version, locks, pc, out, draft, got,
                   leased, beats>>

\* Redis restarts empty or evicts the key.
Evict ==
    /\ "evict" \in Faults
    /\ hot # NoEntry
    /\ hot' = NoEntry
    /\ UNCHANGED <<now, record, effects, version, locks, pc, out, draft, got,
                   leased, beats, stray>>

\* Another command changes the resource first.
OtherWriter ==
    /\ "writer" \in Faults
    /\ rowLock = None
    /\ version = ExpectedVersion
    /\ version' = version + 1
    /\ UNCHANGED <<now, stores, locks, pc, out, draft, got, leased, beats, stray>>

Tick ==
    /\ now < MaxTime
    /\ now' = now + 1
    /\ hot' = Expire(hot, now')
    /\ UNCHANGED <<record, effects, version, locks, pc, out, draft, got,
                   leased, beats, stray>>

-----------------------------------------------------------------------------
\* What a dispatch does when nothing goes wrong or others win; a domain error
\* is never what gets it out of waiting for a lock.
Progress(d) ==
    \/ Claim(d) \/ ResolveBusy(d) \/ FindExisting(d)
    \/ Operation(d) \/ Insert(d) \/ InsertLoses(d) \/ Commit(d)
    \/ LosesRace(d) \/ RaceLookup(d)
    \/ OperationHotOnly(d)
    \/ Fail(d) \/ Finish(d) \/ Complete(d) \/ Release(d) \/ Evaluate(d)

Next ==
    \/ Tick \/ StrayArrives \/ Evict \/ OtherWriter
    \/ \E d \in Dispatches :
          \/ Claim(d) \/ ClaimUnavailable(d)
          \/ ResolveBusy(d) \/ FindExisting(d)
          \/ Operation(d) \/ Insert(d) \/ InsertLoses(d) \/ Commit(d)
          \/ LosesRace(d) \/ RaceLookup(d)
          \/ OperationHotOnly(d) \/ HotOnlyCommitUnknown(d)
          \/ OperationRaises(d) \/ DatabaseFails(d) \/ CommitUnknown(d)
          \/ LimboCommits(d) \/ LimboRollsBack(d)
          \/ Fail(d) \/ FailReleaseUnavailable(d)
          \/ Finish(d) \/ Complete(d) \/ CompleteUnavailable(d)
          \/ Release(d) \/ ReleaseUnavailable(d) \/ Evaluate(d)
          \/ HeartbeatWakes(d) \/ Renew(d) \/ RenewUnavailable(d)
          \/ CancelDatabase(d) \/ CancelRedis(d)
          \/ Crash(d)

Spec == Init /\ [][Next]_vars

(***************************************************************************)
(* Fairness.  Every await of a dispatch returns: Redis calls have a socket *)
(* timeout, and a lock is awaited only while another dispatch, itself fair,*)
(* holds it.  PostgreSQL finishes a transaction it was told to commit or   *)
(* whose client is gone.  Nothing is assumed of the clock, the heartbeat   *)
(* or the faults.                                                          *)
(***************************************************************************)
LiveSpec ==
    /\ Spec
    /\ \A d \in Dispatches :
          /\ WF_vars(Progress(d))
          /\ WF_vars(LimboCommits(d) \/ LimboRollsBack(d))

-----------------------------------------------------------------------------
(* Properties.                                                             *)

\* HOT_DURABLE executes a key at most once per retention window: the windows
\* [created_at, expires_at) of two committed effects are disjoint, whatever
\* leases were lost, entries evicted, answers lost and processes killed.
OncePerRetention ==
    Mode = "HOT_DURABLE" =>
        \A e1, e2 \in effects :
            e1 # e2 => \/ e1.exp <= e2.exp - RetentionSeconds
                       \/ e2.exp <= e1.exp - RetentionSeconds

\* A result that Redis would replay before its deadline is the committed row:
\* warming the cache never outlives the record, never publishes an effect that
\* was rolled back or superseded, and never changes the fingerprint.
HotMatchesRecord ==
    (Mode = "HOT_DURABLE" /\ hot.state = "completed") =>
        /\ hot.fp = hot.result.fp
        /\ hot.deadline <= hot.result.exp
        /\ hot.result.exp > now => hot.result = record

\* Two successful answers whose replay window is still open carry the same
\* result, produced by one execution for this fingerprint.
AnswersAgree ==
    \A d1, d2 \in Dispatches :
        (/\ pc[d1] = "done" /\ out[d1] = "ok" /\ got[d1].exp > now
         /\ pc[d2] = "done" /\ out[d2] = "ok" /\ got[d2].exp > now)
            => got[d1] = got[d2] /\ got[d1].fp = Fp[d1]

\* A HOT_ONLY success is only reported once Redis holds the result, for all of
\* its retention: short of an eviction the next duplicate replays it.
HotOnlySuccessStored ==
    (Mode = "HOT_ONLY" /\ "evict" \notin Faults) =>
        \A d \in Dispatches :
            (pc[d] = "done" /\ out[d] = "ok" /\ got[d].exp > now) =>
                hot.state = "completed" /\ hot.result = got[d]

\* A duplicate that lost the version check is not told "version mismatch"
\* while the committed result of its own request can be replayed: the stale
\* version is never the request's own doing.  Only a request that changes its
\* row is protected, by the row lock: a no-op holds none, so another command
\* may commit between its check and its commit, and a duplicate that looks in
\* between is told of that command although the no-op still succeeds.
NoFalseMismatch ==
    \A d \in Dispatches :
        (pc[d] = "done" /\ out[d] = "mismatch" /\ Fp[d] \in Changing) =>
            ~(Existing /\ record.fp = Fp[d])

\* The step is one of dispatch d, of its heartbeat, or of a call it sent.
ActsFor(d) ==
    \/ pc'[d] # pc[d]
    \/ heartbeat'[d] # heartbeat[d]
    \/ \E s \in stray \ stray' : s[2] = d

\* The entry is gone because Redis dropped it: past its deadline, or evicted
\* while nobody did anything.
DroppedByRedis ==
    /\ hot' = NoEntry
    /\ \/ hot.deadline < now'
       \/ "evict" \in Faults /\ UNCHANGED <<now, pc, heartbeat, stray>>

\* A pending lease is extended, completed or ended only by its owner: a claim,
\* renewal, completion or release another dispatch sent, however late, leaves
\* it alone, and otherwise it goes by expiry or eviction only.  A published
\* result is rewritten, kept longer or removed by nobody.
LeaseStaysWithOwner ==
    [][/\ (hot.state = "processing" /\ hot' # hot) =>
             \/ DroppedByRedis
             \/ /\ ActsFor(hot.token)
                /\ \/ hot' = NoEntry
                   \/ hot' = [hot EXCEPT !.deadline = now + LeaseSeconds]
                   \/ hot'.state = "completed" /\ hot'.result = got[hot.token]
       /\ (hot.state = "completed" /\ hot' # hot) => DroppedByRedis]_hot

\* Every dispatch ends: waiting for row locks and for the heartbeat to stop
\* cannot block two dispatches on each other.
EveryDispatchEnds == \A d \in Dispatches : <>(pc[d] = "done")
=============================================================================
