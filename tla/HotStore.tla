------------------------------ MODULE HotStore ------------------------------
(***************************************************************************)
(* The Redis entry of one idempotency identity and the four Lua scripts of *)
(* infrastructure/idempotency/redis/hot_store.py as operators on it.  A    *)
(* script runs atomically in Redis, so each is a function of the entry it  *)
(* finds.  An entry is the Redis hash (state, request_fingerprint,         *)
(* lease_token, result) with the deadline its EXPIRE or PEXPIRE set.       *)
(*                                                                         *)
(* A result is [fp, by, exp]: the request fingerprint, the dispatch whose  *)
(* execution produced the snapshot, and `expires_at`.                      *)
(***************************************************************************)
EXTENDS Integers

CONSTANT None

NoEntry ==
    [state |-> "absent", fp |-> None, token |-> None, result |-> None,
     deadline |-> 0]

EntryType(Fingerprints, Tokens, Results) ==
    {NoEntry}
    \cup [state : {"processing"}, fp : Fingerprints, token : Tokens,
          result : {None}, deadline : Nat]
    \cup [state : {"completed"}, fp : Fingerprints, token : {None},
          result : Results, deadline : Nat]

\* Redis drops a key once the clock is past its deadline; at the deadline
\* itself the key is still served.
Expire(e, now) == IF e.deadline < now THEN NoEntry ELSE e

-----------------------------------------------------------------------------
(* CLAIM *)

\* Mutant of ClaimStatus: a completed entry is replayed without comparing the
\* fingerprints.
ClaimStatusAnyFingerprint(e, fp) ==
    CASE e.state = "absent"     -> "ACQUIRED"
      [] e.state = "completed"  -> "REPLAY"
      [] e.state = "processing" -> IF e.fp = fp THEN "IN_PROGRESS" ELSE "CONFLICT"

ClaimStatus(e, fp) ==
    CASE e.state = "absent"                      -> "ACQUIRED"
      [] e.state # "absent" /\ e.fp # fp         -> "CONFLICT"
      [] e.state = "completed" /\ e.fp = fp      -> "REPLAY"
      [] e.state = "processing" /\ e.fp = fp     -> "IN_PROGRESS"

Claimed(e, fp, token, until) ==
    IF e.state = "absent"
    THEN [state |-> "processing", fp |-> fp, token |-> token, result |-> None,
          deadline |-> until]
    ELSE e

-----------------------------------------------------------------------------
(* RENEW, COMPLETE, RELEASE: each first checks the lease token.            *)

Owns(e, token) == e.state = "processing" /\ e.token = token

Renewed(e, token, until) ==
    IF Owns(e, token) THEN [e EXCEPT !.deadline = until] ELSE e

\* The script's answer: 1 when the result was stored.
Publishes(e, token, result, now) ==
    Owns(e, token) /\ e.fp = result.fp /\ result.exp > now

\* Mutant of Completed: PEXPIRE gets the cache limit only.
CompletedFullCache(e, token, result, cacheTtl, now) ==
    IF Owns(e, token) /\ e.fp = result.fp
    THEN [state |-> "completed", fp |-> e.fp, token |-> None,
          result |-> result, deadline |-> now + cacheTtl]
    ELSE e

\* Mutant of Completed: the lease token is not removed.
CompletedKeepsToken(e, token, result, cacheTtl, now) ==
    IF Publishes(e, token, result, now)
    THEN [e EXCEPT !.state = "completed", !.result = result,
                   !.deadline = result.exp]
    ELSE e

Completed(e, token, result, cacheTtl, now) ==
    LET cached == now + cacheTtl
    IN  IF ~(Owns(e, token) /\ e.fp = result.fp) THEN e
        ELSE IF result.exp <= now THEN NoEntry
        ELSE [state |-> "completed", fp |-> e.fp, token |-> None,
              result |-> result,
              deadline |-> IF cached < result.exp THEN cached ELSE result.exp]

\* Mutant of Released: the lease token is not compared.
ReleasedUnchecked(e, token) == IF e.state = "processing" THEN NoEntry ELSE e

Released(e, token) == IF Owns(e, token) THEN NoEntry ELSE e
=============================================================================
