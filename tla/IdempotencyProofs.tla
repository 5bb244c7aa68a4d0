-------------------------- MODULE IdempotencyProofs --------------------------
(***************************************************************************)
(* Proofs about Idempotency for every set of dispatches, every fingerprint *)
(* assignment, every period and every set of faults: the scripts of        *)
(* HotStore, the types, the inductive invariants of HOT_DURABLE and of     *)
(* HOT_ONLY with the properties that follow from them, and the refinement  *)
(* of OnceMemory.                                                          *)
(***************************************************************************)
EXTENDS IdempotencyOnce, TLAPS

\* The Redis entries of TypeOK.
Entries == EntryType(Fingerprints, Dispatches, Result)

\* The CLAIM script leaves a well-formed entry.
LEMMA ClaimedType ==
    ASSUME NEW e \in Entries, NEW fp \in Fingerprints, NEW t \in Dispatches,
           NEW until \in Nat
    PROVE  Claimed(e, fp, t, until) \in Entries
BY DEF Entries, EntryType, Claimed

\* The RENEW script leaves a well-formed entry.
LEMMA RenewedType ==
    ASSUME NEW e \in Entries, NEW t \in Dispatches, NEW until \in Nat
    PROVE  Renewed(e, t, until) \in Entries
BY DEF Entries, EntryType, NoEntry, Renewed, Owns

\* The COMPLETE script leaves a well-formed entry.
LEMMA CompletedType ==
    ASSUME NEW e \in Entries, NEW t \in Dispatches, NEW r \in Result,
           NEW ttl \in Nat, NEW n \in Nat
    PROVE  Completed(e, t, r, ttl, n) \in Entries
BY DEF Entries, EntryType, NoEntry, Completed, Owns, Result

\* The RELEASE script leaves a well-formed entry.
LEMMA ReleasedType ==
    ASSUME NEW e \in Entries, NEW t \in Dispatches
    PROVE  Released(e, t) \in Entries
BY DEF Entries, EntryType, Released

\* Key expiry leaves a well-formed entry.
LEMMA ExpireType ==
    ASSUME NEW e \in Entries, NEW n \in Nat
    PROVE  Expire(e, n) \in Entries
BY DEF Entries, EntryType, Expire

\* A completed entry is the one the script found, or the published result kept
\* no longer than its deadline.
LEMMA CompletedEntry ==
    ASSUME NEW e \in Entries, NEW t \in Dispatches, NEW r \in Result,
           NEW ttl \in Nat, NEW n \in Nat,
           Completed(e, t, r, ttl, n).state = "completed",
           Completed(e, t, r, ttl, n) # e
    PROVE  /\ Completed(e, t, r, ttl, n).fp = r.fp
           /\ Completed(e, t, r, ttl, n).result = r
           /\ Completed(e, t, r, ttl, n).deadline <= r.exp
BY DEF Completed, NoEntry, Result

\* No other script produces a completed entry.
LEMMA KeepsCompleted ==
    ASSUME NEW e \in Entries, NEW fp \in Fingerprints, NEW t \in Dispatches,
           NEW until \in Nat, NEW n \in Nat
    PROVE  /\ Claimed(e, fp, t, until).state = "completed" =>
                  Claimed(e, fp, t, until) = e
           /\ Renewed(e, t, until).state = "completed" => Renewed(e, t, until) = e
           /\ Released(e, t).state = "completed" => Released(e, t) = e
           /\ Expire(e, n).state = "completed" => Expire(e, n) = e
<1>1. Claimed(e, fp, t, until).state = "completed" =>
          Claimed(e, fp, t, until) = e
    BY DEF Claimed
<1>2. Renewed(e, t, until).state = "completed" => Renewed(e, t, until) = e
    BY DEF Renewed, Owns, Entries, EntryType, NoEntry
<1>3. Released(e, t).state = "completed" => Released(e, t) = e
    BY DEF Released, NoEntry
<1>4. Expire(e, n).state = "completed" => Expire(e, n) = e
    BY DEF Expire, NoEntry
<1> QED BY <1>1, <1>2, <1>3, <1>4

-----------------------------------------------------------------------------
\* A dispatch that publishes or answers holds a result.
HoldsResult ==
    /\ \A d \in Dispatches :
          /\ pc[d] \in {"evaluate", "complete"} => got[d] \in Result
          /\ out[d] = "ok" => pc[d] = "done" /\ got[d] \in Result
    /\ \A s \in stray : s[1] = "complete" => got[s[2]] \in Result

TypeInv == TypeOK /\ HoldsResult

\* Types hold initially.
LEMMA InitTypes == Init => TypeInv
<1> SUFFICES ASSUME Init PROVE TypeInv
    OBVIOUS
<1> USE NoneAssumption, FpAssumption, EnvironmentAssumption DEF Init
<1>1. leased \in [Dispatches -> BOOLEAN] /\ lost \in [Dispatches -> BOOLEAN]
    BY Zenon
<1>2. TypeOK
    BY <1>1 DEF TypeOK, EntryType, Result, Control, Outcome, ExpectedVersion, NoEntry
<1>3. HoldsResult
    BY DEF HoldsResult
<1> QED BY <1>2, <1>3 DEF TypeInv

\* Every step keeps them.
LEMMA NextTypes == TypeInv /\ [Next]_vars => TypeInv'
<1> SUFFICES ASSUME TypeInv, [Next]_vars PROVE TypeInv'
    OBVIOUS
<1> USE NoneAssumption, FpAssumption, EnvironmentAssumption, PeriodAssumption
<1> USE DEF TypeInv, TypeOK, HoldsResult, Control, Outcome, Command, Entries,
            stores, locks, beats
<1>1. ASSUME NEW d \in Dispatches, Claim(d) PROVE TypeInv'
    <2> USE <1>1 DEF Claim
    <2>1. hot' \in Entries
        BY ClaimedType
    <2>2. ClaimStatus(hot, Fp[d]) = "REPLAY" => hot.result \in Result
        BY DEF ClaimStatus, EntryType, NoEntry
    <2>3. leased' \in [Dispatches -> BOOLEAN]
        BY Zenon
    <2>4. pc' \in [Dispatches -> Control] /\ out' \in [Dispatches -> Outcome]
        BY DEF Goto
    <2>5. got' \in [Dispatches -> Result \cup {None}]
        BY <2>2
    <2>6. heartbeat' \in [Dispatches -> {"off", "sleep", "sent"}]
        OBVIOUS
    <2>7. HoldsResult'
        BY <2>2 DEF Goto
    <2> QED BY <2>1, <2>3, <2>4, <2>5, <2>6, <2>7
<1>2. ASSUME NEW d \in Dispatches, ClaimUnavailable(d) PROVE TypeInv'
    <2> USE <1>2 DEF ClaimUnavailable, Goto, End
    <2>1. TypeOK'
        OBVIOUS
    <2>2. HoldsResult'
        OBVIOUS
    <2> QED BY <2>1, <2>2
<1>3. ASSUME NEW d \in Dispatches, ResolveBusy(d) PROVE TypeInv'
    <2> USE <1>3 DEF ResolveBusy, Existing, Goto, End
    <2>1. TypeOK'
        OBVIOUS
    <2>2. HoldsResult'
        OBVIOUS
    <2> QED BY <2>1, <2>2
<1>4. ASSUME NEW d \in Dispatches, FindExisting(d) PROVE TypeInv'
    <2> USE <1>4 DEF FindExisting, Lookup, Existing, Goto, Return
    <2>1. TypeOK'
        OBVIOUS
    <2>2. HoldsResult'
        OBVIOUS
    <2> QED BY <2>1, <2>2
<1>5. ASSUME NEW d \in Dispatches, Operation(d) PROVE TypeInv'
    <2> USE <1>5 DEF Operation, Goto
    <2>1. TypeOK'
        OBVIOUS
    <2>2. HoldsResult'
        OBVIOUS
    <2> QED BY <2>1, <2>2
<1>6. ASSUME NEW d \in Dispatches, Insert(d) PROVE TypeInv'
    <2> USE <1>6 DEF Insert, Goto
    <2>1. TypeOK'
        OBVIOUS
    <2>2. HoldsResult'
        OBVIOUS
    <2> QED BY <2>1, <2>2
<1>7. ASSUME NEW d \in Dispatches, InsertLoses(d) PROVE TypeInv'
    <2> USE <1>7 DEF InsertLoses, Goto, EndTransaction
    <2>1. TypeOK'
        OBVIOUS
    <2>2. HoldsResult'
        OBVIOUS
    <2> QED BY <2>1, <2>2
<1>8. ASSUME NEW d \in Dispatches, Commit(d) PROVE TypeInv'
    <2> USE <1>8 DEF Commit, Commits, Draft, Return, Goto, EndTransaction, Result
    <2>1. TypeOK'
        OBVIOUS
    <2>2. HoldsResult'
        OBVIOUS
    <2> QED BY <2>1, <2>2
<1>9. ASSUME NEW d \in Dispatches, LosesRace(d) PROVE TypeInv'
    <2> USE <1>9 DEF LosesRace, Goto, EndTransaction
    <2>1. TypeOK'
        OBVIOUS
    <2>2. HoldsResult'
        OBVIOUS
    <2> QED BY <2>1, <2>2
<1>10. ASSUME NEW d \in Dispatches, RaceLookup(d) PROVE TypeInv'
    <2> USE <1>10 DEF RaceLookup, Lookup, Existing, Goto, Return, Raise
    <2>1. TypeOK'
        OBVIOUS
    <2>2. HoldsResult'
        OBVIOUS
    <2> QED BY <2>1, <2>2
<1>11. ASSUME NEW d \in Dispatches, OperationHotOnly(d) PROVE TypeInv'
    <2> USE <1>11 DEF OperationHotOnly, HotOnlyCommits, HotOnlyResult, Return, Goto, Result
    <2>1. TypeOK'
        OBVIOUS
    <2>2. HoldsResult'
        OBVIOUS
    <2> QED BY <2>1, <2>2
<1>12. ASSUME NEW d \in Dispatches, HotOnlyCommitUnknown(d) PROVE TypeInv'
    <2> USE <1>12 DEF HotOnlyCommitUnknown, HotOnlyCommits, HotOnlyResult, Raise, Goto, Result
    <2>1. TypeOK'
        OBVIOUS
    <2>2. HoldsResult'
        OBVIOUS
    <2> QED BY <2>1, <2>2
<1>13. ASSUME NEW d \in Dispatches, OperationRaises(d) PROVE TypeInv'
    <2> USE <1>13 DEF OperationRaises, EndTransaction, Raise, Goto
    <2>1. TypeOK'
        OBVIOUS
    <2>2. HoldsResult'
        OBVIOUS
    <2> QED BY <2>1, <2>2
<1>14. ASSUME NEW d \in Dispatches, DatabaseFails(d) PROVE TypeInv'
    <2> USE <1>14 DEF DatabaseFails, EndTransaction, Raise, Goto
    <2>1. TypeOK'
        OBVIOUS
    <2>2. HoldsResult'
        OBVIOUS
    <2> QED BY <2>1, <2>2
<1>15. ASSUME NEW d \in Dispatches, CommitUnknown(d) PROVE TypeInv'
    <2> USE <1>15 DEF CommitUnknown, Raise, Goto
    <2>1. TypeOK'
        OBVIOUS
    <2>2. HoldsResult'
        OBVIOUS
    <2> QED BY <2>1, <2>2
<1>16. ASSUME NEW d \in Dispatches, LimboCommits(d) PROVE TypeInv'
    <2> USE <1>16 DEF LimboCommits, Commits, Draft, EndTransaction, Result
    <2>1. TypeOK'
        OBVIOUS
    <2>2. HoldsResult'
        OBVIOUS
    <2> QED BY <2>1, <2>2
<1>17. ASSUME NEW d \in Dispatches, LimboRollsBack(d) PROVE TypeInv'
    <2> USE <1>17 DEF LimboRollsBack, EndTransaction
    <2>1. TypeOK'
        OBVIOUS
    <2>2. HoldsResult'
        OBVIOUS
    <2> QED BY <2>1, <2>2
<1>18. ASSUME NEW d \in Dispatches, Fail(d) PROVE TypeInv'
    <2> USE <1>18 DEF Fail, SentRenewal, StopHeartbeat, End, Goto
    <2>1. TypeOK'
        BY ReleasedType
    <2>2. HoldsResult'
        OBVIOUS
    <2> QED BY <2>1, <2>2
<1>19. ASSUME NEW d \in Dispatches, FailReleaseUnavailable(d) PROVE TypeInv'
    <2> USE <1>19 DEF FailReleaseUnavailable, SentRenewal, StopHeartbeat, End, Goto
    <2>1. TypeOK'
        OBVIOUS
    <2>2. HoldsResult'
        OBVIOUS
    <2> QED BY <2>1, <2>2
<1>20. ASSUME NEW d \in Dispatches, Finish(d) PROVE TypeInv'
    <2> USE <1>20 DEF Finish, SentRenewal, StopHeartbeat, End, Goto
    <2>1. TypeOK'
        OBVIOUS
    <2>2. HoldsResult'
        OBVIOUS
    <2> QED BY <2>1, <2>2
<1>21. ASSUME NEW d \in Dispatches, Complete(d) PROVE TypeInv'
    <2> USE <1>21 DEF Complete, End, Goto, HotResultTtl
    <2>0. hot' \in Entries
        BY CompletedType
    <2>1. TypeOK'
        BY <2>0
    <2>2. HoldsResult'
        OBVIOUS
    <2> QED BY <2>1, <2>2
<1>22. ASSUME NEW d \in Dispatches, CompleteUnavailable(d) PROVE TypeInv'
    <2> USE <1>22 DEF CompleteUnavailable, End, Goto
    <2>1. TypeOK'
        OBVIOUS
    <2>2. HoldsResult'
        OBVIOUS
    <2> QED BY <2>1, <2>2
<1>23. ASSUME NEW d \in Dispatches, Release(d) PROVE TypeInv'
    <2> USE <1>23 DEF Release, End, Goto
    <2>1. TypeOK'
        BY ReleasedType
    <2>2. HoldsResult'
        OBVIOUS
    <2> QED BY <2>1, <2>2
<1>24. ASSUME NEW d \in Dispatches, ReleaseUnavailable(d) PROVE TypeInv'
    <2> USE <1>24 DEF ReleaseUnavailable, End, Goto
    <2>1. TypeOK'
        OBVIOUS
    <2>2. HoldsResult'
        OBVIOUS
    <2> QED BY <2>1, <2>2
<1>25. ASSUME NEW d \in Dispatches, Evaluate(d) PROVE TypeInv'
    <2> USE <1>25 DEF Evaluate, End, Goto
    <2>1. TypeOK'
        OBVIOUS
    <2>2. HoldsResult'
        OBVIOUS
    <2> QED BY <2>1, <2>2
<1>26. ASSUME NEW d \in Dispatches, HeartbeatWakes(d) PROVE TypeInv'
    <2> USE <1>26 DEF HeartbeatWakes
    <2>1. TypeOK'
        OBVIOUS
    <2>2. HoldsResult'
        OBVIOUS
    <2> QED BY <2>1, <2>2
<1>27. ASSUME NEW d \in Dispatches, Renew(d) PROVE TypeInv'
    <2> USE <1>27 DEF Renew
    <2>1. TypeOK'
        BY RenewedType
    <2>2. HoldsResult'
        OBVIOUS
    <2> QED BY <2>1, <2>2
<1>28. ASSUME NEW d \in Dispatches, RenewUnavailable(d) PROVE TypeInv'
    <2> USE <1>28 DEF RenewUnavailable
    <2>1. TypeOK'
        OBVIOUS
    <2>2. HoldsResult'
        OBVIOUS
    <2> QED BY <2>1, <2>2
<1>29. ASSUME NEW d \in Dispatches, CancelDatabase(d) PROVE TypeInv'
    <2> USE <1>29 DEF CancelDatabase, EndTransaction, Raise, Goto
    <2>1. TypeOK'
        OBVIOUS
    <2>2. HoldsResult'
        OBVIOUS
    <2> QED BY <2>1, <2>2
<1>30. ASSUME NEW d \in Dispatches, CancelRedis(d) PROVE TypeInv'
    <2> USE <1>30 DEF CancelRedis, InFlight, SentRenewal, StopHeartbeat, End, Goto
    <2>1. TypeOK'
        OBVIOUS
    <2>2. HoldsResult'
        OBVIOUS
    <2> QED BY <2>1, <2>2
<1>31. ASSUME NEW d \in Dispatches, Crash(d) PROVE TypeInv'
    <2> USE <1>31 DEF Crash, InFlight, SentRenewal, StopHeartbeat, End, Goto, EndTransaction, HotOnlyCommits, HotOnlyResult, Result
    <2>1. TypeOK'
        OBVIOUS
    <2>2. HoldsResult'
        OBVIOUS
    <2> QED BY <2>1, <2>2
<1>32. CASE Tick
    <2> USE <1>32 DEF Tick
    <2>1. TypeOK'
        BY ExpireType
    <2>2. HoldsResult'
        OBVIOUS
    <2> QED BY <2>1, <2>2
<1>33. CASE StrayArrives
    <2> USE <1>33 DEF StrayArrives
    <2>0. PICK s \in stray : hot' = Deliver(s[1], s[2]) /\ stray' = stray \ {s}
        OBVIOUS
    <2>a. s[1] \in Command /\ s[2] \in Dispatches
        OBVIOUS
    <2>1. hot' \in Entries
        <3>1. CASE s[1] = "claim"
            <4>1. hot' = Claimed(hot, Fp[s[2]], s[2], now + LeaseSeconds)
                BY <2>0, <3>1 DEF Deliver
            <4> QED BY <4>1, <2>a, <3>1, ClaimedType
        <3>2. CASE s[1] = "renew"
            <4>1. hot' = Renewed(hot, s[2], now + LeaseSeconds)
                BY <2>0, <3>2 DEF Deliver
            <4> QED BY <4>1, <2>a, <3>2, RenewedType
        <3>3. CASE s[1] = "complete"
            <4>1. hot' = Completed(hot, s[2], got[s[2]], HotResultTtl, now)
                BY <2>0, <3>3 DEF Deliver
            <4>2. got[s[2]] \in Result /\ HotResultTtl \in Nat
                BY <3>3 DEF HotResultTtl
            <4> QED BY <4>1, <4>2, <2>a, CompletedType
        <3>4. CASE s[1] = "release"
            <4>1. hot' = Released(hot, s[2])
                BY <2>0, <3>4 DEF Deliver
            <4> QED BY <4>1, <2>a, <3>4, ReleasedType
        <3> QED BY <2>a, <3>1, <3>2, <3>3, <3>4
    <2>2. HoldsResult'
        OBVIOUS
    <2> QED BY <2>0, <2>1, <2>2
<1>34. CASE Evict
    <2> USE <1>34 DEF Evict, EntryType
    <2>1. TypeOK'
        OBVIOUS
    <2>2. HoldsResult'
        OBVIOUS
    <2> QED BY <2>1, <2>2
<1>35. CASE OtherWriter
    <2> USE <1>35 DEF OtherWriter
    <2>1. TypeOK'
        OBVIOUS
    <2>2. HoldsResult'
        OBVIOUS
    <2> QED BY <2>1, <2>2
<1>36. CASE UNCHANGED vars
    <2> USE <1>36 DEF vars
    <2>1. TypeOK'
        OBVIOUS
    <2>2. HoldsResult'
        OBVIOUS
    <2> QED BY <2>1, <2>2
<1> QED
    BY <1>1, <1>2, <1>3, <1>4, <1>5, <1>6, <1>7, <1>8, <1>9, <1>10, <1>11, <1>12, <1>13, <1>14, <1>15, <1>16, <1>17, <1>18, <1>19, <1>20, <1>21, <1>22, <1>23, <1>24, <1>25, <1>26, <1>27, <1>28, <1>29, <1>30, <1>31, <1>32, <1>33, <1>34, <1>35, <1>36 DEF Next

\* The variables keep their types, and whoever publishes holds a result.
THEOREM Types == Spec => []TypeInv
<1> QED BY InitTypes, NextTypes, PTL DEF Spec

\* The variables of coordinator, stores and database keep their types.
THEOREM TypesHold == Spec => []TypeOK
<1>1. TypeInv => TypeOK
    BY DEF TypeInv
<1> QED BY Types, <1>1, PTL

-----------------------------------------------------------------------------
(* The inductive invariant of HOT_DURABLE.                                 *)

\* Dispatches that have not tried to commit.
Before == {"start", "busy", "find", "op", "insert", "commit"}

\* The key is locked exactly by a transaction that waits for its COMMIT, also
\* one whose client is gone; its window began after the committed row expired,
\* so the row cannot come back to life before the commit.
TransactionInv ==
    \A d \in Dispatches :
        /\ keyLock = d <=> (pc[d] = "commit" \/ d \in limbo)
        /\ d \in limbo => pc[d] \in {"failing", "done"}
        /\ (pc[d] \in {"insert", "commit"} \/ d \in limbo) =>
              /\ RetentionSeconds <= draft[d]
              /\ draft[d] <= now + RetentionSeconds
        /\ (keyLock = d /\ record # None) =>
              record.exp <= draft[d] - RetentionSeconds
        /\ (pc[d] \in Before \/ d \in limbo) => \A e \in effects : e.by # d

\* The committed row is the last effect, and effects have disjoint windows.
RecordInv ==
    /\ record # None => record \in effects
    /\ \A e \in effects : record # None /\ e.exp <= record.exp
    /\ \A e1, e2 \in effects :
          e1 # e2 => \/ e1.exp <= e2.exp - RetentionSeconds
                     \/ e2.exp <= e1.exp - RetentionSeconds

\* A result in hand or in Redis is the committed row or has expired.
ResultInv ==
    /\ \A d \in Dispatches :
          got[d] # None => /\ got[d].fp = Fp[d]
                           /\ got[d] = record \/ got[d].exp <= now
    /\ hot.state = "completed" =>
          /\ hot.fp = hot.result.fp
          /\ hot.deadline <= hot.result.exp
          /\ hot.result = record \/ hot.result.exp <= now

DurableInv == TypeInv /\ TransactionInv /\ RecordInv /\ ResultInv

\* The invariant holds initially.
LEMMA InitDurable == Init => DurableInv
<1> SUFFICES ASSUME Init PROVE DurableInv
    OBVIOUS
<1> USE NoneAssumption DEF Init
<1>1. TransactionInv
    BY DEF TransactionInv
<1>2. RecordInv
    BY DEF RecordInv
<1>3. ResultInv
    BY DEF ResultInv, NoEntry
<1> QED BY <1>1, <1>2, <1>3, InitTypes DEF DurableInv

\* Every step of HOT_DURABLE preserves it.
LEMMA NextDurable ==
    ASSUME Mode = "HOT_DURABLE", DurableInv, [Next]_vars
    PROVE  DurableInv'
<1> USE NoneAssumption, FpAssumption, PeriodAssumption
<1> USE DEF TransactionInv, RecordInv, ResultInv, Before, stores, locks, beats
<1>0. TypeInv /\ TypeInv'
    BY NextTypes DEF DurableInv
<1> USE <1>0 DEF DurableInv, TypeInv, TypeOK, HoldsResult
<1>1. ASSUME NEW d \in Dispatches, Claim(d) PROVE DurableInv'
    <2> USE <1>1 DEF Claim, Goto
    <2>1. TransactionInv'
        OBVIOUS
    <2>2. RecordInv'
        OBVIOUS
    <2>3. ResultInv'
        <3>1. ClaimStatus(hot, Fp[d]) = "REPLAY" =>
                  hot.state = "completed" /\ hot.fp = Fp[d]
            BY DEF ClaimStatus, EntryType, NoEntry
        <3>2. hot'.state = "completed" => hot' = hot
            BY DEF Claimed
        <3> QED BY <3>1, <3>2
    <2> QED BY <2>1, <2>2, <2>3
<1>2. ASSUME NEW d \in Dispatches, ClaimUnavailable(d) PROVE DurableInv'
    <2> USE <1>2 DEF ClaimUnavailable, Goto, End
    <2>1. TransactionInv'
        OBVIOUS
    <2>2. RecordInv'
        OBVIOUS
    <2>3. ResultInv'
        OBVIOUS
    <2> QED BY <2>1, <2>2, <2>3
<1>3. ASSUME NEW d \in Dispatches, ResolveBusy(d) PROVE DurableInv'
    <2> USE <1>3 DEF ResolveBusy, Existing, Goto, End
    <2>1. TransactionInv'
        OBVIOUS
    <2>2. RecordInv'
        OBVIOUS
    <2>3. ResultInv'
        OBVIOUS
    <2> QED BY <2>1, <2>2, <2>3
<1>4. ASSUME NEW d \in Dispatches, FindExisting(d) PROVE DurableInv'
    <2> USE <1>4 DEF FindExisting, Lookup, Existing, Goto, Return
    <2>1. TransactionInv'
        OBVIOUS
    <2>2. RecordInv'
        OBVIOUS
    <2>3. ResultInv'
        OBVIOUS
    <2> QED BY <2>1, <2>2, <2>3
<1>5. ASSUME NEW d \in Dispatches, Operation(d) PROVE DurableInv'
    <2> USE <1>5 DEF Operation, Goto
    <2>1. TransactionInv'
        OBVIOUS
    <2>2. RecordInv'
        OBVIOUS
    <2>3. ResultInv'
        OBVIOUS
    <2> QED BY <2>1, <2>2, <2>3
<1>6. ASSUME NEW d \in Dispatches, Insert(d) PROVE DurableInv'
    <2> USE <1>6 DEF Insert, LiveAtInsert, Goto
    <2>1. TransactionInv'
        <3>1. record # None => record.exp <= draft[d] - RetentionSeconds
            BY DEF Result
        <3>2. d \notin limbo /\ \A x \in Dispatches : pc[x] # "commit" /\ x \notin limbo
            OBVIOUS
        <3> QED BY <3>1, <3>2
    <2>2. RecordInv'
        OBVIOUS
    <2>3. ResultInv'
        OBVIOUS
    <2> QED BY <2>1, <2>2, <2>3
<1>7. ASSUME NEW d \in Dispatches, InsertLoses(d) PROVE DurableInv'
    <2> USE <1>7 DEF InsertLoses, Goto, EndTransaction
    <2>1. TransactionInv'
        OBVIOUS
    <2>2. RecordInv'
        OBVIOUS
    <2>3. ResultInv'
        OBVIOUS
    <2> QED BY <2>1, <2>2, <2>3
<1>8. ASSUME NEW d \in Dispatches, Commit(d) PROVE DurableInv'
    <2> USE <1>8 DEF Commit, Commits, Draft, Return, Goto, EndTransaction, Result
    <2>1. TransactionInv'
        OBVIOUS
    <2>2. RecordInv'
        OBVIOUS
    <2>3. ResultInv'
        <3>1. record # None => record.exp <= now
            BY DEF Result
        <3>2. \A x \in Dispatches : got'[x] # None =>
                  got'[x].fp = Fp[x] /\ (got'[x] = record' \/ got'[x].exp <= now')
            BY <3>1
        <3>3. hot.state = "completed" => hot.result = record' \/ hot.result.exp <= now
            BY <3>1 DEF EntryType, NoEntry
        <3> QED BY <3>2, <3>3
    <2> QED BY <2>1, <2>2, <2>3
<1>9. ASSUME NEW d \in Dispatches, LosesRace(d) PROVE DurableInv'
    <2> USE <1>9 DEF LosesRace, Goto, EndTransaction
    <2>1. TransactionInv'
        OBVIOUS
    <2>2. RecordInv'
        OBVIOUS
    <2>3. ResultInv'
        OBVIOUS
    <2> QED BY <2>1, <2>2, <2>3
<1>10. ASSUME NEW d \in Dispatches, RaceLookup(d) PROVE DurableInv'
    <2> USE <1>10 DEF RaceLookup, Lookup, Existing, Goto, Return, Raise
    <2>1. TransactionInv'
        OBVIOUS
    <2>2. RecordInv'
        OBVIOUS
    <2>3. ResultInv'
        OBVIOUS
    <2> QED BY <2>1, <2>2, <2>3
<1>11. ASSUME NEW d \in Dispatches, OperationHotOnly(d) PROVE DurableInv'
    BY <1>11 DEF OperationHotOnly, HotOnlyCommits
<1>12. ASSUME NEW d \in Dispatches, HotOnlyCommitUnknown(d) PROVE DurableInv'
    BY <1>12 DEF HotOnlyCommitUnknown, HotOnlyCommits
<1>13. ASSUME NEW d \in Dispatches, OperationRaises(d) PROVE DurableInv'
    <2> USE <1>13 DEF OperationRaises, EndTransaction, Raise, Goto
    <2>1. TransactionInv'
        OBVIOUS
    <2>2. RecordInv'
        OBVIOUS
    <2>3. ResultInv'
        OBVIOUS
    <2> QED BY <2>1, <2>2, <2>3
<1>14. ASSUME NEW d \in Dispatches, DatabaseFails(d) PROVE DurableInv'
    <2> USE <1>14 DEF DatabaseFails, EndTransaction, Raise, Goto
    <2>1. TransactionInv'
        OBVIOUS
    <2>2. RecordInv'
        OBVIOUS
    <2>3. ResultInv'
        OBVIOUS
    <2> QED BY <2>1, <2>2, <2>3
<1>15. ASSUME NEW d \in Dispatches, CommitUnknown(d) PROVE DurableInv'
    <2> USE <1>15 DEF CommitUnknown, Raise, Goto
    <2>1. TransactionInv'
        OBVIOUS
    <2>2. RecordInv'
        OBVIOUS
    <2>3. ResultInv'
        OBVIOUS
    <2> QED BY <2>1, <2>2, <2>3
<1>16. ASSUME NEW d \in Dispatches, LimboCommits(d) PROVE DurableInv'
    <2> USE <1>16 DEF LimboCommits, Commits, Draft, EndTransaction, Result
    <2>1. TransactionInv'
        OBVIOUS
    <2>2. RecordInv'
        OBVIOUS
    <2>3. ResultInv'
        <3>1. record # None => record.exp <= now
            BY DEF Result
        <3>2. \A x \in Dispatches : got'[x] # None =>
                  got'[x].fp = Fp[x] /\ (got'[x] = record' \/ got'[x].exp <= now')
            BY <3>1
        <3>3. hot.state = "completed" => hot.result = record' \/ hot.result.exp <= now
            BY <3>1 DEF EntryType, NoEntry
        <3> QED BY <3>2, <3>3
    <2> QED BY <2>1, <2>2, <2>3
<1>17. ASSUME NEW d \in Dispatches, LimboRollsBack(d) PROVE DurableInv'
    <2> USE <1>17 DEF LimboRollsBack, EndTransaction
    <2>1. TransactionInv'
        OBVIOUS
    <2>2. RecordInv'
        OBVIOUS
    <2>3. ResultInv'
        OBVIOUS
    <2> QED BY <2>1, <2>2, <2>3
<1>18. ASSUME NEW d \in Dispatches, Fail(d) PROVE DurableInv'
    <2> USE <1>18 DEF Fail, SentRenewal, StopHeartbeat, End, Goto, Released, NoEntry
    <2>1. TransactionInv'
        OBVIOUS
    <2>2. RecordInv'
        OBVIOUS
    <2>3. ResultInv'
        OBVIOUS
    <2> QED BY <2>1, <2>2, <2>3
<1>19. ASSUME NEW d \in Dispatches, FailReleaseUnavailable(d) PROVE DurableInv'
    <2> USE <1>19 DEF FailReleaseUnavailable, SentRenewal, StopHeartbeat, End, Goto
    <2>1. TransactionInv'
        OBVIOUS
    <2>2. RecordInv'
        OBVIOUS
    <2>3. ResultInv'
        OBVIOUS
    <2> QED BY <2>1, <2>2, <2>3
<1>20. ASSUME NEW d \in Dispatches, Finish(d) PROVE DurableInv'
    <2> USE <1>20 DEF Finish, SentRenewal, StopHeartbeat, End, Goto
    <2>1. TransactionInv'
        OBVIOUS
    <2>2. RecordInv'
        OBVIOUS
    <2>3. ResultInv'
        OBVIOUS
    <2> QED BY <2>1, <2>2, <2>3
<1>21. ASSUME NEW d \in Dispatches, Complete(d) PROVE DurableInv'
    <2> USE <1>21 DEF Complete, End, Goto
    <2>1. TransactionInv'
        OBVIOUS
    <2>2. RecordInv'
        OBVIOUS
    <2>3. ResultInv'
        <3>1. got[d] \in Result /\ HotResultTtl \in Nat /\ hot \in Entries
            BY DEF HotResultTtl, Entries
        <3>2. (hot'.state = "completed" /\ hot' # hot) =>
                  /\ hot'.fp = got[d].fp
                  /\ hot'.result = got[d]
                  /\ hot'.deadline <= got[d].exp
            BY <3>1, CompletedEntry
        <3>3. got[d] # None
            BY <3>1 DEF Result
        <3> QED BY <3>2, <3>3
    <2> QED BY <2>1, <2>2, <2>3
<1>22. ASSUME NEW d \in Dispatches, CompleteUnavailable(d) PROVE DurableInv'
    <2> USE <1>22 DEF CompleteUnavailable, End, Goto
    <2>1. TransactionInv'
        OBVIOUS
    <2>2. RecordInv'
        OBVIOUS
    <2>3. ResultInv'
        OBVIOUS
    <2> QED BY <2>1, <2>2, <2>3
<1>23. ASSUME NEW d \in Dispatches, Release(d) PROVE DurableInv'
    <2> USE <1>23 DEF Release, End, Goto, Released, NoEntry
    <2>1. TransactionInv'
        OBVIOUS
    <2>2. RecordInv'
        OBVIOUS
    <2>3. ResultInv'
        OBVIOUS
    <2> QED BY <2>1, <2>2, <2>3
<1>24. ASSUME NEW d \in Dispatches, ReleaseUnavailable(d) PROVE DurableInv'
    <2> USE <1>24 DEF ReleaseUnavailable, End, Goto
    <2>1. TransactionInv'
        OBVIOUS
    <2>2. RecordInv'
        OBVIOUS
    <2>3. ResultInv'
        OBVIOUS
    <2> QED BY <2>1, <2>2, <2>3
<1>25. ASSUME NEW d \in Dispatches, Evaluate(d) PROVE DurableInv'
    <2> USE <1>25 DEF Evaluate, End, Goto
    <2>1. TransactionInv'
        OBVIOUS
    <2>2. RecordInv'
        OBVIOUS
    <2>3. ResultInv'
        OBVIOUS
    <2> QED BY <2>1, <2>2, <2>3
<1>26. ASSUME NEW d \in Dispatches, HeartbeatWakes(d) PROVE DurableInv'
    <2> USE <1>26 DEF HeartbeatWakes
    <2>1. TransactionInv'
        OBVIOUS
    <2>2. RecordInv'
        OBVIOUS
    <2>3. ResultInv'
        OBVIOUS
    <2> QED BY <2>1, <2>2, <2>3
<1>27. ASSUME NEW d \in Dispatches, Renew(d) PROVE DurableInv'
    <2> USE <1>27 DEF Renew, Renewed, Owns
    <2>1. TransactionInv'
        OBVIOUS
    <2>2. RecordInv'
        OBVIOUS
    <2>3. ResultInv'
        OBVIOUS
    <2> QED BY <2>1, <2>2, <2>3
<1>28. ASSUME NEW d \in Dispatches, RenewUnavailable(d) PROVE DurableInv'
    <2> USE <1>28 DEF RenewUnavailable
    <2>1. TransactionInv'
        OBVIOUS
    <2>2. RecordInv'
        OBVIOUS
    <2>3. ResultInv'
        OBVIOUS
    <2> QED BY <2>1, <2>2, <2>3
<1>29. ASSUME NEW d \in Dispatches, CancelDatabase(d) PROVE DurableInv'
    <2> USE <1>29 DEF CancelDatabase, EndTransaction, Raise, Goto
    <2>1. TransactionInv'
        OBVIOUS
    <2>2. RecordInv'
        OBVIOUS
    <2>3. ResultInv'
        OBVIOUS
    <2> QED BY <2>1, <2>2, <2>3
<1>30. ASSUME NEW d \in Dispatches, CancelRedis(d) PROVE DurableInv'
    <2> USE <1>30 DEF CancelRedis, InFlight, SentRenewal, StopHeartbeat, End, Goto
    <2>1. TransactionInv'
        OBVIOUS
    <2>2. RecordInv'
        OBVIOUS
    <2>3. ResultInv'
        OBVIOUS
    <2> QED BY <2>1, <2>2, <2>3
<1>31. ASSUME NEW d \in Dispatches, Crash(d) PROVE DurableInv'
    <2> USE <1>31 DEF Crash, InFlight, SentRenewal, StopHeartbeat, End, Goto, EndTransaction, HotOnlyCommits, HotOnlyResult, Result
    <2>1. TransactionInv'
        OBVIOUS
    <2>2. RecordInv'
        OBVIOUS
    <2>3. ResultInv'
        OBVIOUS
    <2> QED BY <2>1, <2>2, <2>3
<1>32. CASE Tick
    <2> USE <1>32 DEF Tick
    <2>1. TransactionInv'
        OBVIOUS
    <2>2. RecordInv'
        OBVIOUS
    <2>3. ResultInv'
        <3>1. hot'.state = "completed" => hot' = hot
            BY DEF Expire, NoEntry
        <3>2. hot.state = "completed" => hot.result \in Result
            BY DEF EntryType, NoEntry
        <3> QED BY <3>1, <3>2 DEF Result
    <2> QED BY <2>1, <2>2, <2>3
<1>33. CASE StrayArrives
    <2> USE <1>33 DEF StrayArrives
    <2>1. TransactionInv'
        OBVIOUS
    <2>2. RecordInv'
        OBVIOUS
    <2>3. ResultInv'
        <3>1. PICK s \in stray : hot' = Deliver(s[1], s[2])
            OBVIOUS
        <3>2. s[1] \in Command /\ s[2] \in Dispatches /\ hot \in Entries
            BY DEF Entries
        <3>3. CASE s[1] # "complete"
            <4>1. hot'.state = "completed" => hot' = hot
                <5>1. /\ now + LeaseSeconds \in Nat
                      /\ Fp[s[2]] \in Fingerprints
                    OBVIOUS
                <5>2. \/ hot' = Claimed(hot, Fp[s[2]], s[2], now + LeaseSeconds)
                      \/ hot' = Renewed(hot, s[2], now + LeaseSeconds)
                      \/ hot' = Released(hot, s[2])
                    BY <3>1, <3>2, <3>3 DEF Deliver, Command
                <5> QED BY <5>1, <5>2, <3>2, KeepsCompleted
            <4> QED BY <4>1
        <3>4. CASE s[1] = "complete"
            <4>1. got[s[2]] \in Result /\ HotResultTtl \in Nat
                BY <3>4 DEF HotResultTtl
            <4>2. hot' = Completed(hot, s[2], got[s[2]], HotResultTtl, now)
                BY <3>1, <3>4 DEF Deliver
            <4>3. (hot'.state = "completed" /\ hot' # hot) =>
                      /\ hot'.fp = got[s[2]].fp
                      /\ hot'.result = got[s[2]]
                      /\ hot'.deadline <= got[s[2]].exp
                BY <4>1, <4>2, <3>2, CompletedEntry
            <4>4. got[s[2]] # None
                BY <4>1 DEF Result
            <4> QED BY <3>2, <4>3, <4>4
        <3> QED BY <3>3, <3>4
    <2> QED BY <2>1, <2>2, <2>3
<1>34. CASE Evict
    <2> USE <1>34 DEF Evict, NoEntry
    <2>1. TransactionInv'
        OBVIOUS
    <2>2. RecordInv'
        OBVIOUS
    <2>3. ResultInv'
        OBVIOUS
    <2> QED BY <2>1, <2>2, <2>3
<1>35. CASE OtherWriter
    <2> USE <1>35 DEF OtherWriter
    <2>1. TransactionInv'
        OBVIOUS
    <2>2. RecordInv'
        OBVIOUS
    <2>3. ResultInv'
        OBVIOUS
    <2> QED BY <2>1, <2>2, <2>3
<1>36. CASE UNCHANGED vars
    <2> USE <1>36 DEF vars
    <2>1. TransactionInv'
        OBVIOUS
    <2>2. RecordInv'
        OBVIOUS
    <2>3. ResultInv'
        OBVIOUS
    <2> QED BY <2>1, <2>2, <2>3
<1> QED
    BY <1>1, <1>2, <1>3, <1>4, <1>5, <1>6, <1>7, <1>8, <1>9, <1>10, <1>11, <1>12, <1>13, <1>14, <1>15, <1>16, <1>17, <1>18, <1>19, <1>20, <1>21, <1>22, <1>23, <1>24, <1>25, <1>26, <1>27, <1>28, <1>29, <1>30, <1>31, <1>32, <1>33, <1>34, <1>35, <1>36 DEF Next

\* The inductive invariant holds throughout.
THEOREM DurableInvariant ==
    ASSUME Mode = "HOT_DURABLE"
    PROVE  Spec => []DurableInv
<1>1. DurableInv /\ [Next]_vars => DurableInv'
    BY NextDurable
<1> QED BY InitDurable, <1>1, PTL DEF Spec

\* The windows of committed effects are disjoint, for any number of dispatches,
\* any periods and every fault of the model.
THEOREM ExecutesOncePerRetention == Spec => []OncePerRetention
<1>1. CASE Mode = "HOT_DURABLE"
    <2>1. DurableInv => OncePerRetention
        BY DEF DurableInv, RecordInv, OncePerRetention
    <2> QED BY <1>1, <2>1, DurableInvariant, PTL
<1>2. CASE Mode # "HOT_DURABLE"
    <2>1. OncePerRetention
        BY <1>2 DEF OncePerRetention
    <2> QED BY <2>1, PTL
<1> QED BY <1>1, <1>2

\* What Redis replays before its deadline is the committed row.
THEOREM HotNeverDiverges == Spec => []HotMatchesRecord
<1>1. CASE Mode = "HOT_DURABLE"
    <2>1. DurableInv => HotMatchesRecord
        <3> SUFFICES ASSUME DurableInv, hot.state = "completed"
                     PROVE  /\ hot.fp = hot.result.fp
                            /\ hot.deadline <= hot.result.exp
                            /\ hot.result.exp > now => hot.result = record
            BY DEF HotMatchesRecord
        <3>1. hot.result \in Result
            BY DEF DurableInv, TypeInv, TypeOK, EntryType, NoEntry
        <3> QED BY <3>1 DEF DurableInv, TypeInv, TypeOK, ResultInv, Result
    <2> QED BY <1>1, <2>1, DurableInvariant, PTL
<1>2. CASE Mode # "HOT_DURABLE"
    <2>1. HotMatchesRecord
        BY <1>2 DEF HotMatchesRecord
    <2> QED BY <2>1, PTL
<1> QED BY <1>1, <1>2

\* Successful answers with an open window carry one and the same result.
THEOREM DurableAnswersAgree ==
    ASSUME Mode = "HOT_DURABLE"
    PROVE  Spec => []AnswersAgree
<1>1. DurableInv => AnswersAgree
    <2> SUFFICES ASSUME DurableInv,
                        NEW d1 \in Dispatches, NEW d2 \in Dispatches,
                        out[d1] = "ok", got[d1].exp > now,
                        out[d2] = "ok", got[d2].exp > now
                 PROVE  got[d1] = got[d2] /\ got[d1].fp = Fp[d1]
        BY DEF AnswersAgree
    <2>1. got[d1] \in Result /\ got[d2] \in Result
        BY DEF DurableInv, TypeInv, HoldsResult
    <2>2. got[d1] # None /\ got[d2] # None
        BY <2>1, NoneAssumption DEF Result
    <2> QED BY <2>1, <2>2 DEF DurableInv, TypeInv, TypeOK, ResultInv, Result
<1> QED BY <1>1, DurableInvariant, PTL

-----------------------------------------------------------------------------
\* The step runs a script that dispatch d sent, now or long ago; only a dispatch
\* with a result sends COMPLETE.
ScriptOf(d) ==
    \/ hot' = Claimed(hot, Fp[d], d, now + LeaseSeconds)
    \/ hot' = Renewed(hot, d, now + LeaseSeconds)
    \/ hot' = Released(hot, d)
    \/ /\ got[d] \in Result
       /\ hot' = Completed(hot, d, got[d], HotResultTtl, now)

\* Every step changes the Redis entry by one script of one dispatch, by the
\* expiry or the loss of the key, or not at all; only expiry goes with time.
LEMMA HotSteps ==
    ASSUME TypeInv, Next
    PROVE  \/ Tick
           \/ /\ now' = now
              /\ \/ hot' = hot \/ Evict
                 \/ \E d \in Dispatches : ScriptOf(d) /\ ActsFor(d)
<1> USE DEF stores, ScriptOf
<1>1. CASE Tick \/ Evict \/ OtherWriter
    BY <1>1 DEF Tick, Evict, OtherWriter
<1>2. CASE StrayArrives
    <2>1. PICK s \in stray : hot' = Deliver(s[1], s[2]) /\ stray' = stray \ {s}
        BY <1>2 DEF StrayArrives
    <2>2. s[1] \in Command /\ s[2] \in Dispatches
        BY DEF TypeInv, TypeOK
    <2>3. s[1] = "complete" => got[s[2]] \in Result
        BY DEF TypeInv, HoldsResult
    <2>4. ActsFor(s[2])
        BY <2>1 DEF ActsFor
    <2>5. ScriptOf(s[2])
        BY <2>1, <2>2, <2>3 DEF Deliver, Command
    <2> QED BY <1>2, <2>2, <2>4, <2>5 DEF StrayArrives
<1>3. ASSUME NEW d \in Dispatches,
             Claim(d) \/ Renew(d) \/ Fail(d) \/ Release(d) \/ Complete(d)
      PROVE  now' = now /\ (hot' = hot \/ (ScriptOf(d) /\ ActsFor(d)))
    <2>1. pc[d] = "complete" => got[d] \in Result
        BY DEF TypeInv, HoldsResult
    <2>2. now' = now /\ (hot' = hot \/ ScriptOf(d))
        BY <1>3, <2>1 DEF Claim, Renew, Fail, Release, Complete
    <2>3. CASE Renew(d)
        BY <2>2, <2>3 DEF Renew, ActsFor, TypeInv, TypeOK
    <2>4. CASE Claim(d)
        BY <2>2, <2>4, ModeAssumption DEF Claim, Goto, ActsFor, TypeInv, TypeOK
    <2>5. CASE Fail(d) \/ Release(d) \/ Complete(d)
        BY <2>2, <2>5 DEF Fail, Release, Complete, End, Goto, ActsFor, TypeInv, TypeOK
    <2> QED BY <1>3, <2>3, <2>4, <2>5
<1>4. ASSUME NEW d \in Dispatches,
             \/ ClaimUnavailable(d) \/ ResolveBusy(d) \/ FindExisting(d)
             \/ Operation(d) \/ Insert(d) \/ InsertLoses(d) \/ Commit(d)
             \/ LosesRace(d) \/ RaceLookup(d) \/ OperationHotOnly(d)
             \/ HotOnlyCommitUnknown(d) \/ OperationRaises(d)
             \/ DatabaseFails(d) \/ CommitUnknown(d) \/ LimboCommits(d)
             \/ LimboRollsBack(d) \/ FailReleaseUnavailable(d) \/ Finish(d)
             \/ CompleteUnavailable(d) \/ ReleaseUnavailable(d) \/ Evaluate(d)
             \/ HeartbeatWakes(d) \/ RenewUnavailable(d) \/ CancelDatabase(d)
             \/ CancelRedis(d) \/ Crash(d)
      PROVE  now' = now /\ hot' = hot
    BY <1>4 DEF ClaimUnavailable, ResolveBusy, FindExisting, Operation, Insert,
       InsertLoses, Commit, LosesRace, RaceLookup, OperationHotOnly,
       HotOnlyCommitUnknown, OperationRaises, DatabaseFails, CommitUnknown,
       LimboCommits, LimboRollsBack, FailReleaseUnavailable, Finish,
       CompleteUnavailable, ReleaseUnavailable, Evaluate, HeartbeatWakes,
       RenewUnavailable, CancelDatabase, CancelRedis, Crash
<1> QED BY <1>1, <1>2, <1>3, <1>4 DEF Next

\* A pending lease is extended, completed or ended by its owner alone, or runs
\* out or is evicted, in both modes and however late a script arrives; a
\* published result is never touched.
THEOREM LeasesStayWithOwners == Spec => LeaseStaysWithOwner
<1> DEFINE Owned ==
        /\ (hot.state = "processing" /\ hot' # hot) =>
              \/ DroppedByRedis
              \/ /\ ActsFor(hot.token)
                 /\ \/ hot' = NoEntry
                    \/ hot' = [hot EXCEPT !.deadline = now + LeaseSeconds]
                    \/ hot'.state = "completed" /\ hot'.result = got[hot.token]
        /\ (hot.state = "completed" /\ hot' # hot) => DroppedByRedis
<1>1. TypeInv /\ [Next]_vars => [Owned]_hot
    <2> SUFFICES ASSUME TypeInv, Next, hot' # hot PROVE Owned
        BY DEF vars, stores
    <2>1. hot \in Entries
        BY DEF TypeInv, TypeOK, Entries
    <2>2. CASE Tick \/ Evict
        BY <2>2 DEF Tick, Expire, Evict, DroppedByRedis, beats
    <2>3. ASSUME NEW d \in Dispatches, ScriptOf(d), ActsFor(d) PROVE Owned
        <3>1. CASE hot' = Claimed(hot, Fp[d], d, now + LeaseSeconds)
            BY <3>1 DEF Claimed
        <3>2. CASE hot' = Renewed(hot, d, now + LeaseSeconds)
            BY <2>3, <3>2 DEF Renewed, Owns
        <3>3. CASE hot' = Released(hot, d)
            BY <2>3, <3>3 DEF Released, Owns
        <3>4. CASE hot' = Completed(hot, d, got[d], HotResultTtl, now)
            BY <2>3, <3>4 DEF Completed, Owns
        <3> QED BY <2>3, <3>1, <3>2, <3>3, <3>4 DEF ScriptOf
    <2> QED BY <2>2, <2>3, HotSteps
<1> QED BY Types, <1>1, PTL DEF Spec, LeaseStaysWithOwner

-----------------------------------------------------------------------------
(* Version conflicts.                                                      *)

\* Whoever has updated the resource and not committed yet holds its row, in the
\* version it expected; once the version has moved on only requests that change
\* nothing still commit.  A dispatch remembers a mismatch only after that, and
\* takes it to its caller only when it found no result of its request.
MismatchInv ==
    /\ Mode = "HOT_ONLY" => record = None
    /\ \A d \in Dispatches :
          /\ (Updates(d) /\ (pc[d] \in {"insert", "commit"} \/ d \in limbo)) =>
                rowLock = d /\ version = ExpectedVersion
          /\ d \in limbo => pc[d] \in {"failing", "done"}
          /\ Mode = "HOT_ONLY" => pc[d] \notin {"insert", "commit"} /\ d \notin limbo
          /\ out[d] = "mismatch" =>
                /\ Guarded /\ version # ExpectedVersion
                /\ pc[d] \in {"race", "finish", "complete", "evaluate", "failing", "done"}
                /\ pc[d] = "finish" => got[d] # None
                /\ (pc[d] \in {"failing", "done"} /\ Updates(d)) =>
                      ~(Existing /\ record.fp = Fp[d])

\* Every step keeps it, in both modes.
LEMMA NextMismatch ==
    ASSUME TypeInv, MismatchInv, [Next]_vars
    PROVE  MismatchInv'
<1> USE NoneAssumption, FpAssumption, PeriodAssumption, ModeAssumption
<1>0. TypeInv'
    BY NextTypes
<1> USE <1>0 DEF MismatchInv, Existing, ExpectedVersion, TypeInv, TypeOK, HoldsResult,
                 Control, Outcome, stores, locks, beats
<1>1. ASSUME NEW d \in Dispatches, Claim(d) PROVE MismatchInv'
    BY <1>1 DEF Claim, Goto
<1>2. ASSUME NEW d \in Dispatches, ClaimUnavailable(d) PROVE MismatchInv'
    BY <1>2 DEF ClaimUnavailable, Goto, End
<1>3. ASSUME NEW d \in Dispatches, ResolveBusy(d) PROVE MismatchInv'
    BY <1>3 DEF ResolveBusy, Existing, Goto, End
<1>4. ASSUME NEW d \in Dispatches, FindExisting(d) PROVE MismatchInv'
    BY <1>4 DEF FindExisting, Lookup, Existing, Goto, Return
<1>5. ASSUME NEW d \in Dispatches, Operation(d) PROVE MismatchInv'
    BY <1>5 DEF Operation, Updates, Goto
<1>6. ASSUME NEW d \in Dispatches, Insert(d) PROVE MismatchInv'
    BY <1>6 DEF Insert, Goto
<1>7. ASSUME NEW d \in Dispatches, InsertLoses(d) PROVE MismatchInv'
    BY <1>7 DEF InsertLoses, Goto, EndTransaction
<1>8. ASSUME NEW d \in Dispatches, Commit(d) PROVE MismatchInv'
    <2> USE <1>8 DEF Commit, Commits, Draft, Return, Goto, EndTransaction
    <2>1. ASSUME NEW x \in Dispatches, Updates(d), Updates(x), x # d
          PROVE  pc[x] \notin {"insert", "commit"} /\ x \notin limbo
        BY <2>1
    <2>2. ASSUME NEW x \in Dispatches, Updates(d) PROVE out[x] # "mismatch"
        BY <2>2 DEF Updates
    <2>3. ASSUME NEW x \in Dispatches, ~Updates(d), Guarded, Fp[x] = Fp[d]
          PROVE  ~Updates(x)
        BY <2>3 DEF Updates
    <2> QED BY <2>1, <2>2, <2>3
<1>9. ASSUME NEW d \in Dispatches, LosesRace(d) PROVE MismatchInv'
    BY <1>9 DEF LosesRace, Goto, EndTransaction
<1>10. ASSUME NEW d \in Dispatches, RaceLookup(d) PROVE MismatchInv'
    BY <1>10 DEF RaceLookup, Lookup, Raise, Return, Goto
<1>11. ASSUME NEW d \in Dispatches, OperationHotOnly(d) PROVE MismatchInv'
    <2> USE <1>11 DEF OperationHotOnly, HotOnlyCommits, Return, Goto
    <2>1. ASSUME NEW x \in Dispatches, Updates(d), Updates(x), x # d
          PROVE  pc[x] \notin {"insert", "commit"} /\ x \notin limbo
        BY <2>1
    <2>2. ASSUME NEW x \in Dispatches, Updates(d) PROVE out[x] # "mismatch"
        BY <2>2 DEF Updates
    <2>3. ASSUME NEW x \in Dispatches, ~Updates(d), Guarded, Fp[x] = Fp[d]
          PROVE  ~Updates(x)
        BY <2>3 DEF Updates
    <2> QED BY <2>1, <2>2, <2>3
<1>12. ASSUME NEW d \in Dispatches, HotOnlyCommitUnknown(d) PROVE MismatchInv'
    <2> USE <1>12 DEF HotOnlyCommitUnknown, HotOnlyCommits, Raise, Goto
    <2>1. ASSUME NEW x \in Dispatches, Updates(d), Updates(x), x # d
          PROVE  pc[x] \notin {"insert", "commit"} /\ x \notin limbo
        BY <2>1
    <2>2. ASSUME NEW x \in Dispatches, Updates(d) PROVE out[x] # "mismatch"
        BY <2>2 DEF Updates
    <2>3. ASSUME NEW x \in Dispatches, ~Updates(d), Guarded, Fp[x] = Fp[d]
          PROVE  ~Updates(x)
        BY <2>3 DEF Updates
    <2> QED BY <2>1, <2>2, <2>3
<1>13. ASSUME NEW d \in Dispatches, OperationRaises(d) PROVE MismatchInv'
    BY <1>13 DEF OperationRaises, EndTransaction, Raise, Goto
<1>14. ASSUME NEW d \in Dispatches, DatabaseFails(d) PROVE MismatchInv'
    BY <1>14 DEF DatabaseFails, EndTransaction, Raise, Goto
<1>15. ASSUME NEW d \in Dispatches, CommitUnknown(d) PROVE MismatchInv'
    BY <1>15 DEF CommitUnknown, Raise, Goto
<1>16. ASSUME NEW d \in Dispatches, LimboCommits(d) PROVE MismatchInv'
    <2> USE <1>16 DEF LimboCommits, Commits, Draft, EndTransaction
    <2>1. ASSUME NEW x \in Dispatches, Updates(d), Updates(x), x # d
          PROVE  pc[x] \notin {"insert", "commit"} /\ x \notin limbo
        BY <2>1
    <2>2. ASSUME NEW x \in Dispatches, Updates(d) PROVE out[x] # "mismatch"
        BY <2>2 DEF Updates
    <2>3. ASSUME NEW x \in Dispatches, ~Updates(d), Guarded, Fp[x] = Fp[d]
          PROVE  ~Updates(x)
        BY <2>3 DEF Updates
    <2> QED BY <2>1, <2>2, <2>3
<1>17. ASSUME NEW d \in Dispatches, LimboRollsBack(d) PROVE MismatchInv'
    BY <1>17 DEF LimboRollsBack, EndTransaction
<1>18. ASSUME NEW d \in Dispatches, Fail(d) PROVE MismatchInv'
    BY <1>18 DEF Fail, End, Goto
<1>19. ASSUME NEW d \in Dispatches, FailReleaseUnavailable(d) PROVE MismatchInv'
    BY <1>19 DEF FailReleaseUnavailable, End, Goto
<1>20. ASSUME NEW d \in Dispatches, Finish(d) PROVE MismatchInv'
    BY <1>20 DEF Finish, End, Goto
<1>21. ASSUME NEW d \in Dispatches, Complete(d) PROVE MismatchInv'
    BY <1>21 DEF Complete, End, Goto
<1>22. ASSUME NEW d \in Dispatches, CompleteUnavailable(d) PROVE MismatchInv'
    BY <1>22 DEF CompleteUnavailable, End, Goto
<1>23. ASSUME NEW d \in Dispatches, Release(d) PROVE MismatchInv'
    BY <1>23 DEF Release, End, Goto
<1>24. ASSUME NEW d \in Dispatches, ReleaseUnavailable(d) PROVE MismatchInv'
    BY <1>24 DEF ReleaseUnavailable, End, Goto
<1>25. ASSUME NEW d \in Dispatches, Evaluate(d) PROVE MismatchInv'
    BY <1>25 DEF Evaluate, End, Goto
<1>26. ASSUME NEW d \in Dispatches, CancelDatabase(d) PROVE MismatchInv'
    BY <1>26 DEF CancelDatabase, EndTransaction, Raise, Goto
<1>27. ASSUME NEW d \in Dispatches, CancelRedis(d) PROVE MismatchInv'
    BY <1>27 DEF CancelRedis, End, Goto
<1>28. ASSUME NEW d \in Dispatches, Crash(d) PROVE MismatchInv'
    BY <1>28 DEF Crash, EndTransaction, HotOnlyCommits, End, Goto
<1>29. CASE UNCHANGED <<now, record, version, locks, pc, out, got>>
    BY <1>29
<1>30. CASE Tick
    BY <1>30 DEF Tick, Result
<1>31. CASE OtherWriter
    BY <1>31 DEF OtherWriter
<1>32. ASSUME NEW d \in Dispatches, HeartbeatWakes(d) \/ Renew(d) \/ RenewUnavailable(d)
      PROVE  MismatchInv'
    BY <1>29, <1>32 DEF HeartbeatWakes, Renew, RenewUnavailable
<1>33. CASE StrayArrives \/ Evict \/ UNCHANGED vars
    BY <1>29, <1>33 DEF StrayArrives, Evict, vars
<1> HIDE DEF MismatchInv
<1> QED
    BY <1>1, <1>2, <1>3, <1>4, <1>5, <1>6, <1>7, <1>8, <1>9, <1>10, <1>11, <1>12, <1>13, <1>14, <1>15, <1>16, <1>17, <1>18, <1>19, <1>20, <1>21, <1>22, <1>23, <1>24, <1>25, <1>26, <1>27, <1>28, <1>29, <1>30, <1>31, <1>32, <1>33 DEF Next

\* A request that changes its row is told "version mismatch" only while no
\* result of its own can be replayed, in both modes, whoever moved the version on.
THEOREM MismatchesAreReal == Spec => []NoFalseMismatch
<1>1. Init => MismatchInv
    BY DEF Init, MismatchInv
<1>2. TypeInv /\ MismatchInv /\ [Next]_vars => MismatchInv'
    BY NextMismatch
<1>3. MismatchInv => NoFalseMismatch
    BY DEF MismatchInv, NoFalseMismatch, Updates
<1> QED BY <1>1, <1>2, <1>3, Types, PTL DEF Spec

-----------------------------------------------------------------------------
(* The inductive invariant of HOT_ONLY without evictions.                  *)

\* A result in Redis is kept until it expires.
StoredInv ==
    hot.state = "completed" =>
        /\ hot.fp = hot.result.fp
        /\ hot.result.exp <= now + RetentionSeconds
        /\ hot.result.exp <= hot.deadline

\* Only the holder of a lease executes, and a result that is about to be
\* answered, or has been, is the one in Redis.
AnswerInv ==
    \A d \in Dispatches :
        /\ pc[d] \notin {"busy", "find", "insert", "commit", "race"}
        /\ pc[d] = "op" => leased[d]
        /\ got[d] # None => got[d].fp = Fp[d] /\ got[d].exp <= now + RetentionSeconds
        /\ ((pc[d] = "evaluate" \/ out[d] = "ok") /\ got[d].exp > now) =>
              hot.state = "completed" /\ hot.result = got[d]

HotOnlyInv == TypeInv /\ StoredInv /\ AnswerInv

\* A result in Redis stays there, without evictions, until it expires: no script
\* replaces it.
LEMMA StoredStays ==
    ASSUME Mode = "HOT_ONLY", "evict" \notin Faults, HotOnlyInv, [Next]_vars,
           hot.state = "completed", hot.result.exp > now'
    PROVE  hot' = hot
<1>1. hot \in Entries /\ now \in Nat
    BY DEF HotOnlyInv, TypeInv, TypeOK, Entries
<1>2. CASE Tick
    <2>1. hot.result.exp \in Nat /\ hot.deadline \in Nat
        BY <1>1 DEF Entries, EntryType, NoEntry, Result
    <2> QED BY <1>1, <1>2, <2>1 DEF Tick, Expire, HotOnlyInv, StoredInv
<1>3. ASSUME NEW d \in Dispatches, ScriptOf(d) PROVE hot' = hot
    BY <1>3 DEF ScriptOf, Claimed, Renewed, Released, Completed, Owns
<1>4. ~Evict
    BY DEF Evict
<1>5. CASE UNCHANGED vars
    BY <1>5 DEF vars, stores
<1> QED BY <1>2, <1>3, <1>4, <1>5, HotSteps DEF HotOnlyInv

\* What Redis holds after a step is a result with the deadline it came with.
LEMMA NextStored ==
    ASSUME Mode = "HOT_ONLY", HotOnlyInv, [Next]_vars
    PROVE  StoredInv'
<1> USE PeriodAssumption
<1> SUFFICES ASSUME hot'.state = "completed"
             PROVE  /\ hot'.fp = hot'.result.fp
                    /\ hot'.result.exp <= now' + RetentionSeconds
                    /\ hot'.result.exp <= hot'.deadline
    BY DEF StoredInv
<1>1. hot \in Entries /\ now \in Nat
    BY DEF HotOnlyInv, TypeInv, TypeOK, Entries
<1>2. hot.state = "completed" => hot.result.exp \in Nat
    BY <1>1 DEF Entries, EntryType, NoEntry, Result
<1>3. CASE hot' = hot /\ now' \in {now, now + 1}
    BY <1>1, <1>2, <1>3 DEF HotOnlyInv, StoredInv
<1>4. CASE Tick
    BY <1>1, <1>2, <1>3, <1>4 DEF Tick, Expire, NoEntry
<1>5. ASSUME NEW d \in Dispatches, ScriptOf(d), now' = now, hot' # hot
      PROVE  /\ hot'.fp = hot'.result.fp
             /\ hot'.result.exp <= now' + RetentionSeconds
             /\ hot'.result.exp <= hot'.deadline
    <2>1. now + LeaseSeconds \in Nat /\ Fp[d] \in Fingerprints
        BY <1>1, FpAssumption
    <2>2. got[d] \in Result /\ hot' = Completed(hot, d, got[d], HotResultTtl, now)
        BY <1>1, <1>5, <2>1, KeepsCompleted DEF ScriptOf
    <2>3. got[d] # None /\ got[d].exp \in Nat
        BY <2>2, NoneAssumption DEF Result
    <2>4. got[d].exp <= now + RetentionSeconds
        BY <2>3 DEF HotOnlyInv, AnswerInv
    <2> QED BY <1>1, <1>5, <2>2, <2>3, <2>4 DEF Completed, NoEntry, HotResultTtl
<1>6. ~Evict
    BY DEF Evict, NoEntry
<1>7. CASE UNCHANGED vars
    BY <1>3, <1>7 DEF vars, stores
<1> QED BY <1>3, <1>4, <1>5, <1>6, <1>7, HotSteps DEF HotOnlyInv

\* Every step keeps the promise of HOT_ONLY.
LEMMA NextAnswer ==
    ASSUME Mode = "HOT_ONLY", "evict" \notin Faults, HotOnlyInv, [Next]_vars
    PROVE  AnswerInv'
<1> USE NoneAssumption, FpAssumption, PeriodAssumption
<1>a. TypeInv'
    BY NextTypes DEF HotOnlyInv
<1>b. (hot.state = "completed" /\ hot.result.exp > now') => hot' = hot
    BY StoredStays
<1> USE <1>a, <1>b DEF HotOnlyInv, StoredInv, AnswerInv, TypeInv, TypeOK, HoldsResult, Result,
                 Control, Outcome, stores, locks, beats
<1>1. ASSUME NEW d \in Dispatches, Claim(d) PROVE AnswerInv'
    <2> USE <1>1 DEF Claim, Goto
    <2>1. CASE ClaimStatus(hot, Fp[d]) = "ACQUIRED"
        BY <2>1
    <2>2. CASE ClaimStatus(hot, Fp[d]) = "REPLAY"
        <3>1. /\ hot.state = "completed" /\ hot.fp = Fp[d]
              /\ hot' = hot /\ hot.result.exp <= now + RetentionSeconds
            BY <2>2 DEF ClaimStatus, Claimed, EntryType, NoEntry
        <3> QED BY <2>2, <3>1
    <2>3. CASE ClaimStatus(hot, Fp[d]) \in {"CONFLICT", "IN_PROGRESS"}
        BY <2>3
    <2> QED BY <2>1, <2>2, <2>3
<1>2. ASSUME NEW d \in Dispatches, ClaimUnavailable(d) PROVE AnswerInv'
    BY <1>2 DEF ClaimUnavailable, Goto, End
<1>3. ASSUME NEW d \in Dispatches, OperationHotOnly(d) PROVE AnswerInv'
    BY <1>3 DEF OperationHotOnly, HotOnlyCommits, HotOnlyResult, Return, Goto
<1>4. ASSUME NEW d \in Dispatches, HotOnlyCommitUnknown(d) PROVE AnswerInv'
    BY <1>4 DEF HotOnlyCommitUnknown, HotOnlyCommits, Raise, Goto
<1>5. ASSUME NEW d \in Dispatches, OperationRaises(d) PROVE AnswerInv'
    BY <1>5 DEF OperationRaises, Raise, Goto
<1>6. ASSUME NEW d \in Dispatches, DatabaseFails(d) PROVE AnswerInv'
    BY <1>6 DEF DatabaseFails, Raise, Goto
<1>7. ASSUME NEW d \in Dispatches, Fail(d) PROVE AnswerInv'
    BY <1>7 DEF Fail, End, Goto
<1>8. ASSUME NEW d \in Dispatches, FailReleaseUnavailable(d) PROVE AnswerInv'
    BY <1>8 DEF FailReleaseUnavailable, End, Goto
<1>9. ASSUME NEW d \in Dispatches, Finish(d) PROVE AnswerInv'
    BY <1>9 DEF Finish, End, Goto
<1>10. ASSUME NEW d \in Dispatches, Complete(d) PROVE AnswerInv'
    BY <1>10 DEF Complete, Completed, Publishes, End, Goto
<1>11. ASSUME NEW d \in Dispatches, CompleteUnavailable(d) PROVE AnswerInv'
    BY <1>11 DEF CompleteUnavailable, End, Goto
<1>12. ASSUME NEW d \in Dispatches, Release(d) PROVE AnswerInv'
    BY <1>12 DEF Release, End, Goto
<1>13. ASSUME NEW d \in Dispatches, ReleaseUnavailable(d) PROVE AnswerInv'
    BY <1>13 DEF ReleaseUnavailable, End, Goto
<1>14. ASSUME NEW d \in Dispatches, Evaluate(d) PROVE AnswerInv'
    BY <1>14 DEF Evaluate, End, Goto
<1>15. ASSUME NEW d \in Dispatches, CancelDatabase(d) PROVE AnswerInv'
    BY <1>15 DEF CancelDatabase, Raise, Goto
<1>16. ASSUME NEW d \in Dispatches, CancelRedis(d) PROVE AnswerInv'
    BY <1>16 DEF CancelRedis, End, Goto
<1>17. ASSUME NEW d \in Dispatches, Crash(d) PROVE AnswerInv'
    BY <1>17 DEF Crash, End, Goto
<1>18. ASSUME NEW d \in Dispatches,
             \/ ResolveBusy(d) \/ FindExisting(d) \/ Operation(d) \/ Insert(d)
             \/ InsertLoses(d) \/ Commit(d) \/ LosesRace(d) \/ RaceLookup(d)
             \/ CommitUnknown(d)
       PROVE AnswerInv'
    BY <1>18 DEF ResolveBusy, FindExisting, Operation, Insert, InsertLoses, Commit,
        LosesRace, RaceLookup, CommitUnknown
<1>19. CASE UNCHANGED <<now, pc, out, got, leased>>
    BY <1>19
<1>20. CASE Tick
    BY <1>20 DEF Tick
<1>21. ASSUME NEW d \in Dispatches,
             \/ LimboCommits(d) \/ LimboRollsBack(d)
             \/ HeartbeatWakes(d) \/ Renew(d) \/ RenewUnavailable(d)
      PROVE  AnswerInv'
    BY <1>19, <1>21 DEF LimboCommits, LimboRollsBack, HeartbeatWakes, Renew, RenewUnavailable
<1>22. CASE StrayArrives \/ Evict \/ OtherWriter \/ UNCHANGED vars
    BY <1>19, <1>22 DEF StrayArrives, Evict, OtherWriter, vars
<1> HIDE DEF AnswerInv
<1> QED
    BY <1>1, <1>2, <1>3, <1>4, <1>5, <1>6, <1>7, <1>8, <1>9, <1>10, <1>11, <1>12, <1>13, <1>14, <1>15, <1>16, <1>17, <1>18, <1>19, <1>20, <1>21, <1>22 DEF Next

\* The invariant of HOT_ONLY holds throughout when Redis loses no key.
THEOREM HotOnlyInvariant ==
    ASSUME Mode = "HOT_ONLY", "evict" \notin Faults
    PROVE  Spec => []HotOnlyInv
<1>1. Init => HotOnlyInv
    <2>1. Init => StoredInv /\ AnswerInv
        BY DEF Init, StoredInv, AnswerInv, NoEntry
    <2> QED BY <2>1, InitTypes DEF HotOnlyInv
<1>2. HotOnlyInv /\ [Next]_vars => HotOnlyInv'
    BY NextTypes, NextStored, NextAnswer DEF HotOnlyInv
<1> QED BY <1>1, <1>2, PTL DEF Spec

\* A HOT_ONLY success is reported only once Redis holds its result, and Redis
\* holds it as long as it can be replayed.
THEOREM HotOnlySuccessesAreStored == Spec => []HotOnlySuccessStored
<1>1. CASE Mode = "HOT_ONLY" /\ "evict" \notin Faults
    <2>1. HotOnlyInv => HotOnlySuccessStored
        BY DEF HotOnlyInv, AnswerInv, HotOnlySuccessStored
    <2> QED BY <1>1, <2>1, HotOnlyInvariant, PTL
<1>2. CASE ~(Mode = "HOT_ONLY" /\ "evict" \notin Faults)
    <2>1. HotOnlySuccessStored
        BY <1>2 DEF HotOnlySuccessStored
    <2> QED BY <2>1, PTL
<1> QED BY <1>1, <1>2

\* Without evictions HOT_ONLY answers agree as well: whatever leases expired and
\* executions were repeated, callers that were told of success hold one result.
THEOREM HotOnlyAnswersAgree ==
    ASSUME Mode = "HOT_ONLY", "evict" \notin Faults
    PROVE  Spec => []AnswersAgree
<1>1. HotOnlyInv => AnswersAgree
    BY NoneAssumption DEF HotOnlyInv, AnswerInv, TypeInv, HoldsResult, Result, AnswersAgree
<1> QED BY <1>1, HotOnlyInvariant, PTL

-----------------------------------------------------------------------------
(* HOT_DURABLE implements OnceMemory.                                      *)

\* The mapped variables.
Executed == {e.by : e \in effects}
Answers == [d \in Dispatches |-> AnswerOf(d)]

\* A step inside dispatch d: nothing becomes visible but possibly its end,
\* without a result.
Internal(d) ==
    /\ UNCHANGED <<now, record, effects>>
    /\ pc[d] # "done"
    /\ pc'[d] = "done" => out'[d] # "ok"
    /\ \A x \in Dispatches \ {d} :
          pc'[x] = pc[x] /\ out'[x] = out[x] /\ got'[x] = got[x]

\* Such a step is a refusal or invisible.
LEMMA InternalRefines ==
    ASSUME NEW d \in Dispatches, Internal(d)
    PROVE  Once!Next \/ UNCHANGED Once!vars
<1> USE DEF Internal
<1>1. CASE pc'[d] # "done"
    <2>1. Answers' = Answers
        BY <1>1 DEF Answers, AnswerOf
    <2> QED BY <2>1 DEF Once!vars, Answers
<1>2. CASE pc'[d] = "done"
    <2>1. Answers' = [Answers EXCEPT ![d] = <<None>>]
        BY <1>2 DEF Answers, AnswerOf
    <2>2. Answers[d] = <<>>
        BY DEF Answers, AnswerOf
    <2>3. Once!Refuse(d)
        BY <2>1, <2>2 DEF Once!Refuse, Answers
    <2> QED BY <2>3 DEF Once!Next
<1> QED BY <1>1, <1>2

\* A commit is an execution when no remembered result is alive.
LEMMA CommitRefines ==
    ASSUME DurableInv, NEW d \in Dispatches, keyLock = d, Commits(d), now' = now,
           pc[d] = "commit" \/ d \in limbo,
           Answers' = Answers
    PROVE  Once!Next
<1> USE NoneAssumption, FpAssumption, PeriodAssumption
<1> USE DEF DurableInv, TypeInv, TypeOK
<1>1. d \notin Executed
    BY DEF TransactionInv, Before, Executed
<1>2. Executed' = Executed \cup {d}
    BY DEF Commits, Draft, Executed
<1> DEFINE start == draft[d] - RetentionSeconds
<1>3. start \in 0..now
    BY DEF TransactionInv
<1>4. record # None => record.exp <= start
    BY DEF TransactionInv
<1>5. record' = [fp |-> Fp[d], by |-> d, exp |-> start + RetentionSeconds]
    BY DEF Commits, Draft
<1> HIDE DEF start
<1>6. Once!Execute(d)
    BY <1>1, <1>2, <1>3, <1>4, <1>5 DEF Once!Execute, Executed
<1> QED BY <1>6 DEF Once!Next, Answers

\* The steps of a dispatch that only move it.
LEMMA InternalSteps ==
    ASSUME TypeInv, NEW d \in Dispatches,
           \/ Claim(d) \/ ClaimUnavailable(d) \/ ResolveBusy(d)
           \/ FindExisting(d) \/ Operation(d) \/ Insert(d) \/ InsertLoses(d)
           \/ LosesRace(d) \/ RaceLookup(d) \/ OperationRaises(d)
           \/ DatabaseFails(d) \/ CommitUnknown(d) \/ Fail(d)
           \/ FailReleaseUnavailable(d) \/ Finish(d) \/ Complete(d)
           \/ CompleteUnavailable(d) \/ Release(d) \/ ReleaseUnavailable(d)
           \/ CancelDatabase(d) \/ CancelRedis(d)
           \/ Crash(d) /\ ~HotOnlyCommits(d)
    PROVE  Internal(d)
<1> USE DEF TypeInv, TypeOK, HoldsResult, Internal, Goto, End, Raise, Return,
            Lookup, stores
<1>1. CASE Claim(d) \/ ClaimUnavailable(d) \/ ResolveBusy(d)
    BY <1>1 DEF Claim, ClaimUnavailable, ResolveBusy
<1>2. CASE FindExisting(d) \/ RaceLookup(d)
    BY <1>2 DEF FindExisting, RaceLookup
<1>3. CASE Operation(d) \/ Insert(d) \/ InsertLoses(d) \/ LosesRace(d)
    BY <1>3 DEF Operation, Insert, InsertLoses, LosesRace
<1>4. CASE OperationRaises(d) \/ DatabaseFails(d) \/ CommitUnknown(d)
    BY <1>4 DEF OperationRaises, DatabaseFails, CommitUnknown
<1>5. CASE Fail(d) \/ FailReleaseUnavailable(d) \/ Finish(d)
    BY <1>5 DEF Fail, FailReleaseUnavailable, Finish
<1>6. CASE \/ Complete(d) \/ CompleteUnavailable(d) \/ Release(d)
           \/ ReleaseUnavailable(d)
    BY <1>6 DEF Complete, CompleteUnavailable, Release, ReleaseUnavailable
<1>7. CASE CancelDatabase(d) \/ CancelRedis(d)
    BY <1>7 DEF CancelDatabase, CancelRedis
<1>8. CASE Crash(d) /\ ~HotOnlyCommits(d)
    BY <1>8 DEF Crash
<1> QED BY <1>1, <1>2, <1>3, <1>4, <1>5, <1>6, <1>7, <1>8

\* An answer is the live result of the dispatch's own fingerprint.
LEMMA EvaluateRefines ==
    ASSUME DurableInv, NEW d \in Dispatches, Evaluate(d)
    PROVE  Once!Next
<1> USE NoneAssumption
<1> USE DEF DurableInv, TypeInv, TypeOK, Evaluate, End, Goto, stores
<1>1. Answers[d] = <<>>
    BY DEF Answers, AnswerOf
<1>2. CASE got[d].exp <= now
    <2>1. Answers' = [Answers EXCEPT ![d] = <<None>>]
        BY <1>2 DEF Answers, AnswerOf
    <2>2. Once!Refuse(d)
        BY <1>1, <2>1 DEF Once!Refuse, Answers
    <2> QED BY <2>2 DEF Once!Next
<1>3. CASE ~(got[d].exp <= now)
    <2>1. got[d] \in Result
        BY DEF HoldsResult
    <2>2. got[d] # None /\ got[d].exp > now
        BY <1>3, <2>1 DEF Result
    <2>3. got[d] = record /\ record.fp = Fp[d]
        BY <1>3, <2>2 DEF ResultInv
    <2>4. Answers' = [Answers EXCEPT ![d] = <<record>>]
        BY <1>3, <2>3 DEF Answers, AnswerOf
    <2>5. Once!Answer(d)
        BY <1>1, <2>2, <2>3, <2>4 DEF Once!Answer, Answers
    <2> QED BY <2>5 DEF Once!Next
<1> QED BY <1>2, <1>3

\* Every step of HOT_DURABLE is a step of the abstract memory or invisible.
LEMMA StepRefines ==
    ASSUME Mode = "HOT_DURABLE", DurableInv, [Next]_vars
    PROVE  Once!Next \/ UNCHANGED Once!vars
<1>1. CASE Tick
    BY <1>1 DEF Tick, Once!Next, AnswerOf
<1>2. CASE StrayArrives \/ Evict \/ OtherWriter \/ UNCHANGED vars
    BY <1>2 DEF StrayArrives, Evict, OtherWriter, vars, stores, Once!vars, AnswerOf
<1>3. ASSUME NEW d \in Dispatches,
             \/ HeartbeatWakes(d) \/ Renew(d) \/ RenewUnavailable(d)
             \/ LimboRollsBack(d)
      PROVE  UNCHANGED Once!vars
    BY <1>3 DEF HeartbeatWakes, Renew, RenewUnavailable, LimboRollsBack, stores,
                Once!vars, AnswerOf
<1>4. ASSUME NEW d \in Dispatches, Commit(d) PROVE Once!Next
    <2>1. Answers' = Answers
        BY <1>4 DEF Commit, Return, Goto, Answers, AnswerOf, DurableInv, TypeInv,
                    TypeOK
    <2>2. keyLock = d
        BY <1>4 DEF Commit, DurableInv, TransactionInv
    <2> QED BY <1>4, <2>1, <2>2, CommitRefines DEF Commit
<1>5. ASSUME NEW d \in Dispatches, LimboCommits(d) PROVE Once!Next
    <2>1. Answers' = Answers
        BY <1>5 DEF LimboCommits, Answers, AnswerOf
    <2>2. keyLock = d
        BY <1>5 DEF LimboCommits, DurableInv, TransactionInv
    <2> QED BY <1>5, <2>1, <2>2, CommitRefines DEF LimboCommits
<1>6. \A d \in Dispatches : ~HotOnlyCommits(d)
    BY DEF HotOnlyCommits
<1>7. ASSUME NEW d \in Dispatches PROVE ~OperationHotOnly(d) /\ ~HotOnlyCommitUnknown(d)
    BY <1>6 DEF OperationHotOnly, HotOnlyCommitUnknown
<1> QED
    BY <1>1, <1>2, <1>3, <1>4, <1>5, <1>6, <1>7, EvaluateRefines, InternalSteps,
       InternalRefines
    DEF Next, DurableInv

\* The idempotency layer in HOT_DURABLE implements the once-per-window memory.
THEOREM DurableImplementsOnceMemory ==
    ASSUME Mode = "HOT_DURABLE"
    PROVE  Spec => ImplementsOnceMemory
<1>1. Init => Once!Init
    BY DEF Init, Once!Init, AnswerOf
<1>2. DurableInv /\ [Next]_vars => [Once!Next]_(Once!vars)
    BY StepRefines
<1> QED BY <1>1, <1>2, DurableInvariant, PTL
        DEF Spec, ImplementsOnceMemory, Once!Spec
=============================================================================
