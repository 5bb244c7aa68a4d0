------------------------ MODULE CircuitBreakerProofs ------------------------
(***************************************************************************)
(* The breaker's safety properties for any number of callers, any          *)
(* threshold and timeout, and any number of failures.                      *)
(***************************************************************************)
EXTENDS CircuitBreaker, TLAPS

\* What ties a running call to the breaker: a generation is never ahead of the
\* breaker's, a probe token is the caller's own, a call admitted in the current
\* generation of a breaker that is not closed is its probe, and the holder of
\* the probe was admitted in the current generation.
CallsMatchBreaker ==
    \A c \in Callers :
        pc[c] = "running" =>
            /\ callGeneration[c] <= generation
            /\ callToken[c] \in {c, None}
            /\ (state # "CLOSED" /\ callGeneration[c] = generation)
                   => probeToken = c
            /\ (state = "CLOSED" /\ callGeneration[c] = generation)
                   => callToken[c] = None
            /\ probeToken = c => callGeneration[c] = generation

\* The inductive invariant.
BreakerInv ==
    /\ TypeOK
    /\ CountMatchesState
    /\ ProbeOwned
    /\ CallsMatchBreaker

-----------------------------------------------------------------------------
\* The initial breaker, closed and unused, satisfies the invariant.
LEMMA InitInv == Init => BreakerInv
<1> SUFFICES ASSUME Init PROVE BreakerInv
    OBVIOUS
<1> USE CallersAssumption, FailMaxAssumption, RecoveryAssumption DEF Init
<1>0. probeInProgress \in BOOLEAN
    BY Zenon
<1>1. TypeOK
    BY <1>0 DEF TypeOK, CircuitState
<1>2. CountMatchesState /\ ProbeOwned /\ CallsMatchBreaker
    BY DEF CountMatchesState, ProbeOwned, CallsMatchBreaker
<1> QED BY <1>1, <1>2 DEF BreakerInv

\* Every admission, outcome and clock step preserves the invariant.
LEMMA NextInv == BreakerInv /\ [Next]_vars => BreakerInv'
<1> SUFFICES ASSUME BreakerInv, [Next]_vars PROVE BreakerInv'
    OBVIOUS
<1> USE CallersAssumption, FailMaxAssumption, RecoveryAssumption
<1> USE DEF BreakerInv, CircuitState
<1>1. CASE Tick
    <2> USE <1>1 DEF Tick, calls
    <2>1. TypeOK'
        BY DEF TypeOK
    <2>2. CountMatchesState'
        BY DEF CountMatchesState, TypeOK
    <2>3. ProbeOwned'
        BY DEF ProbeOwned
    <2>4. CallsMatchBreaker'
        BY DEF CallsMatchBreaker
    <2> QED BY <2>1, <2>2, <2>3, <2>4
<1>2. ASSUME NEW c \in Callers, Reject(c) PROVE BreakerInv'
    <2> USE <1>2 DEF Reject, CheckedState
    <2>1. TypeOK'
        BY DEF TypeOK
    <2>2. CountMatchesState'
        BY DEF CountMatchesState, TypeOK
    <2>3. ProbeOwned'
        BY DEF ProbeOwned, TypeOK
    <2>4. CallsMatchBreaker'
        BY DEF CallsMatchBreaker, TypeOK
    <2> QED BY <2>1, <2>2, <2>3, <2>4
<1>3. ASSUME NEW c \in Callers, AdmitClosed(c) PROVE BreakerInv'
    <2> USE <1>3 DEF AdmitClosed, CheckedState, StartCall, breaker
    <2>1. TypeOK'
        BY DEF TypeOK
    <2>2. CountMatchesState'
        BY DEF CountMatchesState
    <2>3. ProbeOwned'
        BY DEF ProbeOwned, TypeOK
    <2>4. CallsMatchBreaker'
        BY DEF CallsMatchBreaker, TypeOK, ProbeOwned
    <2> QED BY <2>1, <2>2, <2>3, <2>4
<1>4. ASSUME NEW c \in Callers, AdmitProbe(c) PROVE BreakerInv'
    <2> USE <1>4 DEF AdmitProbe, CheckedState, StartCall
    <2>1. TypeOK'
        BY DEF TypeOK
    <2>2. CountMatchesState'
        BY DEF CountMatchesState, TypeOK
    <2>3. ProbeOwned'
        BY DEF ProbeOwned, TypeOK
    <2>4. CallsMatchBreaker'
        BY DEF CallsMatchBreaker, TypeOK, ProbeOwned
    <2> QED BY <2>1, <2>2, <2>3, <2>4
<1>5. ASSUME NEW c \in Callers, HandleSuccess(c) PROVE BreakerInv'
    <2> USE <1>5 DEF HandleSuccess, EndCall, ClearProbe, CurrentProbe,
                     CurrentClosedCall, breaker
    <2>0. (probeInProgress \in BOOLEAN)'
        BY Zenon DEF TypeOK
    <2>1. TypeOK'
        BY <2>0 DEF TypeOK
    <2>2. CountMatchesState'
        BY DEF CountMatchesState, TypeOK
    <2>3. ProbeOwned'
        BY DEF ProbeOwned, TypeOK, CallsMatchBreaker
    <2>4. CallsMatchBreaker'
        BY DEF CallsMatchBreaker, TypeOK, ProbeOwned
    <2> QED BY <2>1, <2>2, <2>3, <2>4
<1>6. ASSUME NEW c \in Callers, HandleFailure(c) PROVE BreakerInv'
    <2> USE <1>6 DEF HandleFailure, EndCall, ClearProbe, CurrentProbe, Trip,
                     CurrentClosedCall, ReachesFailMax, breaker
    <2>0. (probeInProgress \in BOOLEAN)'
        BY Zenon DEF TypeOK
    <2>1. TypeOK'
        BY <2>0 DEF TypeOK
    <2>2. CountMatchesState'
        BY DEF CountMatchesState, TypeOK
    <2>3. ProbeOwned'
        BY DEF ProbeOwned, TypeOK, CallsMatchBreaker
    <2>4. CallsMatchBreaker'
        BY DEF CallsMatchBreaker, TypeOK, ProbeOwned
    <2> QED BY <2>1, <2>2, <2>3, <2>4
<1>7. ASSUME NEW c \in Callers, ReleaseProbe(c) PROVE BreakerInv'
    <2> USE <1>7 DEF ReleaseProbe, EndCall, ClearProbe, CurrentProbe
    <2>0. (probeInProgress \in BOOLEAN)'
        BY Zenon DEF TypeOK
    <2>1. TypeOK'
        BY <2>0 DEF TypeOK
    <2>2. CountMatchesState'
        BY DEF CountMatchesState
    <2>3. ProbeOwned'
        BY DEF ProbeOwned, TypeOK, CallsMatchBreaker
    <2>4. CallsMatchBreaker'
        BY DEF CallsMatchBreaker, TypeOK, ProbeOwned
    <2> QED BY <2>1, <2>2, <2>3, <2>4
<1>8. CASE UNCHANGED vars
    BY <1>8 DEF vars, breaker, calls, TypeOK, CountMatchesState, ProbeOwned,
                CallsMatchBreaker
<1> QED
    BY <1>1, <1>2, <1>3, <1>4, <1>5, <1>6, <1>7, <1>8 DEF Next

\* The invariant holds in every state of every behaviour.
THEOREM BreakerInvariant == Spec => []BreakerInv
<1> QED BY InitInv, NextInv, PTL DEF Spec

\* The breaker's fields and its calls keep their types.
THEOREM BreakerTypes == Spec => []TypeOK
<1>1. BreakerInv => TypeOK
    BY DEF BreakerInv
<1> QED BY BreakerInvariant, <1>1, PTL

\* The recorded failures tell a closed circuit from one that is not.
THEOREM BreakerCount == Spec => []CountMatchesState
<1>1. BreakerInv => CountMatchesState
    BY DEF BreakerInv
<1> QED BY BreakerInvariant, <1>1, PTL

\* The probe slot always has a live owner, whatever is cancelled or fails.
THEOREM ProbeNeverOrphaned == Spec => []ProbeOwned
<1>1. BreakerInv => ProbeOwned
    BY DEF BreakerInv
<1> QED BY BreakerInvariant, <1>1, PTL

\* No two trial calls of one generation run together.
THEOREM AtMostOneProbe == Spec => []SingleProbe
<1>1. BreakerInv => SingleProbe
    BY DEF BreakerInv, CallsMatchBreaker, SingleProbe
<1> QED BY BreakerInvariant, <1>1, PTL

\* The outcome of a call of an earlier generation leaves the breaker alone.
THEOREM StaleOutcomesIgnored == Spec => StaleOutcomeIgnored
<1> DEFINE Ignored ==
        \A c \in Callers :
            (pc[c] = "running" /\ pc'[c] = "idle"
                /\ callGeneration[c] # generation) => UNCHANGED breaker
<1>1. BreakerInv /\ [Next]_vars => [Ignored]_vars
    <2> SUFFICES ASSUME BreakerInv, Next,
                        NEW c \in Callers, pc[c] = "running", pc'[c] = "idle",
                        callGeneration[c] # generation
                 PROVE  UNCHANGED breaker
        OBVIOUS
    <2> USE DEF BreakerInv, TypeOK, CallsMatchBreaker
    <2>1. ~CurrentProbe(c) /\ ~CurrentClosedCall(c)
        BY CallersAssumption DEF CurrentProbe, CurrentClosedCall
    <2>2. ~Tick
        BY DEF Tick, calls
    <2>3. \A d \in Callers : ~Reject(d) /\ ~AdmitClosed(d) /\ ~AdmitProbe(d)
        BY DEF Reject, AdmitClosed, AdmitProbe, StartCall
    <2>4. \A d \in Callers : EndCall(d) => d = c
        BY DEF EndCall
    <2>5. HandleSuccess(c) \/ HandleFailure(c) \/ ReleaseProbe(c)
        BY <2>2, <2>3, <2>4 DEF Next, HandleSuccess, HandleFailure, ReleaseProbe
    <2> QED BY <2>1, <2>5
            DEF HandleSuccess, HandleFailure, ReleaseProbe, breaker
<1> QED BY BreakerInvariant, <1>1, PTL DEF Spec, StaleOutcomeIgnored
=============================================================================
