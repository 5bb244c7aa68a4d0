--------------------------- MODULE CircuitBreaker ---------------------------
(***************************************************************************)
(* The circuit breaker in front of the Redis hot store                     *)
(* (infrastructure/resilience/circuit_breaker.py).                         *)
(*                                                                         *)
(* One breaker is shared by every dispatch of the process.  A call has two *)
(* critical sections with the protected await between them: admission      *)
(* (`call` up to the end of the first `async with self._lock`) and the     *)
(* handling of its outcome.  No critical section awaits anything that      *)
(* suspends, so each is one atomic step; any number of other calls may     *)
(* start, finish or trip the breaker between the two steps of one call.    *)
(***************************************************************************)
EXTENDS Naturals, FiniteSets

CONSTANTS
    Callers,           \* tasks that use the breaker, one call at a time each
    FailMax,           \* fail_max
    RecoveryTimeout,   \* recovery_timeout, in clock ticks
    MaxFaults,         \* bound: failed or cancelled calls in one behaviour
    None               \* Python's None

ASSUME CallersAssumption == None \notin Callers
ASSUME FailMaxAssumption == FailMax \in Nat \ {0}
ASSUME RecoveryAssumption == RecoveryTimeout \in Nat \ {0}
ASSUME MaxFaultsAssumption == MaxFaults \in Nat

VARIABLES
    state,             \* _state
    failureCount,      \* _failure_count
    sinceOpened,       \* time.monotonic() - _opened_at, saturated at the timeout
    probeInProgress,   \* _probe_in_progress
    probeToken,        \* _probe_token: the call that holds the probe
    generation,        \* _generation
    pc,                \* where each caller is
    callGeneration,    \* the local `generation` of each running call
    callToken,         \* the local `probe_token` of each running call
    faults             \* failures and cancellations so far (for the bound)

breaker == <<state, failureCount, sinceOpened, probeInProgress, probeToken,
             generation>>
calls == <<pc, callGeneration, callToken>>
vars == <<breaker, calls, faults>>

CircuitState == {"CLOSED", "OPEN", "HALF_OPEN"}

TypeOK ==
    /\ state \in CircuitState
    /\ failureCount \in Nat
    /\ sinceOpened \in 0..RecoveryTimeout
    /\ probeInProgress \in BOOLEAN
    /\ probeToken \in Callers \cup {None}
    /\ generation \in Nat
    /\ pc \in [Callers -> {"idle", "running", "rejected"}]
    /\ callGeneration \in [Callers -> Nat]
    /\ callToken \in [Callers -> Callers \cup {None}]
    /\ faults \in Nat

Init ==
    /\ state = "CLOSED"
    /\ failureCount = 0
    /\ sinceOpened = 0
    /\ probeInProgress = FALSE
    /\ probeToken = None
    /\ generation = 0
    /\ pc = [c \in Callers |-> "idle"]
    /\ callGeneration = [c \in Callers |-> 0]
    /\ callToken = [c \in Callers |-> None]
    /\ faults = 0

-----------------------------------------------------------------------------
(* Admission: the first critical section of `call`.                        *)

CheckedState ==
    IF state = "OPEN" /\ sinceOpened >= RecoveryTimeout
    THEN "HALF_OPEN" ELSE state

\* CircuitBreakerError: still cooling down, or another call is probing.
Reject(c) ==
    /\ pc[c] # "running"
    /\ \/ CheckedState = "OPEN"
       \/ CheckedState = "HALF_OPEN" /\ probeInProgress
    /\ state' = CheckedState
    /\ pc' = [pc EXCEPT ![c] = "rejected"]
    /\ UNCHANGED <<failureCount, sinceOpened, probeInProgress, probeToken,
                   generation, callGeneration, callToken, faults>>

StartCall(c, token) ==
    /\ pc' = [pc EXCEPT ![c] = "running"]
    /\ callGeneration' = [callGeneration EXCEPT ![c] = generation]
    /\ callToken' = [callToken EXCEPT ![c] = token]

AdmitClosed(c) ==
    /\ pc[c] # "running"
    /\ CheckedState = "CLOSED"
    /\ StartCall(c, None)
    /\ UNCHANGED <<breaker, faults>>

\* Mutant of AdmitProbe: the check of _probe_in_progress is dropped.
AdmitProbeUnchecked(c) ==
    /\ pc[c] # "running"
    /\ CheckedState = "HALF_OPEN"
    /\ state' = "HALF_OPEN"
    /\ probeInProgress' = TRUE
    /\ probeToken' = c
    /\ StartCall(c, c)
    /\ UNCHANGED <<failureCount, sinceOpened, generation, faults>>

AdmitProbe(c) ==
    /\ pc[c] # "running"
    /\ CheckedState = "HALF_OPEN"
    /\ ~probeInProgress
    /\ state' = "HALF_OPEN"
    /\ probeInProgress' = TRUE
    /\ probeToken' = c
    /\ StartCall(c, c)
    /\ UNCHANGED <<failureCount, sinceOpened, generation, faults>>

-----------------------------------------------------------------------------
(* The outcome of the protected await.                                     *)

CurrentProbe(c) ==
    /\ callToken[c] # None
    /\ state = "HALF_OPEN"
    /\ probeToken = callToken[c]

\* Mutant of CurrentClosedCall: the generation is not compared.
AnyClosedCall(c) == callToken[c] = None /\ state = "CLOSED"

CurrentClosedCall(c) ==
    /\ callToken[c] = None
    /\ state = "CLOSED"
    /\ generation = callGeneration[c]

EndCall(c) ==
    /\ pc' = [pc EXCEPT ![c] = "idle"]
    /\ UNCHANGED <<callGeneration, callToken>>

ClearProbe ==
    /\ probeInProgress' = FALSE
    /\ probeToken' = None

\* Mutant of Trip: the failed probe is left in progress.
TripKeepsProbe ==
    /\ state' = "OPEN"
    /\ sinceOpened' = 0
    /\ generation' = generation + 1
    /\ UNCHANGED <<probeInProgress, probeToken>>

Trip ==
    /\ state' = "OPEN"
    /\ sinceOpened' = 0
    /\ ClearProbe
    /\ generation' = generation + 1

\* Also an exception that `is_failure` classifies as no failure.
HandleSuccess(c) ==
    /\ pc[c] = "running"
    /\ EndCall(c)
    /\ \/ /\ CurrentProbe(c)
          /\ state' = "CLOSED"
          /\ failureCount' = 0
          /\ sinceOpened' = 0
          /\ ClearProbe
          /\ generation' = generation + 1
       \/ /\ CurrentClosedCall(c)
          /\ failureCount' = 0
          /\ UNCHANGED <<state, sinceOpened, probeInProgress, probeToken,
                         generation>>
       \/ /\ ~CurrentProbe(c)
          /\ ~CurrentClosedCall(c)
          /\ UNCHANGED breaker
    /\ UNCHANGED faults

\* Mutant of ReachesFailMax: off by one.
ExceedsFailMax == failureCount + 1 > FailMax

ReachesFailMax == failureCount + 1 >= FailMax

HandleFailure(c) ==
    /\ pc[c] = "running"
    /\ faults < MaxFaults
    /\ faults' = faults + 1
    /\ EndCall(c)
    /\ \/ /\ \/ CurrentProbe(c)
             \/ CurrentClosedCall(c) /\ ReachesFailMax
          /\ failureCount' = failureCount + 1
          /\ Trip
       \/ /\ CurrentClosedCall(c)
          /\ ~ReachesFailMax
          /\ failureCount' = failureCount + 1
          /\ UNCHANGED <<state, sinceOpened, probeInProgress, probeToken,
                         generation>>
       \/ /\ ~CurrentProbe(c)
          /\ ~CurrentClosedCall(c)
          /\ UNCHANGED breaker

\* Mutant of ReleaseProbe: cancellation skips the release.
CancelKeepsProbe(c) ==
    /\ pc[c] = "running"
    /\ faults < MaxFaults
    /\ faults' = faults + 1
    /\ EndCall(c)
    /\ UNCHANGED breaker

\* Cancellation, any other BaseException, or an `is_failure` that raises.
ReleaseProbe(c) ==
    /\ pc[c] = "running"
    /\ faults < MaxFaults
    /\ faults' = faults + 1
    /\ EndCall(c)
    /\ IF CurrentProbe(c)
       THEN ClearProbe
       ELSE UNCHANGED <<probeInProgress, probeToken>>
    /\ UNCHANGED <<state, failureCount, sinceOpened, generation>>

\* Mutant of Tick: the saturation is off by one.
TickPastTimeout ==
    /\ state = "OPEN"
    /\ sinceOpened <= RecoveryTimeout
    /\ sinceOpened' = sinceOpened + 1
    /\ UNCHANGED <<state, failureCount, probeInProgress, probeToken,
                   generation, calls, faults>>

\* time.monotonic() advances; only an open circuit ever reads it.
Tick ==
    /\ state = "OPEN"
    /\ sinceOpened < RecoveryTimeout
    /\ sinceOpened' = sinceOpened + 1
    /\ UNCHANGED <<state, failureCount, probeInProgress, probeToken,
                   generation, calls, faults>>

-----------------------------------------------------------------------------
Enter(c) == Reject(c) \/ AdmitClosed(c) \/ AdmitProbe(c)

Finish(c) == HandleSuccess(c) \/ HandleFailure(c) \/ ReleaseProbe(c)

Next ==
    \/ Tick
    \/ \E c \in Callers :
          \/ Reject(c) \/ AdmitClosed(c) \/ AdmitProbe(c)
          \/ HandleSuccess(c) \/ HandleFailure(c) \/ ReleaseProbe(c)

Spec == Init /\ [][Next]_vars

(***************************************************************************)
(* Fairness.  A call of the hot store ends: the client is built with a     *)
(* socket timeout (infrastructure/di/idempotency.py).  Time passes.        *)
(* Requests keep arriving; the recovery property is about a service in     *)
(* use, since only a call moves the breaker out of OPEN.                   *)
(***************************************************************************)
Fairness ==
    /\ WF_vars(Tick)
    /\ \A c \in Callers : WF_vars(Enter(c)) /\ WF_vars(Finish(c))

LiveSpec == Spec /\ Fairness

-----------------------------------------------------------------------------
(* Properties.                                                             *)

\* A breaker that lets everything through has recorded fewer than fail_max
\* consecutive failures, and one that does not has recorded at least fail_max:
\* the trip in _handle_failure and the reset in _handle_success can neither be
\* missed nor applied twice whatever the order in which outcomes arrive.
CountMatchesState == (state = "CLOSED") <=> (failureCount < FailMax)

\* The probe slot is taken exactly while a live call owns it, in HALF_OPEN
\* only: no cancelled, failed or stale call leaves `_probe_in_progress` set
\* behind (the breaker would reject every later call forever).
ProbeOwned ==
    /\ probeInProgress <=> (probeToken # None)
    /\ probeToken # None =>
          /\ state = "HALF_OPEN"
          /\ pc[probeToken] = "running"
          /\ callToken[probeToken] = probeToken

\* While the circuit is not closed, at most one of the calls admitted since the
\* last trip is in flight, and it is the probe: the failing dependency is never
\* hit by two trial calls at once.
SingleProbe ==
    state # "CLOSED" =>
        \A c \in Callers :
            (pc[c] = "running" /\ callGeneration[c] = generation)
                => probeToken = c

\* The outcome of a call admitted before the breaker last changed generation
\* changes nothing: a slow success cannot close a circuit that tripped
\* meanwhile, a slow failure cannot reopen one that recovered.
StaleOutcomeIgnored ==
    [][\A c \in Callers :
          (pc[c] = "running" /\ pc'[c] = "idle" /\ callGeneration[c] # generation)
              => UNCHANGED breaker]_vars

\* Once failures and cancellations cease, an open circuit closes again.
Recovers == (state = "OPEN") ~> (state = "CLOSED")
=============================================================================
