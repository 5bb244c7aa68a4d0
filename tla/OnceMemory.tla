----------------------------- MODULE OnceMemory -----------------------------
(***************************************************************************)
(* What the idempotency layer promises for one identity: a memory of at    *)
(* most one live result.  A dispatch may execute, once, only when no       *)
(* result is alive; a successful answer is the live result of its own      *)
(* fingerprint at the moment of the answer; anything else is a refusal.    *)
(***************************************************************************)
EXTENDS Integers, Sequences

CONSTANTS Dispatches, Fp, RetentionSeconds, None

VARIABLES
    now,       \* the clock
    memory,    \* the remembered result, or None
    executed,  \* dispatches whose business effect is committed
    answer     \* <<>> while pending, <<result>> once answered, <<None>> if refused

vars == <<now, memory, executed, answer>>

Init ==
    /\ now = 0
    /\ memory = None
    /\ executed = {}
    /\ answer = [d \in Dispatches |-> <<>>]

\* The effect and its memory appear together; the window opened at `start`,
\* when nothing remembered was alive any more.
Execute(d) ==
    /\ d \notin executed
    /\ executed' = executed \cup {d}
    /\ \E start \in 0..now :
          /\ memory # None => memory.exp <= start
          /\ memory' = [fp |-> Fp[d], by |-> d, exp |-> start + RetentionSeconds]

Answer(d) ==
    /\ answer[d] = <<>>
    /\ memory # None
    /\ memory.exp > now
    /\ memory.fp = Fp[d]
    /\ answer' = [answer EXCEPT ![d] = <<memory>>]

Refuse(d) ==
    /\ answer[d] = <<>>
    /\ answer' = [answer EXCEPT ![d] = <<None>>]

Next ==
    \/ now' = now + 1 /\ UNCHANGED <<memory, executed, answer>>
    \/ \E d \in Dispatches :
          \/ Execute(d) /\ UNCHANGED <<now, answer>>
          \/ Answer(d) /\ UNCHANGED <<now, memory, executed>>
          \/ Refuse(d) /\ UNCHANGED <<now, memory, executed>>

Spec == Init /\ [][Next]_vars
=============================================================================
