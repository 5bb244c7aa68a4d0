--------------------------- MODULE IdempotencyOnce ---------------------------
(* The refinement mapping from Idempotency to OnceMemory: the durable row  *)
(* is the memory, the committed effects are the executions.                *)
EXTENDS Idempotency

AnswerOf(d) ==
    IF pc[d] # "done" THEN <<>>
    ELSE IF out[d] = "ok" THEN <<got[d]>> ELSE <<None>>

Once == INSTANCE OnceMemory WITH
            memory <- record,
            executed <- {e.by : e \in effects},
            answer <- [d \in Dispatches |-> AnswerOf(d)]

\* HOT_DURABLE implements the abstract memory: every step of coordinator,
\* heartbeat, database and Redis is an execution with no live result, an answer
\* of the live result, a refusal, a clock tick, or invisible.
ImplementsOnceMemory == Once!Spec
=============================================================================
