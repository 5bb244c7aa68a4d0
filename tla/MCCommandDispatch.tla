-------------------------- MODULE MCCommandDispatch --------------------------
(* A small instance of CommandDispatch for TLC.                            *)
EXTENDS CommandDispatchProofs, TLC

\* reset is offered under an operation of its own and under that of update, and
\* update also without a policy.
MCRegistrations ==
    {[command |-> "update", operation |-> "op1", policy |-> "HOT_DURABLE"],
     [command |-> "reset", operation |-> "op1", policy |-> "HOT_DURABLE"],
     [command |-> "reset", operation |-> "op2", policy |-> "HOT_DURABLE"],
     [command |-> "update", operation |-> "op2", policy |-> "NONE"]}

MCRequest(command, body, mode) ==
    [command |-> command, scope |-> "s", key |-> "k", body |-> body, mode |-> mode]

MCTime(local, offset) == [type |-> "datetime", local |-> local, offset |-> offset]
MCText(type, text) == [type |-> type, text |-> text]

\* One instant as two zones write it, a cleared field, and a local time.
MCBody(at, bio) == [user_id |-> MCText("uuid", "u"), at |-> at, bio |-> bio]
Body == MCBody(MCTime(12, 0), MCText("none", "null"))
BodyOtherZone == MCBody(MCTime(15, 3), MCText("none", "null"))
BodyCleared == MCBody(MCTime(12, 0), MCText("str", ""))
BodyNaive == MCBody([type |-> "naive"], MCText("none", "null"))

\* A request and its retry in the other mode, which spells the same instant
\* differently, another body, a second command with the same fields, and what is
\* turned away before it is claimed.
MCRequests ==
    {MCRequest("update", x, "REPLAYABLE") : x \in {Body, BodyCleared}}
    \cup {MCRequest("update", BodyOtherZone, "COMPLETION_ONLY"),
          MCRequest("reset", Body, "REPLAYABLE"),
          MCRequest("reset", BodyNaive, "COMPLETION_ONLY"),
          [MCRequest("reset", Body, "COMPLETION_ONLY") EXCEPT !.key = None],
          [MCRequest("reset", Body, "COMPLETION_ONLY") EXCEPT !.scope = None]}

\* Values of every type, in every spelling that stays within the bounds.
MCScalars ==
    {[type |-> "decimal", sign |-> g, digits |-> n, exponent |-> e] :
        g \in {"+", "-"}, n \in {0, 1, 9, 10, 12, 100, 101, 120}, e \in -3..2}
    \cup {[type |-> "float", sign |-> g, number |-> n] : g \in {"+", "-"}, n \in 0..2}
    \cup {MCTime(h, o) : h \in 0..5, o \in -2..3}
    \cup {MCText(t, x) : t \in {"str", "enum", "uuid"}, x \in {"a", "b", ""}}
    \cup {MCText("int", n) : n \in 0..2} \cup {MCText("bool", x) : x \in BOOLEAN}
    \cup {MCText("none", "null")}

MCNumbers == {v \in MCScalars : v.type = "decimal" /\ v.digits \in {0, 1, 10} /\ v.exponent \in -1..0}

\* Lists of two numbers, and sets in which no two numbers are equal.
MCCollections ==
    {[type |-> "list", items |-> <<v, w>>] : v, w \in MCNumbers}
    \cup {[type |-> "set", items |-> S] :
        S \in {S \in SUBSET MCNumbers :
                  /\ Cardinality(S) <= 2
                  /\ \A v, w \in S : v # w => ~SameScalar(v, w)}}

\* Fields of one type have the same canonical form exactly if they mean the same.
ASSUME CanonicalFormDecides ==
    \A v, w \in MCScalars \cup MCCollections :
        v.type = w.type => ((CanonicalField(v) = CanonicalField(w)) <=> Same(v, w))

Symmetry == Permutations(Dispatches)
=============================================================================
