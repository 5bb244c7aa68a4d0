------------------------- MODULE RequestFingerprint -------------------------
(***************************************************************************)
(* compute_request_fingerprint (application/idempotency/fingerprint.py):   *)
(* the canonical form of the fields of a command.  Two bodies have the     *)
(* same fingerprint when their canonical forms are the same JSON; SHA-256  *)
(* is taken to be injective.                                               *)
(*                                                                         *)
(* A value is a record with its Python type.  JSON texts that are put      *)
(* together from parts are kept as their parts.  One level of collections  *)
(* is modelled, and no unordered_paths, as no caller passes them.          *)
(***************************************************************************)
EXTENDS Integers, Sequences, FiniteSets

Json(kind, text) == <<kind, text>>

\* n * 10^e without the zeros after the last digit of its fraction, as
\* format(value, "f") and rstrip leave it.
WithoutZeros(n, e) ==
    IF e >= 0 THEN <<n * 10^e, 0>>
    ELSE LET zeros == {k \in 0..-e : n % 10^k = 0}
             most == CHOOSE k \in zeros : \A j \in zeros : j <= k
         IN  <<n \div 10^most, e + most>>

\* Decimal: sign, digits, exponent.
CanonicalDecimal(v) ==
    IF v.digits = 0 THEN Json("string", <<"+", <<0, 0>>>>)
    ELSE Json("string", <<v.sign, WithoutZeros(v.digits, v.exponent)>>)

\* datetime: local time and utcoffset; isoformat of the instant in UTC.
CanonicalTime(v) == Json("string", v.local - v.offset)

\* Enums are their values; uuid and date become their texts.
CanonicalScalar(v) ==
    CASE v.type = "decimal"  -> CanonicalDecimal(v)
      [] v.type = "datetime" -> CanonicalTime(v)
      [] v.type = "float"    -> Json("float", IF v.number = 0 THEN <<"+", 0>>
                                              ELSE <<v.sign, v.number>>)
      [] v.type \in {"uuid", "date", "enum", "str"} -> Json("string", v.text)
      [] OTHER               -> Json(v.type, v.text)

\* Sequences keep their order.  What is sorted is known by how often each item
\* occurs in it.
CanonicalField(v) ==
    CASE v.type = "list" -> Json("array", [i \in DOMAIN v.items |-> CanonicalScalar(v.items[i])])
      [] v.type = "set"  -> Json("sorted array",
                                 [t \in {CanonicalScalar(x) : x \in v.items} |->
                                     Cardinality({x \in v.items : CanonicalScalar(x) = t})])
      [] OTHER           -> CanonicalScalar(v)

Canonical(body) == [f \in DOMAIN body |-> CanonicalField(body[f])]

\* The types of what has no canonical form: an infinite number, a local time
\* without offset, an object of any other class.
Unsupported == {"infinite", "naive", "object"}

\* _canonicalize raises no error.
Fingerprintable(body) ==
    \A f \in DOMAIN body :
        CASE body[f].type = "list" -> \A i \in DOMAIN body[f].items :
                                         body[f].items[i].type \notin Unsupported
          [] body[f].type = "set"  -> \A x \in body[f].items : x.type \notin Unsupported
          [] OTHER                 -> body[f].type \notin Unsupported

\* What the fields of the commands are: no command has a Decimal or a
\* collection among them.
Plain(v) ==
    \/ v.type \in Unsupported \cup {"datetime", "float"}
    \/ /\ v.type \in {"uuid", "date", "enum", "str", "int", "bool", "none"}
       /\ v = [type |-> v.type, text |-> v.text]

-----------------------------------------------------------------------------
(* The equality that the fingerprint has to decide for fields of one type. *)

Signed(v) == IF v.sign = "-" THEN -v.digits ELSE v.digits

\* Equal numbers, the same instant, the same text.
SameScalar(v, w) ==
    /\ v.type = w.type
    /\ CASE v.type = "decimal" ->
              IF v.exponent >= w.exponent
              THEN Signed(v) * 10^(v.exponent - w.exponent) = Signed(w)
              ELSE Signed(w) * 10^(w.exponent - v.exponent) = Signed(v)
         [] v.type = "datetime" -> v.local - v.offset = w.local - w.offset
         [] v.type = "float" -> v.number = w.number /\ (v.sign = w.sign \/ v.number = 0)
         [] OTHER -> v = w

Same(v, w) ==
    /\ v.type = w.type
    /\ CASE v.type = "list" ->
              /\ Len(v.items) = Len(w.items)
              /\ \A i \in DOMAIN v.items : SameScalar(v.items[i], w.items[i])
         [] v.type = "set" ->
              /\ \A x \in v.items : \E y \in w.items : SameScalar(x, y)
              /\ \A y \in w.items : \E x \in v.items : SameScalar(x, y)
         [] OTHER -> SameScalar(v, w)

SameBody(a, b) == DOMAIN a = DOMAIN b /\ \A f \in DOMAIN a : Same(a[f], b[f])
=============================================================================
