-------------------------- MODULE ProfileDataProofs --------------------------
(* Facts about commands and rows, for every set of commands and users.     *)
EXTENDS ProfileData, TLAPS

\* A new aggregate is a well-formed row, in its first version.
LEMMA DefaultRow ==
    ASSUME NEW t \in Tables
    PROVE  /\ CreateDefault(t) \in Row(t)
           /\ CreateDefault(t).version = 1
           /\ t = "profile" => CreateDefault(t).fields.username = None
<1>1. CASE t = "profile"
    BY <1>1 DEF CreateDefault, Default, Row, Content, Scope
<1>2. CASE t = "settings"
    BY <1>2 DEF CreateDefault, Default, Row, Content, Scope
<1> QED BY <1>1, <1>2 DEF Tables

\* A command names a user and one of the two kinds.
LEMMA CommandFacts ==
    ASSUME NEW m \in Commands
    PROVE  /\ m.user \in Users
           /\ m.kind \in {"provision", "change"}
           /\ m.kind = "change" => /\ KeyOf(m) \in Key
                                   /\ KeyOf(m)[1] = m.table
                                   /\ m.expected \in Nat \ {0}
<1>1. Valid(m)
    BY CommandsAssumption
<1>2. CASE m = Provision(m.user)
    BY <1>1, <1>2 DEF Valid, Provision
<1>3. CASE m # Provision(m.user)
    BY <1>1, <1>3 DEF Valid, Change, KeyOf, Key, Tables
<1> QED BY <1>2, <1>3

\* A changed aggregate is a well-formed row, one version ahead.
LEMMA ChangedRow ==
    ASSUME NEW m \in Commands, m.kind = "change", NEW r \in Row(KeyOf(m)[1])
    PROVE  /\ Changed(r, m.patch) \in Row(KeyOf(m)[1])
           /\ Changed(r, m.patch).version = r.version + 1
<1>1. Valid(m) /\ m.kind = "change"
    BY CommandsAssumption
<1>2. KeyOf(m)[1] = m.table /\ m.table \in Tables
    BY <1>1 DEF Valid, Provision, Change, KeyOf
<1>3. \A f \in Content[m.table] : Patched(f, m.patch) \in Content[m.table]
    BY <1>1 DEF Valid, Provision, Change
<1>4. r.fields \in Content[m.table] /\ r.version \in Nat \ {0}
    BY <1>2 DEF Row
<1>5. Patched(r.fields, m.patch) \in Content[m.table]
    BY <1>3, <1>4
<1> QED BY <1>2, <1>4, <1>5 DEF Changed, Row

\* The rows of either table are rows, and None is not one of them.
LEMMA RowFacts ==
    ASSUME NEW t \in Tables, NEW r \in Row(t)
    PROVE  r \in Rows /\ r # None /\ r.version \in Nat \ {0}
<1>1. r \in Rows
    BY DEF Rows, Tables
<1>2. r.version \in Nat \ {0}
    BY DEF Row
<1> QED BY <1>1, <1>2, NoRowAssumption
=============================================================================
