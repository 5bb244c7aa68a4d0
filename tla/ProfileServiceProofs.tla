------------------------ MODULE ProfileServiceProofs ------------------------
(***************************************************************************)
(* Proofs about ProfileService for every set of users, clients, commands,  *)
(* keys, flaws and deployments and every bound.                            *)
(***************************************************************************)
EXTENDS ProfileService, ProfileDataProofs

-----------------------------------------------------------------------------
(* The invariant.                                                          *)

\* The contents a row has had since it exists, the current one included.
Contents(row, history) ==
    ({row} \cup {history[n].before : n \in DOMAIN history}) \ {None}

Versions(k) == Contents(rows[k], log[k])

\* The content a change leaves behind.
Applied(row, patch) == IF Changes(row, patch) THEN Changed(row, patch) ELSE row

RowOf(r) == <<r.table, r.user>>

\* A request that passed the boundary, of a client signed in as `user`, for a row
\* with these versions.  Its If-Match is the version of a content that the row
\* really had and that its client was given.
Sound(r, user, versions) ==
    /\ r.by \in Clients
    /\ r.kind \in {"change", "provision"}
    /\ r.table \in Tables /\ r.user \in Users
    /\ r.kind = "change" =>
          /\ r \in PatchSpace
          /\ r.user = user
          /\ r.key \in Keys[r.by]
          /\ r.body \in {"ok", "domain"}
          /\ \E m \in Commands :
                m.kind = "change" /\ m.table = r.table /\ m.patch = r.content
          /\ r.basis \in versions
          /\ r.if_match = r.basis.version
    /\ r.kind = "provision" =>
          /\ r \in PutSpace
          /\ r.key = r.user
          /\ r.body = "ok"

Admitted(r) == Sound(r, session[r.by], Versions(RowOf(r)))

\* The variables are functions on their domains, and the clients are who they are.
DomainInv ==
    /\ session \in Sessions
    /\ DOMAIN req = Attempts
    /\ DOMAIN want = Clients
    /\ DOMAIN wait = Clients
    /\ DOMAIN seen = Clients /\ \A c \in Clients : DOMAIN seen[c] = Tables
    /\ DOMAIN got = Clients

\* Every attempt is an admitted request of its client.
AttemptInv ==
    /\ \A a \in Attempts : req[a] # None => Admitted(req[a]) /\ req[a].by = a[1]
    /\ \A c \in Clients : want[c] # None => Admitted(want[c]) /\ want[c].by = c

\* An attempt that is being served has a request, and a client waits for an
\* attempt of its own that carries what it wants.
WaitInv ==
    /\ stage \in [Attempts -> {"free", "sent", "run"}]
    /\ \A a \in Attempts : (stage[a] = "free") <=> (req[a] = None)
    /\ \A c \in Clients :
          wait[c] # None => /\ wait[c] \in Attempts /\ wait[c][1] = c
                            /\ want[c] # None /\ req[wait[c]] = want[c]

\* An edit e in the history of row k: it was admitted, made on the content its
\* client knew, moved the row on, and its result is remembered unless it expired.
Entered(e, k, row, history, user, mem, exp) ==
    /\ row # None
    /\ e.before \in Row(k[1])
    /\ e.before.version < row.version
    /\ Sound(e.request, user[e.request.by], Contents(row, history))
    /\ e.request.kind = "change"
    /\ RowOf(e.request) = k
    /\ e.before = e.request.basis
    /\ mem[IdentityOf(e.request)] = None => exp[IdentityOf(e.request)] > 0

\* The log of a row is the chain of its versions, each left behind once.
HistoryInv ==
    \A k \in Key :
        /\ log[k] \in Seq([request : PatchSpace, before : Rows])
        /\ \A n \in DOMAIN log[k] :
              Entered(log[k][n], k, rows[k], log[k], session, memory, expired)
        /\ \A m, n \in DOMAIN log[k] :
              log[k][m].before.version = log[k][n].before.version => m = n

\* What is remembered of a change is its outcome on the version it names, and
\* what is remembered of a provisioning is that the user has both rows.
MemoryInv ==
    \A i \in Identity :
        memory[i] # None =>
            LET k == <<i[2][2], i[1]>> IN
            /\ i[2][1] = "change" =>
                  /\ memory[i].doc \in Versions(k)
                  /\ \E b \in Versions(k) :
                        /\ b.version = memory[i].fp[2]
                        /\ memory[i].doc = Applied(b, memory[i].fp[4])
            /\ i[2][1] = "provision" => \A t \in Tables : rows[<<t, i[3]>>] # None

\* What a client was given is a content its own row has had.
SeenInv ==
    \A c \in Clients, t \in Tables :
        seen[c][t] # None =>
            session[c] # None /\ seen[c][t] \in Versions(<<t, session[c]>>)

\* What a final answer means, for given data.
Answered(g, row, history, user, exp, flt, early) ==
    LET r == g.request
        k == RowOf(r)
    IN  /\ g.status \in Statuses
        /\ Sound(r, user[r.by], Contents(row[k], history[k]))
        /\ g.status = "200" =>
              r.kind = "change" /\ g.doc = Applied(r.basis, r.content)
        /\ g.status = "204" => \A t \in Tables : row[<<t, r.user>>] # None
        /\ g.status = "409 version" =>
              /\ r.kind = "change" /\ row[k] # None /\ r.if_match < row[k].version
              /\ \A n \in DOMAIN history[k] :
                    SameOperation(history[k][n].request, r) => exp[IdentityOf(r)] > 0
        /\ Faithful(r) =>
              \/ g.status \in {"200", "204", "409 version", "409 taken", "409 key"}
              \/ /\ g.status = "500"
                 /\ \/ flt > 0
                    \/ r.basis # None /\ (k \in early \/ r.basis.version = MaxVersion)

\* Every client can rely on its last final answer.
AnsweredInv ==
    \A c \in Clients :
        got[c] # None => Answered(got[c], rows, log, session, expired, faults, born)

\* An attempt that has found nothing to change has kept what its client knows.
KeptInv ==
    /\ kept \in [Attempts -> Rows \cup {None}]
    /\ \A a \in Attempts :
          kept[a] # None => /\ stage[a] = "run" /\ req[a].kind = "change"
                            /\ kept[a] = req[a].basis
                            /\ ~Changes(kept[a], req[a].content)

CallerInv == AttemptInv /\ WaitInv /\ SeenInv /\ AnsweredInv /\ DomainInv

-----------------------------------------------------------------------------
(* The boundary.                                                           *)

\* No refusal is left when there is none on either side.
LEMMA ConcatEmpty ==
    ASSUME NEW S, NEW s \in Seq(S), NEW t \in Seq(S)
    PROVE  s \o t = <<>> <=> s = <<>> /\ t = <<>>
OBVIOUS

\* One refusal is a refusal.
LEMMA OneRefusal ==
    ASSUME NEW S, NEW status \in S
    PROVE  /\ <<status>> \in Seq(S) /\ <<>> \in Seq(S)
           /\ <<status>> # <<>>
OBVIOUS

\* What a request that passes the boundary is like.
LEMMA BoundaryDecides ==
    ASSUME NEW r
    PROVE  /\ r.kind = "change" =>
                 (Refusals(r) = <<>> <=>
                    /\ r.token \notin {"absent", "not_bearer", "bad"}
                    /\ "verifier" \in configured
                    /\ r.if_match # None /\ r.if_match \in 1..MaxVersion
                    /\ r.key # None /\ r.body \notin {"malformed", "schema"})
           /\ r.kind = "provision" =>
                 (Refusals(r) = <<>> <=>
                    /\ "service_token" \in configured
                    /\ r.token = "good" /\ r.body \notin {"malformed", "schema"})
<1> DEFINE A == Check(r.token \in {"absent", "not_bearer"}, "401")
           B == Check("verifier" \notin configured, "503")
           C == Check(r.token = "bad", "401")
           D == Check(r.if_match = None, "428")
           E == Check(~ExpectedVersion(r), "400")
           F == Check(r.key = None \/ r.body = "schema", "422")
           G == Check("service_token" \notin configured, "503")
           H == Check(r.token # "good", "401")
           I == Check(r.body = "schema", "422")
           M == Check(r.body = "malformed", "422")
<1>0. {"400", "401", "422", "428", "503"} \subseteq Statuses
    BY DEF Statuses
<1>1. /\ A \in Seq(Statuses) /\ (A = <<>> <=> r.token \notin {"absent", "not_bearer"})
      /\ B \in Seq(Statuses) /\ (B = <<>> <=> "verifier" \in configured)
      /\ C \in Seq(Statuses) /\ (C = <<>> <=> r.token # "bad")
    <2>1. A \in Seq(Statuses) /\ (A = <<>> <=> r.token \notin {"absent", "not_bearer"})
        BY <1>0, OneRefusal, Zenon DEF Check
    <2>2. B \in Seq(Statuses) /\ (B = <<>> <=> "verifier" \in configured)
        BY <1>0, OneRefusal, Zenon DEF Check
    <2>3. C \in Seq(Statuses) /\ (C = <<>> <=> r.token # "bad")
        BY <1>0, OneRefusal, Zenon DEF Check
    <2> QED BY <2>1, <2>2, <2>3
<1>2. /\ D \in Seq(Statuses) /\ (D = <<>> <=> r.if_match # None)
      /\ E \in Seq(Statuses) /\ (E = <<>> <=> r.if_match \in 1..MaxVersion)
      /\ F \in Seq(Statuses) /\ (F = <<>> <=> r.key # None /\ r.body # "schema")
    <2>1. D \in Seq(Statuses) /\ (D = <<>> <=> r.if_match # None)
        BY <1>0, OneRefusal, Zenon DEF Check
    <2>2. E \in Seq(Statuses) /\ (E = <<>> <=> r.if_match \in 1..MaxVersion)
        BY <1>0, OneRefusal, Zenon DEF Check, ExpectedVersion
    <2>3. F \in Seq(Statuses) /\ (F = <<>> <=> r.key # None /\ r.body # "schema")
        BY <1>0, OneRefusal, Zenon DEF Check
    <2> QED BY <2>1, <2>2, <2>3
<1>3. /\ G \in Seq(Statuses) /\ (G = <<>> <=> "service_token" \in configured)
      /\ H \in Seq(Statuses) /\ (H = <<>> <=> r.token = "good")
      /\ I \in Seq(Statuses) /\ (I = <<>> <=> r.body # "schema")
    <2>1. G \in Seq(Statuses) /\ (G = <<>> <=> "service_token" \in configured)
        BY <1>0, OneRefusal, Zenon DEF Check
    <2>2. H \in Seq(Statuses) /\ (H = <<>> <=> r.token = "good")
        BY <1>0, OneRefusal, Zenon DEF Check
    <2>3. I \in Seq(Statuses) /\ (I = <<>> <=> r.body # "schema")
        BY <1>0, OneRefusal, Zenon DEF Check
    <2> QED BY <2>1, <2>2, <2>3
<1>m. M \in Seq(Statuses) /\ (M = <<>> <=> r.body # "malformed")
    BY <1>0, OneRefusal, Zenon DEF Check
<1>4. /\ ViewerChecks(r.token) = (A \o B) \o C
      /\ PatchChecks(r) = (D \o E) \o F
      /\ ServiceChecks(r) = (G \o H) \o I
      /\ Refusals(r) = M \o (IF r.kind = "change" THEN ViewerChecks(r.token) \o PatchChecks(r)
                             ELSE ServiceChecks(r))
    BY DEF ViewerChecks, PatchChecks, ServiceChecks, Refusals
<1> HIDE DEF A, B, C, D, E, F, G, H, I, M
<1>5. /\ A \o B \in Seq(Statuses) /\ D \o E \in Seq(Statuses) /\ G \o H \in Seq(Statuses)
      /\ (A \o B) \o C \in Seq(Statuses) /\ (D \o E) \o F \in Seq(Statuses)
      /\ (G \o H) \o I \in Seq(Statuses)
    BY <1>1, <1>2, <1>3
<1>6. ViewerChecks(r.token) = <<>> <=>
          r.token \notin {"absent", "not_bearer", "bad"} /\ "verifier" \in configured
    <2>1. (A \o B) \o C = <<>> <=> A = <<>> /\ B = <<>> /\ C = <<>>
        BY <1>1, <1>5, ConcatEmpty
    <2> QED BY <1>1, <1>4, <2>1
<1>7. PatchChecks(r) = <<>> <=>
          /\ r.if_match # None /\ r.if_match \in 1..MaxVersion
          /\ r.key # None /\ r.body # "schema"
    <2>1. (D \o E) \o F = <<>> <=> D = <<>> /\ E = <<>> /\ F = <<>>
        BY <1>2, <1>5, ConcatEmpty
    <2> QED BY <1>2, <1>4, <2>1
<1>8. ServiceChecks(r) = <<>> <=>
          "service_token" \in configured /\ r.token = "good" /\ r.body # "schema"
    <2>1. (G \o H) \o I = <<>> <=> G = <<>> /\ H = <<>> /\ I = <<>>
        BY <1>3, <1>5, ConcatEmpty
    <2> QED BY <1>3, <1>4, <2>1
<1>9. ViewerChecks(r.token) \o PatchChecks(r) = <<>> <=>
          ViewerChecks(r.token) = <<>> /\ PatchChecks(r) = <<>>
    BY <1>4, <1>5, ConcatEmpty
<1>10. ASSUME r.kind = "change"
       PROVE  Refusals(r) = <<>> <=>
                  M = <<>> /\ ViewerChecks(r.token) = <<>> /\ PatchChecks(r) = <<>>
    <2>1. Refusals(r) = M \o (ViewerChecks(r.token) \o PatchChecks(r))
        BY <1>4, <1>10
    <2>2. ViewerChecks(r.token) \o PatchChecks(r) \in Seq(Statuses)
        BY <1>4, <1>5
    <2> QED BY <1>9, <1>m, <2>1, <2>2, ConcatEmpty
<1>11. ASSUME r.kind = "provision"
       PROVE  Refusals(r) = <<>> <=> M = <<>> /\ ServiceChecks(r) = <<>>
    <2>1. Refusals(r) = M \o ServiceChecks(r)
        BY <1>4, <1>11
    <2>2. ServiceChecks(r) \in Seq(Statuses)
        BY <1>4, <1>5
    <2> QED BY <1>m, <2>1, <2>2, ConcatEmpty
<1> QED BY <1>6, <1>7, <1>8, <1>m, <1>10, <1>11

\* A request to change a row, right or with a flaw.
LEMMA FlawedPatch ==
    ASSUME NEW r \in PatchSpace, NEW flaw \in Flaws.change[r.table]
    PROVE  LET q == Patched(r, flaw) IN
           /\ q \in PatchSpace
           /\ q.by = r.by /\ q.kind = "change" /\ q.table = r.table /\ q.user = r.user
           /\ q.content = r.content /\ q.basis = r.basis
           /\ q.key \in {r.key, None}
           /\ \/ q.if_match \in {r.if_match, None}
              \/ q.if_match \notin 1..MaxVersion
<1> DEFINE q == Patched(r, flaw)
<1>1. r.table \in Tables
    BY DEF PatchSpace
<1>2. /\ DOMAIN flaw \subseteq {"token", "if_match", "key", "body"}
      /\ "token" \in DOMAIN flaw => flaw.token \in {"absent", "not_bearer", "bad"}
      /\ "if_match" \in DOMAIN flaw => flaw.if_match \in {None} \cup (Nat \ (1..MaxVersion))
      /\ "key" \in DOMAIN flaw => flaw.key = None
      /\ "body" \in DOMAIN flaw => flaw.body \in {"malformed", "schema", "domain"}
    BY <1>1, FlawsAssumption
<1>3. DOMAIN r = {"by", "kind", "table", "user", "token", "if_match", "key", "body",
                  "content", "basis"}
    BY DEF PatchSpace
<1>4. q = [f \in DOMAIN r |-> IF f \in DOMAIN flaw THEN flaw[f] ELSE r[f]]
    BY DEF Patched
<1>5. /\ q.by = r.by /\ q.kind = r.kind /\ q.table = r.table /\ q.user = r.user
      /\ q.content = r.content /\ q.basis = r.basis
    BY <1>2, <1>3, <1>4
<1>6. /\ q.key \in {r.key, None}
      /\ q.if_match \in {r.if_match, None} \/ q.if_match \in Nat \ (1..MaxVersion)
      /\ q.token = r.token \/ q.token \in {"absent", "not_bearer", "bad"}
      /\ q.body = r.body \/ q.body \in {"malformed", "schema", "domain"}
    BY <1>2, <1>3, <1>4
<1>7. q \in PatchSpace
    <2>1. /\ q.key \in KeyValues \cup {None}
          /\ q.if_match \in Nat \cup {None} /\ q.token \in Tokens /\ q.body \in Bodies
        <3>1. /\ r.key \in KeyValues \cup {None}
              /\ r.if_match \in Nat \cup {None} /\ r.token \in Tokens /\ r.body \in Bodies
            BY DEF PatchSpace
        <3> HIDE DEF q
        <3>2. q.key \in KeyValues \cup {None}
            BY <1>6, <3>1
        <3>3. q.if_match \in Nat \cup {None}
            BY <1>6, <3>1
        <3>4. q.token \in Tokens /\ q.body \in Bodies
            BY <1>6, <3>1 DEF Tokens, Bodies
        <3> QED BY <3>2, <3>3, <3>4
    <2>2. /\ q.by \in Clients /\ q.kind \in {"change"} /\ q.table \in Tables
          /\ q.user \in Users /\ q.content \in Patches /\ q.basis \in Rows
        BY <1>5 DEF PatchSpace
    <2>3. q = [by |-> q.by, kind |-> q.kind, table |-> q.table, user |-> q.user,
               token |-> q.token, if_match |-> q.if_match, key |-> q.key,
               body |-> q.body, content |-> q.content, basis |-> q.basis]
        BY <1>3, <1>4
    <2> QED BY <2>1, <2>2, <2>3 DEF PatchSpace
<1>8. r.kind = "change"
    BY DEF PatchSpace
<1> HIDE DEF q
<1>9. q.if_match \in {r.if_match, None} \/ q.if_match \notin 1..MaxVersion
    BY <1>6
<1>10. q.kind = "change"
    BY <1>5, <1>8
<1> QED BY <1>5, <1>6, <1>7, <1>9, <1>10 DEF q

\* A request to provision a user, right or with a flaw.
LEMMA FlawedPut ==
    ASSUME NEW r \in PutSpace, NEW flaw \in Flaws.provision.profile
    PROVE  LET q == Patched(r, flaw) IN
           /\ q \in PutSpace
           /\ q.by = r.by /\ q.kind = "provision" /\ q.table = "profile"
           /\ q.user = r.user /\ q.key = r.key /\ q.body \in {r.body, "malformed", "schema"}
<1> DEFINE q == Patched(r, flaw)
<1>1. /\ DOMAIN flaw \subseteq {"token", "body"}
      /\ "token" \in DOMAIN flaw => flaw.token \in {"absent", "not_bearer", "bad"}
      /\ "body" \in DOMAIN flaw => flaw.body \in {"malformed", "schema"}
    BY FlawsAssumption
<1>2. DOMAIN r = {"by", "kind", "table", "user", "token", "if_match", "key", "body",
                  "content", "basis"}
    BY DEF PutSpace
<1>3. q = [f \in DOMAIN r |-> IF f \in DOMAIN flaw THEN flaw[f] ELSE r[f]]
    BY DEF Patched
<1>4. /\ q.by = r.by /\ q.kind = r.kind /\ q.table = r.table /\ q.user = r.user
      /\ q.content = r.content /\ q.basis = r.basis
      /\ q.key = r.key /\ q.if_match = r.if_match
    BY <1>1, <1>2, <1>3
<1>5. /\ q.token = r.token \/ q.token \in {"absent", "not_bearer", "bad"}
      /\ q.body \in {r.body, "malformed", "schema"}
    BY <1>1, <1>2, <1>3
<1>6. q \in PutSpace
    <2>1. /\ q.by \in Clients /\ q.kind \in {"provision"} /\ q.table \in {"profile"}
          /\ q.user \in Users /\ q.content \in {"past", "future"} /\ q.basis \in {None}
          /\ q.key \in Users /\ q.if_match \in {None}
        BY <1>4 DEF PutSpace
    <2>2. q.token \in Tokens /\ q.body \in Bodies
        BY <1>5 DEF PutSpace, Tokens, Bodies
    <2>3. q = [by |-> q.by, kind |-> q.kind, table |-> q.table, user |-> q.user,
               token |-> q.token, if_match |-> q.if_match, key |-> q.key,
               body |-> q.body, content |-> q.content, basis |-> q.basis]
        BY <1>2, <1>3
    <2> QED BY <2>1, <2>2, <2>3 DEF PutSpace
<1>7. r.kind = "provision" /\ r.table = "profile"
    BY DEF PutSpace
<1> HIDE DEF q
<1> QED BY <1>4, <1>5, <1>6, <1>7 DEF q

\* Every client is signed in as a user or is the identity service.
LEMMA SessionFacts ==
    ASSUME TypeOK, NEW c \in Clients
    PROVE  session[c] \in Users \cup {None}
BY SessionsAssumption DEF TypeOK

\* The requests a client may send: edits of what it has seen, and provisionings.
LEMMA RequestFacts ==
    ASSUME TypeOK, NEW c \in Clients, NEW q \in Requests(c)
    PROVE  \/ /\ q \in PatchSpace
              /\ q.by = c /\ q.kind = "change" /\ q.user = session[c]
              /\ q.key \in Keys[c] \cup {None}
              /\ q.basis = seen[c][q.table] /\ q.basis # None
              /\ \/ q.if_match \in {q.basis.version, None}
                 \/ q.if_match \notin 1..MaxVersion
              /\ \E m \in Commands :
                    m.kind = "change" /\ m.table = q.table /\ m.patch = q.content
           \/ /\ q \in PutSpace
              /\ q.by = c /\ q.kind = "provision" /\ q.key = q.user
              /\ q.body \in {"ok", "malformed", "schema"}
<1> DEFINE Edits == {Patch(c, m, key) :
                  m \in {m \in Commands :
                            /\ m.kind = "change" /\ m.user = session[c]
                            /\ seen[c][m.table] # None
                            /\ m.expected = seen[c][m.table].version},
                  key \in Keys[c]}
           Puts == {Put(c, m.user, date) :
                  m \in {m \in Commands : m.kind = "provision" /\ session[c] = None},
                  date \in {"past", "future"}}
<1>1. PICK r \in Edits \cup Puts : \E flaw \in Flaws[r.kind][r.table] : q = Patched(r, flaw)
    BY DEF Requests
<1>2. PICK flaw \in Flaws[r.kind][r.table] : q = Patched(r, flaw)
    BY <1>1
<1>3. CASE r \in Edits
    <2>1. PICK m \in Commands, key \in Keys[c] :
              /\ r = Patch(c, m, key)
              /\ m.kind = "change" /\ m.user = session[c]
              /\ seen[c][m.table] # None
        BY <1>3
    <2>2. m.table \in Tables /\ m.user \in Users /\ m.patch \in Patches
        <3>1. m.user \in Users /\ KeyOf(m) \in Key
            BY <2>1, CommandFacts
        <3> QED BY <2>1, <3>1 DEF KeyOf, Key, Patches
    <2>3. seen[c][m.table] \in Row(m.table)
        BY <2>1, <2>2 DEF TypeOK
    <2>4. seen[c][m.table] \in Rows /\ seen[c][m.table].version \in Nat
        BY <2>2, <2>3, RowFacts
    <2>5. /\ r.by = c /\ r.kind = "change" /\ r.table = m.table /\ r.user = m.user
          /\ r.key = key /\ r.if_match = seen[c][m.table].version
          /\ r.content = m.patch /\ r.basis = seen[c][m.table]
        BY <2>1 DEF Patch
    <2>6. r \in PatchSpace
        <3>1. key \in KeyValues
            BY DEF KeyValues
        <3> QED BY <2>1, <2>2, <2>4, <3>1 DEF Patch, PatchSpace, Tokens, Bodies
    <2>7. flaw \in Flaws.change[r.table]
        BY <1>2, <2>5
    <2>8. /\ q \in PatchSpace
          /\ q.by = r.by /\ q.kind = "change" /\ q.table = r.table /\ q.user = r.user
          /\ q.content = r.content /\ q.basis = r.basis
          /\ q.key \in {r.key, None}
          /\ q.if_match \in {r.if_match, None} \/ q.if_match \notin 1..MaxVersion
        BY <1>2, <2>6, <2>7, FlawedPatch
    <2> QED BY <2>1, <2>5, <2>8
<1>4. CASE r \in Puts
    <2>1. PICK m \in Commands, date \in {"past", "future"} : r = Put(c, m.user, date)
        BY <1>4
    <2>2. m.user \in Users
        BY CommandFacts
    <2>3. r \in PutSpace
        BY <2>1, <2>2 DEF Put, PutSpace, Tokens, Bodies
    <2>4. /\ r.by = c /\ r.kind = "provision" /\ r.table = "profile" /\ r.key = r.user
          /\ r.body = "ok"
        BY <2>1 DEF Put
    <2>5. flaw \in Flaws.provision.profile
        BY <1>2, <2>4
    <2>6. /\ q \in PutSpace
          /\ q.by = r.by /\ q.kind = "provision"
          /\ q.user = r.user /\ q.key = r.key /\ q.body \in {r.body, "malformed", "schema"}
        BY <1>2, <2>3, <2>5, FlawedPut
    <2> QED BY <2>4, <2>6
<1> QED BY <1>1, <1>3, <1>4

\* What passes the boundary is admitted.
LEMMA RequestAdmitted ==
    ASSUME TypeOK, SeenInv, NEW c \in Clients, NEW q \in Requests(c),
           Refusals(q) = <<>>
    PROVE  Admitted(q) /\ q.by = c /\ q # None
<1>1. CASE q.kind = "change"
    <2>1. /\ q \in PatchSpace
          /\ q.by = c /\ q.kind = "change" /\ q.user = session[c]
          /\ q.key \in Keys[c] \cup {None}
          /\ q.basis = seen[c][q.table] /\ q.basis # None
          /\ q.if_match \in {q.basis.version, None} \/ q.if_match \notin 1..MaxVersion
          /\ \E m \in Commands :
                m.kind = "change" /\ m.table = q.table /\ m.patch = q.content
        BY <1>1, RequestFacts
    <2>2. q.if_match # None /\ q.if_match \in 1..MaxVersion /\ q.key # None
          /\ q.body \notin {"malformed", "schema"}
        BY <1>1, BoundaryDecides
    <2>3. q.table \in Tables /\ q.user \in Users /\ q.body \in {"ok", "domain"}
        BY <2>1, <2>2 DEF PatchSpace, Bodies
    <2>4. q.basis \in Versions(RowOf(q))
        BY <2>1, <2>3 DEF SeenInv, RowOf
    <2> QED BY <2>1, <2>2, <2>3, <2>4, NoneAssumption DEF Admitted, Sound
<1>2. CASE q.kind # "change"
    <2>1. /\ q \in PutSpace
          /\ q.by = c /\ q.kind = "provision" /\ q.key = q.user
          /\ q.body \in {"ok", "malformed", "schema"}
        BY <1>2, RequestFacts
    <2>2. q.body \notin {"malformed", "schema"}
        BY <2>1, BoundaryDecides
    <2>3. q.table \in Tables /\ q.user \in Users
        BY <2>1 DEF PutSpace, Tables
    <2> QED BY <2>1, <2>2, <2>3, NoneAssumption DEF Admitted, Sound
<1> QED BY <1>1, <1>2

-----------------------------------------------------------------------------
(* Rows, their history and the memory.                                     *)

\* The rows keep their shape and their versions stay in range.
RowsInv ==
    /\ rows = [k \in Key |-> rows[k]]
    /\ \A k \in Key :
          /\ rows[k] \in Row(k[1]) \cup {None}
          /\ rows[k] # None => rows[k].version \in 1..MaxVersion

\* What the histories hold are rows, below or at the current version.
LEMMA VersionFacts ==
    ASSUME RowsInv, HistoryInv, NEW k \in Key, NEW b \in Versions(k)
    PROVE  /\ b \in Row(k[1]) /\ b # None /\ rows[k] # None
           /\ b.version \in 1..MaxVersion
           /\ b.version <= rows[k].version
           /\ b # rows[k] => b.version < rows[k].version
<1> USE BoundsAssumption
<1>1. k[1] \in Tables
    BY DEF Key
<1>2. CASE b = rows[k]
    BY <1>2 DEF Versions, Contents, RowsInv
<1>3. CASE b # rows[k]
    <2>1. PICK n \in DOMAIN log[k] : b = log[k][n].before
        BY <1>3 DEF Versions, Contents
    <2>2. rows[k] # None /\ b \in Row(k[1]) /\ b.version < rows[k].version
        BY <2>1 DEF HistoryInv, Entered
    <2>3. rows[k].version \in 1..MaxVersion
        BY <2>2 DEF RowsInv
    <2>4. b.version \in Nat \ {0} /\ b # None
        BY <1>1, <2>2, RowFacts
    <2> QED BY <2>2, <2>3, <2>4
<1> QED BY <1>2, <1>3

\* A version names one content of a row.
LEMMA VersionsUnique ==
    ASSUME RowsInv, HistoryInv, NEW k \in Key, NEW b \in Versions(k),
           NEW d \in Versions(k), b.version = d.version
    PROVE  b = d
<1>1. CASE b # rows[k] /\ d # rows[k]
    <2>1. PICK m \in DOMAIN log[k] : b = log[k][m].before
        BY <1>1 DEF Versions, Contents
    <2>2. PICK n \in DOMAIN log[k] : d = log[k][n].before
        BY <1>1 DEF Versions, Contents
    <2> QED BY <2>1, <2>2 DEF HistoryInv
<1>2. CASE b = rows[k] \/ d = rows[k]
    <2>1. /\ b # rows[k] => b.version < rows[k].version
          /\ d # rows[k] => d.version < rows[k].version
          /\ b.version \in Nat /\ d.version \in Nat /\ rows[k].version \in Nat
        <3>1. rows[k] # None
            BY VersionFacts
        <3> QED BY <3>1, VersionFacts DEF RowsInv
    <2> QED BY <1>2, <2>1
<1> QED BY <1>1, <1>2

\* The parts of an identity name the row, or the user to provision.
LEMMA IdentityFacts ==
    ASSUME NEW i \in Identity
    PROVE  /\ i[2][1] = "change" => <<i[2][2], i[1]>> \in Key
           /\ i[2][1] = "provision" => i[3] \in Users
<1>1. CASE i \in {<<u, <<"change", t>>, k>> : u \in Users, t \in Tables,
                     k \in KeyValues}
    <2>1. PICK u \in Users, t \in Tables : \E k : i = <<u, <<"change", t>>, k>>
        BY <1>1
    <2> QED BY <2>1 DEF Key
<1>2. CASE i \in {<<"identity", <<"provision", "profile">>, u>> : u \in Users}
    BY <1>2
<1> QED BY <1>1, <1>2 DEF Identity

\* An admitted request has a row and an identity of its own kind.
LEMMA AdmittedFacts ==
    ASSUME NEW r, NEW user, NEW versions, Sound(r, user, versions)
    PROVE  /\ RowOf(r) \in Key /\ RowOf(r)[1] = r.table /\ RowOf(r)[2] = r.user
           /\ IdentityOf(r) \in Identity /\ IdentityOf(r)[2][1] = r.kind
           /\ r.kind = "change" => <<IdentityOf(r)[2][2], IdentityOf(r)[1]>> = RowOf(r)
           /\ r.kind = "provision" => IdentityOf(r)[3] = r.user
<1> USE DEF Sound
<1>1. RowOf(r) \in Key /\ RowOf(r)[1] = r.table /\ RowOf(r)[2] = r.user
    BY DEF RowOf, Key
<1>2. CASE r.kind = "change"
    <2>1. IdentityOf(r) = <<r.user, <<"change", r.table>>, r.key>>
        BY <1>2 DEF IdentityOf
    <2>2. r.key \in KeyValues
        BY <1>2 DEF KeyValues
    <2> QED BY <1>1, <1>2, <2>1, <2>2 DEF Identity, RowOf
<1>3. CASE r.kind = "provision"
    <2>1. IdentityOf(r) = <<"identity", <<"provision", "profile">>, r.user>>
        BY <1>3 DEF IdentityOf, PutSpace
    <2> QED BY <1>1, <1>3, <2>1 DEF Identity
<1> QED BY <1>2, <1>3

\* How the data grows: no version is forgotten, no row disappears or goes back,
\* and what is added to a history is the content that was current.
Grows ==
    /\ born \subseteq born' /\ born' \subseteq Key
    /\ \A k \in Key :
          /\ Versions(k) \subseteq Versions(k)'
          /\ rows[k] # None => rows'[k] # None /\ rows[k].version <= rows'[k].version
          /\ \A n \in DOMAIN log'[k] :
                \/ n \in DOMAIN log[k] /\ log'[k][n] = log[k][n]
                \/ log'[k][n].before = rows[k]

DataInv == RowsInv /\ DOMAIN log = Key /\ DOMAIN memory = Identity /\ HistoryInv /\ MemoryInv

\* The content that a change writes.
Edited(r) == Changed(rows[RowOf(r)], r.content)

\* An admitted change that the handler accepts finds the content that its client
\* knows.
LEMMA AcceptedChange ==
    ASSUME RowsInv, HistoryInv, NEW r, Admitted(r), r.kind = "change",
           Outcome(r) = "ok"
    PROVE  LET k == RowOf(r) IN
           /\ rows[k] = r.basis /\ rows[k] # None
           /\ rows[k] \in Row(k[1]) /\ rows[k].version \in 1..MaxVersion
<1> DEFINE k == RowOf(r)
<1>1. k \in Key /\ k[1] = r.table
    BY AdmittedFacts DEF Admitted
<1>2. rows[k] # None /\ rows[k].version = r.if_match
    BY DEF Outcome, MatchesVersion, RowOf
<1>3. r.basis \in Versions(k) /\ r.if_match = r.basis.version
    BY DEF Admitted, Sound
<1>4. rows[k] \in Versions(k)
    BY <1>2 DEF Versions, Contents
<1>5. rows[k] = r.basis
    BY <1>1, <1>2, <1>3, <1>4, VersionsUnique
<1>6. rows[k] \in Row(k[1]) /\ rows[k].version \in 1..MaxVersion
    BY <1>1, <1>2 DEF RowsInv
<1> QED BY <1>2, <1>5, <1>6

\* If it changes that content, it leaves the next version of it.
LEMMA ChangeOutcome ==
    ASSUME RowsInv, HistoryInv, NEW r, Admitted(r), r.kind = "change",
           Outcome(r) = "ok", Changes(rows[RowOf(r)], r.content)
    PROVE  LET k == RowOf(r) IN
           /\ rows[k] = r.basis /\ rows[k] # None
           /\ Edited(r) = Applied(rows[k], r.content)
           /\ Edited(r) \in Row(k[1])
           /\ Edited(r).version \in 1..MaxVersion
           /\ Edited(r).version = rows[k].version + 1
<1> DEFINE k == RowOf(r)
<1>1. k \in Key /\ k[1] = r.table
    BY AdmittedFacts DEF Admitted
<1>2. /\ rows[k] = r.basis /\ rows[k] # None
      /\ rows[k] \in Row(k[1]) /\ rows[k].version \in 1..MaxVersion
    BY AcceptedChange
<1>3. PICK m \in Commands : m.kind = "change" /\ m.table = r.table /\ m.patch = r.content
    BY DEF Admitted, Sound
<1>4. KeyOf(m)[1] = r.table
    BY <1>3, CommandFacts
<1>5. /\ Edited(r) \in Row(k[1])
      /\ Edited(r).version = rows[k].version + 1
    BY <1>1, <1>2, <1>3, <1>4, ChangedRow DEF Edited
<1>6. rows[k].version # MaxVersion
    BY <1>2 DEF Outcome, RowOf
<1>7. Edited(r) = Applied(rows[k], r.content)
    BY DEF Edited, Applied
<1> HIDE DEF k
<1> QED BY <1>2, <1>5, <1>6, <1>7, BoundsAssumption DEF k

\* A history that holds on to what it had keeps every admitted request admitted.
LEMMA AdmittedStays ==
    ASSUME Grows, session' = session, NEW r, Admitted(r)
    PROVE  Sound(r, session'[r.by], Contents(rows'[RowOf(r)], log'[RowOf(r)]))
<1>1. RowOf(r) \in Key
    BY AdmittedFacts DEF Admitted
<1>2. Contents(rows[RowOf(r)], log[RowOf(r)]) \subseteq
          Contents(rows'[RowOf(r)], log'[RowOf(r)])
    BY <1>1 DEF Grows, Versions
<1> QED BY <1>2 DEF Admitted, Sound, Versions

\* The memory after a step that adds one result.
LEMMA MemoryGrows ==
    ASSUME DataInv, Grows, NEW i \in Identity, NEW m,
           memory' = [memory EXCEPT ![i] = m],
           LET k == <<i[2][2], i[1]>> IN
           /\ i[2][1] = "change" =>
                 /\ m.doc \in Contents(rows'[k], log'[k])
                 /\ \E b \in Contents(rows'[k], log'[k]) :
                       b.version = m.fp[2] /\ m.doc = Applied(b, m.fp[4])
           /\ i[2][1] = "provision" => \A t \in Tables : rows'[<<t, i[3]>>] # None
    PROVE  MemoryInv' /\ DOMAIN memory' = Identity
<1>1. DOMAIN memory' = Identity
    BY DEF DataInv
<1>2. ASSUME NEW j \in Identity, memory'[j] # None
      PROVE  LET k == <<j[2][2], j[1]>> IN
             /\ j[2][1] = "change" =>
                   /\ memory'[j].doc \in Contents(rows'[k], log'[k])
                   /\ \E b \in Contents(rows'[k], log'[k]) :
                         /\ b.version = memory'[j].fp[2]
                         /\ memory'[j].doc = Applied(b, memory'[j].fp[4])
             /\ j[2][1] = "provision" => \A t \in Tables : rows'[<<t, j[3]>>] # None
    <2>1. CASE j = i
        <3>1. memory'[j] = m
            BY <2>1 DEF DataInv
        <3> QED BY <2>1, <3>1
    <2>2. CASE j # i
        <3>1. memory'[j] = memory[j]
            BY <2>2 DEF DataInv
        <3>2. CASE j[2][1] = "change"
            <4> DEFINE k == <<j[2][2], j[1]>>
            <4>1. k \in Key
                BY <3>2, IdentityFacts
            <4>2. Contents(rows[k], log[k]) \subseteq Contents(rows'[k], log'[k])
                BY <4>1 DEF Grows, Versions
            <4>3. /\ memory[j].doc \in Contents(rows[k], log[k])
                  /\ \E b \in Contents(rows[k], log[k]) :
                        /\ b.version = memory[j].fp[2]
                        /\ memory[j].doc = Applied(b, memory[j].fp[4])
                BY <1>2, <3>1, <3>2 DEF DataInv, MemoryInv, Versions
            <4> QED BY <3>1, <3>2, <4>2, <4>3
        <3>3. CASE j[2][1] = "provision"
            <4>1. j[3] \in Users
                BY <3>3, IdentityFacts
            <4>2. \A t \in Tables : rows[<<t, j[3]>>] # None
                BY <1>2, <3>1, <3>3 DEF DataInv, MemoryInv
            <4>3. \A t \in Tables : <<t, j[3]>> \in Key
                BY <4>1 DEF Key
            <4> QED BY <3>3, <4>2, <4>3 DEF Grows
        <3>4. CASE j[2][1] \notin {"change", "provision"}
            BY <3>4
        <3> QED BY <3>2, <3>3, <3>4
    <2> QED BY <2>1, <2>2
<1> QED BY <1>1, <1>2 DEF MemoryInv, Versions

\* The result of an admitted request is something to remember.
LEMMA RememberedResult ==
    ASSUME RowsInv, HistoryInv, NEW r, Admitted(r), NEW doc,
           r.kind = "change" => doc \in Rows,
           r.kind = "provision" => doc = None
    PROVE  [fp |-> Fingerprint(r), doc |-> doc] # None
<1>1. CASE r.kind = "change"
    <2>1. RowOf(r)[1] \in Tables /\ RowOf(r) \in Key
        BY AdmittedFacts DEF Admitted, Key
    <2>2. r.basis \in Versions(RowOf(r)) /\ r.if_match = r.basis.version
        BY <1>1 DEF Admitted, Sound
    <2>3. r.if_match \in Nat
        BY <2>1, <2>2, VersionFacts
    <2>4. r.user \in Users /\ r.body \in Bodies /\ r.content \in Patches
        BY <1>1 DEF Admitted, Sound, PatchSpace
    <2> QED BY <1>1, <2>3, <2>4, NoneAssumption DEF PatchMemory, Fingerprint
<1>2. CASE r.kind = "provision"
    <2>1. /\ r.user \in Users /\ r.body \in Bodies
          /\ r.content \in {"past", "future"} /\ r.if_match = None
        BY <1>2 DEF Admitted, Sound, PutSpace
    <2> QED BY <1>2, <2>1, NoneAssumption DEF PutMemory, Fingerprint
<1> QED BY <1>1, <1>2 DEF Admitted, Sound

\* An entry of a history stays valid while the data grows and memories end only
\* by expiring.
LEMMA EntryStays ==
    ASSUME DataInv, Grows, session' = session, RowsInv',
           \A i \in Identity :
               /\ memory'[i] = None => memory[i] = None \/ expired'[i] > 0
               /\ expired[i] \in Nat /\ expired'[i] \in Nat /\ expired[i] <= expired'[i],
           NEW k \in Key, NEW n \in DOMAIN log[k]
    PROVE  Entered(log[k][n], k, rows'[k], log'[k], session', memory', expired')
<1> DEFINE e == log[k][n]
<1>1. Entered(e, k, rows[k], log[k], session, memory, expired)
    BY DEF DataInv, HistoryInv
<1> HIDE DEF e
<1>2. rows'[k] # None /\ rows[k].version <= rows'[k].version
    BY <1>1 DEF Entered, Grows
<1>3. rows[k].version \in Nat /\ rows'[k].version \in Nat /\ e.before.version \in Nat
    <2>1. rows[k].version \in Nat /\ rows'[k].version \in Nat
        BY <1>1, <1>2, BoundsAssumption DEF Entered, DataInv, RowsInv
    <2>2. k[1] \in Tables
        BY DEF Key
    <2>3. e.before.version \in Nat
        BY <1>1, <2>2, RowFacts DEF Entered
    <2> QED BY <2>1, <2>3
<1>4. Sound(e.request, session'[e.request.by], Contents(rows'[k], log'[k]))
    <2>1. Admitted(e.request) /\ RowOf(e.request) = k
        BY <1>1 DEF Entered, Admitted, Versions
    <2> QED BY <2>1, AdmittedStays
<1>5. IdentityOf(e.request) \in Identity
    BY <1>1, AdmittedFacts DEF Entered
<1> QED BY <1>1, <1>2, <1>3, <1>4, <1>5 DEF Entered, e

\* The abstract rows are these rows.
LEMMA SameData ==
    Abstract!Key = Key /\ \A t : Abstract!CreateDefault(t) = CreateDefault(t)
BY DEF Abstract!Key, Abstract!Tables, Key, Tables, Abstract!CreateDefault,
       Abstract!Default, CreateDefault, Default

\* Provisioning keeps the data in order.
LEMMA ProvisionData ==
    ASSUME DataInv, NEW r, Admitted(r), r.kind = "provision", born \subseteq Key,
           Abstract!ApplyProvision(r.user),
           born' = IF r.content = "past" \/ clock = "after" THEN born
                   ELSE born \cup {j \in Key : j[2] = r.user /\ rows[j] = None},
           memory' = [memory EXCEPT ![IdentityOf(r)] =
                         [fp |-> Fingerprint(r), doc |-> None]],
           UNCHANGED <<log, session, expired>>,
           expired \in [Identity -> Nat]
    PROVE  Grows /\ DataInv'
<1> USE DEF DataInv
<1> DEFINE i == IdentityOf(r)
<1>a. i \in Identity /\ i[2][1] = "provision" /\ i[3] = r.user /\ r.user \in Users
    BY AdmittedFacts DEF Admitted, Sound
<1>1. ASSUME NEW k \in Key
      PROVE  /\ rows[k] # None => rows'[k] = rows[k]
             /\ rows[k] = None /\ k[2] = r.user => rows'[k] = CreateDefault(k[1])
             /\ rows[k] = None /\ k[2] # r.user => rows'[k] = None
    BY SameData DEF Abstract!ApplyProvision
<1>2. ASSUME NEW k \in Key
      PROVE  k[1] \in Tables /\ CreateDefault(k[1]) \in Row(k[1])
             /\ CreateDefault(k[1]).version = 1 /\ CreateDefault(k[1]) # None
    <2>1. k[1] \in Tables
        BY DEF Key
    <2> QED BY <2>1, DefaultRow, RowFacts
<1>3. RowsInv'
    <2>1. rows' = [k \in Key |-> rows'[k]]
        BY SameData DEF Abstract!ApplyProvision
    <2>2. ASSUME NEW k \in Key
          PROVE  /\ rows'[k] \in Row(k[1]) \cup {None}
                 /\ rows'[k] # None => rows'[k].version \in 1..MaxVersion
        BY <1>1, <1>2, BoundsAssumption DEF RowsInv
    <2> QED BY <2>1, <2>2 DEF RowsInv
<1>4. Grows
    <2>1. born \subseteq born' /\ born' \subseteq Key
        OBVIOUS
    <2>2. ASSUME NEW k \in Key
          PROVE  Contents(rows[k], log[k]) \subseteq Contents(rows'[k], log'[k])
        BY <1>1 DEF Contents
    <2>3. ASSUME NEW k \in Key, rows[k] # None
          PROVE  rows'[k] # None /\ rows[k].version <= rows'[k].version
        BY <1>1, <2>3, BoundsAssumption DEF RowsInv
    <2> QED BY <2>1, <2>2, <2>3 DEF Grows, Versions
<1>5. MemoryInv' /\ DOMAIN memory' = Identity
    <2>1. \A t \in Tables : rows'[<<t, r.user>>] # None
        <3>1. ASSUME NEW t \in Tables PROVE rows'[<<t, r.user>>] # None
            <4>1. <<t, r.user>> \in Key /\ <<t, r.user>>[2] = r.user
                BY <1>a DEF Key
            <4> QED BY <4>1, <1>1, <1>2
        <3> QED BY <3>1
    <2> HIDE DEF DataInv
    <2> QED BY <1>a, <1>4, <2>1, MemoryGrows
<1>6. memory'[i] # None
    BY <1>a, RememberedResult
<1>7. \A j \in Identity :
          /\ memory'[j] = None => memory[j] = None \/ expired'[j] > 0
          /\ expired[j] \in Nat /\ expired'[j] \in Nat /\ expired[j] <= expired'[j]
    <2>1. \A j \in Identity : memory'[j] = None => memory[j] = None
        BY <1>a, <1>6
    <2>2. \A j \in Identity : expired[j] \in Nat /\ expired'[j] = expired[j]
        OBVIOUS
    <2> QED BY <2>1, <2>2
<1>8. HistoryInv'
    <2>1. ASSUME NEW k \in Key, NEW n \in DOMAIN log[k]
          PROVE  Entered(log[k][n], k, rows'[k], log'[k], session', memory', expired')
        BY <1>3, <1>4, <1>7, EntryStays
    <2>2. \A k \in Key :
            /\ log'[k] \in Seq([request : PatchSpace, before : Rows])
            /\ \A n \in DOMAIN log'[k] :
                  Entered(log'[k][n], k, rows'[k], log'[k], session', memory', expired')
            /\ \A m, n \in DOMAIN log'[k] :
                  log'[k][m].before.version = log'[k][n].before.version => m = n
        BY <2>1 DEF HistoryInv
    <2> QED BY <2>2 DEF HistoryInv
<1> QED BY <1>3, <1>4, <1>5, <1>8

\* A change keeps the data in order: the history of the row gets the content that
\* was current, once.
LEMMA ChangeData ==
    ASSUME DataInv, NEW r, Admitted(r), r.kind = "change", born \subseteq Key,
           Outcome(r) = "ok", Changes(rows[RowOf(r)], r.content),
           rows' = [rows EXCEPT ![RowOf(r)] = Edited(r)],
           log' = [log EXCEPT ![RowOf(r)] =
                      Append(@, [request |-> r, before |-> rows[RowOf(r)]])],
           memory' = [memory EXCEPT ![IdentityOf(r)] =
                         [fp |-> Fingerprint(r), doc |-> Edited(r)]],
           UNCHANGED <<born, session, expired>>,
           expired \in [Identity -> Nat]
    PROVE  Grows /\ DataInv' /\ DOMAIN log' = Key
<1> DEFINE k == RowOf(r)
           e == [request |-> r, before |-> rows[k]]
           i == IdentityOf(r)
<1>a. /\ RowsInv /\ HistoryInv /\ MemoryInv
      /\ DOMAIN log = Key /\ DOMAIN memory = Identity
      /\ rows = [j \in Key |-> rows[j]]
    BY DEF DataInv, RowsInv
<1>b. /\ k \in Key /\ k[1] \in Tables /\ i \in Identity /\ i[2][1] = "change"
      /\ <<i[2][2], i[1]>> = k
    BY AdmittedFacts DEF Admitted, Sound
<1>c. /\ rows[k] = r.basis /\ rows[k] # None
      /\ Edited(r) = Applied(rows[k], r.content)
      /\ Edited(r) \in Row(k[1])
      /\ Edited(r).version \in 1..MaxVersion
      /\ Edited(r).version = rows[k].version + 1
    BY <1>a, ChangeOutcome
<1>d. /\ rows[k] \in Row(k[1]) /\ rows[k].version \in 1..MaxVersion
      /\ rows[k] \in Rows /\ Edited(r) # None /\ Edited(r) \in Rows
    BY <1>a, <1>b, <1>c, RowFacts DEF RowsInv
<1>e. r \in PatchSpace /\ r.if_match = r.basis.version
    BY DEF Admitted, Sound
<1>f. /\ rows'[k] = Edited(r)
      /\ \A j \in Key \ {k} : rows'[j] = rows[j] /\ log'[j] = log[j]
      /\ log'[k] = Append(log[k], e)
      /\ DOMAIN log' = Key
    BY <1>a, <1>b
<1>g. log[k] \in Seq([request : PatchSpace, before : Rows]) /\ e \in [request : PatchSpace, before : Rows]
    BY <1>a, <1>b, <1>d, <1>e DEF HistoryInv
<1> HIDE DEF k, i
<1>h. /\ DOMAIN Append(log[k], e) = 1 .. Len(log[k]) + 1
      /\ DOMAIN log[k] = 1 .. Len(log[k]) /\ Len(log[k]) \in Nat
      /\ \A n \in 1 .. Len(log[k]) : Append(log[k], e)[n] = log[k][n]
      /\ Append(log[k], e)[Len(log[k]) + 1] = e
    <2> HIDE DEF e
    <2> QED BY <1>g
<1>1. RowsInv'
    <2>1. rows' = [j \in Key |-> rows'[j]]
        BY <1>a
    <2>2. ASSUME NEW j \in Key
          PROVE  /\ rows'[j] \in Row(j[1]) \cup {None}
                 /\ rows'[j] # None => rows'[j].version \in 1..MaxVersion
        <3>1. CASE j = k
            BY <1>c, <1>f, <3>1
        <3>2. CASE j # k
            BY <1>a, <1>f, <3>2 DEF RowsInv
        <3> QED BY <3>1, <3>2
    <2> QED BY <2>1, <2>2 DEF RowsInv
<1>2. Contents(rows[k], log[k]) \subseteq Contents(rows'[k], log'[k])
    <2>1. Append(log[k], e)[Len(log[k]) + 1].before = rows[k]
        BY <1>h
    <2>2. ASSUME NEW b \in Contents(rows[k], log[k])
          PROVE  \E n \in 1 .. Len(log[k]) + 1 : b = Append(log[k], e)[n].before
        <3>1. CASE b = rows[k]
            BY <1>h, <2>1, <3>1
        <3>2. CASE b # rows[k]
            <4>1. PICK n \in DOMAIN log[k] : b = log[k][n].before
                BY <3>2 DEF Contents
            <4> QED BY <4>1, <1>h
        <3> QED BY <3>1, <3>2
    <2> QED BY <1>f, <2>2, <1>h DEF Contents
<1>3. Grows
    <2>1. ASSUME NEW j \in Key
          PROVE  Contents(rows[j], log[j]) \subseteq Contents(rows'[j], log'[j])
        BY <1>2, <1>f
    <2>2. ASSUME NEW j \in Key, rows[j] # None
          PROVE  rows'[j] # None /\ rows[j].version <= rows'[j].version
        <3>1. rows[j].version \in Nat
            BY <1>a, <2>2, BoundsAssumption DEF RowsInv
        <3>2. CASE j = k
            BY <1>c, <1>d, <1>f, <3>1, <3>2
        <3>3. CASE j # k
            BY <1>f, <2>2, <3>1, <3>3
        <3> QED BY <3>2, <3>3
    <2>3. ASSUME NEW j \in Key, NEW n \in DOMAIN log'[j]
          PROVE  \/ n \in DOMAIN log[j] /\ log'[j][n] = log[j][n]
                 \/ log'[j][n].before = rows[j]
        <3>1. CASE log'[j] = log[j]
            BY <2>3, <3>1
        <3>2. CASE log'[j] # log[j]
            <4>1. j = k /\ log'[k] = Append(log[k], e)
                BY <1>f, <3>2
            <4>2. CASE n = Len(log[k]) + 1
                BY <1>h, <4>1, <4>2
            <4>3. CASE n # Len(log[k]) + 1
                BY <1>h, <2>3, <4>1, <4>3
            <4> QED BY <4>2, <4>3
        <3> QED BY <3>1, <3>2
    <2>4. born \subseteq born' /\ born' \subseteq Key
        OBVIOUS
    <2> QED BY <2>1, <2>2, <2>3, <2>4 DEF Grows, Versions
<1>4. rows'[k] \in Contents(rows'[k], log'[k]) /\ rows[k] \in Contents(rows'[k], log'[k])
    <2>1. rows[k] \in Contents(rows[k], log[k])
        BY <1>c DEF Contents
    <2> QED BY <2>1, <1>2, <1>d, <1>f DEF Contents
<1>5. MemoryInv' /\ DOMAIN memory' = Identity
    <2> DEFINE m == [fp |-> Fingerprint(r), doc |-> Edited(r)]
    <2>1. memory' = [memory EXCEPT ![i] = m]
        BY DEF i
    <2>2. m.doc = rows'[k] /\ m.fp[2] = rows[k].version /\ m.fp[4] = r.content
        BY <1>c, <1>e, <1>f DEF Fingerprint
    <2>3. m.doc = Applied(rows[k], m.fp[4])
        BY <1>c, <2>2
    <2> HIDE DEF m
    <2>4. \E b \in Contents(rows'[k], log'[k]) :
              b.version = m.fp[2] /\ m.doc = Applied(b, m.fp[4])
        BY <1>4, <2>2, <2>3
    <2>5. m.doc \in Contents(rows'[k], log'[k])
        BY <1>4, <2>2
    <2>6. LET j == <<i[2][2], i[1]>> IN
          /\ i[2][1] = "change" =>
                /\ m.doc \in Contents(rows'[j], log'[j])
                /\ \E b \in Contents(rows'[j], log'[j]) :
                      b.version = m.fp[2] /\ m.doc = Applied(b, m.fp[4])
          /\ i[2][1] = "provision" => \A t \in Tables : rows'[<<t, i[3]>>] # None
        BY <1>b, <2>4, <2>5
    <2> QED BY <1>3, <1>b, <2>1, <2>6, MemoryGrows
<1>6. memory'[i] # None
    BY <1>a, <1>b, <1>d, RememberedResult DEF i
<1>7. \A j \in Identity :
          /\ memory'[j] = None => memory[j] = None \/ expired'[j] > 0
          /\ expired[j] \in Nat /\ expired'[j] \in Nat /\ expired[j] <= expired'[j]
    <2>1. \A j \in Identity : memory'[j] = None => memory[j] = None
        BY <1>a, <1>b, <1>6 DEF i
    <2>2. \A j \in Identity : expired[j] \in Nat /\ expired'[j] = expired[j]
        OBVIOUS
    <2> QED BY <2>1, <2>2
<1>8. ASSUME NEW j \in Key, NEW n \in DOMAIN log[j]
      PROVE  Entered(log[j][n], j, rows'[j], log'[j], session', memory', expired')
    BY <1>1, <1>3, <1>7, EntryStays
<1>9. Entered(e, k, rows'[k], log'[k], session', memory', expired')
    <2>1. Sound(r, session'[r.by], Contents(rows'[k], log'[k]))
        BY <1>3, AdmittedStays DEF k
    <2>2. rows[k].version < rows'[k].version
        BY <1>c, <1>d, <1>f
    <2> QED BY <1>c, <1>d, <1>f, <1>6, <2>1, <2>2 DEF Entered, k, i
<1>10. ASSUME NEW n \in DOMAIN log[k] PROVE log[k][n].before.version # rows[k].version
    <2>1. Entered(log[k][n], k, rows[k], log[k], session, memory, expired)
        BY <1>a, <1>b DEF HistoryInv
    <2>2. log[k][n].before.version \in Nat
        BY <2>1, <1>b, RowFacts DEF Entered
    <2> QED BY <1>d, <2>1, <2>2 DEF Entered
<1>11. ASSUME NEW j \in Key
       PROVE  /\ log'[j] \in Seq([request : PatchSpace, before : Rows])
              /\ \A n \in DOMAIN log'[j] :
                    Entered(log'[j][n], j, rows'[j], log'[j], session', memory', expired')
              /\ \A m, n \in DOMAIN log'[j] :
                    log'[j][m].before.version = log'[j][n].before.version => m = n
    <2>1. CASE log'[j] = log[j]
        <3>1. /\ log[j] \in Seq([request : PatchSpace, before : Rows])
              /\ \A m, n \in DOMAIN log[j] :
                    log[j][m].before.version = log[j][n].before.version => m = n
            BY <1>a DEF HistoryInv
        <3>2. \A n \in DOMAIN log[j] :
                  Entered(log[j][n], j, rows'[j], log'[j], session', memory', expired')
            BY <1>8
        <3>3. log'[j] \in Seq([request : PatchSpace, before : Rows])
            BY <2>1, <3>1
        <3>4. \A n \in DOMAIN log'[j] :
                  Entered(log'[j][n], j, rows'[j], log'[j], session', memory', expired')
            BY <2>1, <3>2
        <3>5. \A m, n \in DOMAIN log'[j] :
                  log'[j][m].before.version = log'[j][n].before.version => m = n
            BY <2>1, <3>1
        <3> QED BY <3>3, <3>4, <3>5
    <2>2. CASE log'[j] # log[j]
        <3>1. j = k /\ log'[k] = Append(log[k], e)
            BY <1>f, <2>2
        <3>2. log'[k] \in Seq([request : PatchSpace, before : Rows])
            <4> DEFINE S == [request : PatchSpace, before : Rows]
            <4>1. log[k] \in Seq(S) /\ e \in S
                BY <1>g
            <4> HIDE DEF e, S
            <4>2. Append(log[k], e) \in Seq(S)
                BY <4>1
            <4> QED BY <3>1, <4>2 DEF S
        <3>3. ASSUME NEW n \in DOMAIN log'[k]
              PROVE  Entered(log'[k][n], k, rows'[k], log'[k], session', memory', expired')
            <4>1. CASE n = Len(log[k]) + 1
                <5>1. log'[k][n] = e
                    BY <1>h, <3>1, <4>1
                <5> QED BY <1>9, <3>1, <5>1
            <4>2. CASE n # Len(log[k]) + 1
                <5>1. n \in DOMAIN log[k] /\ log'[k][n] = log[k][n]
                    BY <1>h, <3>1, <3>3, <4>2
                <5> QED BY <1>8, <1>b, <5>1
            <4> QED BY <4>1, <4>2
        <3>4. ASSUME NEW m \in DOMAIN log'[k], NEW n \in DOMAIN log'[k],
                     log'[k][m].before.version = log'[k][n].before.version
              PROVE  m = n
            <4>1. \A x, y \in DOMAIN log[k] :
                      log[k][x].before.version = log[k][y].before.version => x = y
                BY <1>a, <1>b DEF HistoryInv
            <4>2. /\ m \in 1 .. Len(log[k]) + 1 /\ n \in 1 .. Len(log[k]) + 1
                  /\ m # Len(log[k]) + 1 => m \in DOMAIN log[k] /\ log'[k][m] = log[k][m]
                  /\ n # Len(log[k]) + 1 => n \in DOMAIN log[k] /\ log'[k][n] = log[k][n]
                BY <1>h, <3>1
            <4>3. log'[k][Len(log[k]) + 1].before.version = rows[k].version
                BY <1>h, <3>1
            <4> QED BY <1>10, <3>4, <4>1, <4>2, <4>3
        <3>5. j = k
            BY <3>1
        <3>6. \A n \in DOMAIN log'[k] :
                  Entered(log'[k][n], k, rows'[k], log'[k], session', memory', expired')
            BY <3>3
        <3>7. \A m, n \in DOMAIN log'[k] :
                  log'[k][m].before.version = log'[k][n].before.version => m = n
            BY <3>4
        <3>8. log'[j] \in Seq([request : PatchSpace, before : Rows])
            BY <3>2, <3>5
        <3>9. \A n \in DOMAIN log'[j] :
                  Entered(log'[j][n], j, rows'[j], log'[j], session', memory', expired')
            BY <3>5, <3>6
        <3>10. \A m, n \in DOMAIN log'[j] :
                  log'[j][m].before.version = log'[j][n].before.version => m = n
            BY <3>5, <3>7
        <3> QED BY <3>8, <3>9, <3>10
    <2> QED BY <2>1, <2>2
<1>12. HistoryInv'
    BY <1>11 DEF HistoryInv
<1> QED BY <1>1, <1>3, <1>5, <1>12, <1>f DEF DataInv

\* What is remembered was returned by a handler.
DocInv == \A i \in Identity : memory[i] = None \/ memory[i].doc \in Rows \cup {None}

\* Everything the service stores.
StoreInv ==
    /\ DataInv /\ DocInv /\ born \subseteq Key
    /\ expired \in [Identity -> 0..MaxExpiries]

\* What an execution that succeeds has found, and what it returns.
LEMMA ResultFacts ==
    ASSUME RowsInv, HistoryInv, KeptInv, NEW a \in Attempts, Admitted(req[a]), Succeeds(a)
    PROVE  LET r == req[a] IN
           /\ r.kind = "provision" => kept[a] = None /\ Result(a) = None
           /\ r.kind = "change" =>
                 /\ Result(a) \in Rows
                 /\ Result(a) = Applied(r.basis, r.content)
                 /\ kept[a] # None => Result(a) = r.basis
                 /\ kept[a] = None => /\ Outcome(r) = "ok"
                                      /\ Changes(rows[RowOf(r)], r.content)
                                      /\ Result(a) = Edited(r)
<1> DEFINE r == req[a]
           k == RowOf(r)
<1>1. CASE r.kind = "provision"
    BY <1>1 DEF KeptInv, Result
<1>2. CASE r.kind = "change" /\ kept[a] # None
    <2>1. /\ kept[a] = r.basis /\ ~Changes(kept[a], r.content)
          /\ kept[a] \in Rows
        BY <1>2 DEF KeptInv
    <2>2. Result(a) = kept[a]
        BY <1>2 DEF Result
    <2> QED BY <1>2, <2>1, <2>2 DEF Applied
<1>3. CASE r.kind = "change" /\ kept[a] = None
    <2>1. Outcome(r) = "ok" /\ Changes(rows[k], r.content)
        BY <1>3 DEF Succeeds, RowOf
    <2>2. Result(a) = Edited(r)
        BY <1>3 DEF Result, Edited, RowOf
    <2>3. /\ rows[k] = r.basis /\ Edited(r) = Applied(rows[k], r.content)
          /\ Edited(r) \in Row(k[1])
        BY <1>3, <2>1, ChangeOutcome
    <2>4. k[1] \in Tables
        BY AdmittedFacts DEF Admitted, Key
    <2>5. Edited(r) \in Rows
        BY <2>3, <2>4, RowFacts
    <2> QED BY <1>3, <2>1, <2>2, <2>3, <2>5
<1>4. r.kind \in {"change", "provision"}
    BY DEF Admitted, Sound
<1> QED BY <1>1, <1>2, <1>3, <1>4

\* An edit that changes nothing leaves the rows alone, whatever has become of its
\* row, and remembers the content that it was based on.
LEMMA KeptData ==
    ASSUME DataInv, NEW r, Admitted(r), r.kind = "change", born \subseteq Key,
           r.basis = Applied(r.basis, r.content), r.basis \in Rows,
           memory' = [memory EXCEPT ![IdentityOf(r)] =
                         [fp |-> Fingerprint(r), doc |-> r.basis]],
           UNCHANGED <<rows, born, log, session, expired>>,
           expired \in [Identity -> Nat]
    PROVE  Grows /\ DataInv'
<1> USE DEF DataInv
<1> DEFINE k == RowOf(r)
           i == IdentityOf(r)
           m == [fp |-> Fingerprint(r), doc |-> r.basis]
<1>1. i \in Identity /\ i[2][1] = "change" /\ <<i[2][2], i[1]>> = k /\ k \in Key
    BY AdmittedFacts DEF Admitted, Sound
<1>2. RowsInv'
    BY DEF RowsInv
<1>3. Grows
    <2>1. \A j \in Key : rows[j] # None => rows[j].version <= rows[j].version
        BY BoundsAssumption DEF RowsInv
    <2> QED BY <2>1 DEF Grows, Versions
<1>4. r.basis \in Contents(rows'[k], log'[k]) /\ r.if_match = r.basis.version
    BY DEF Admitted, Sound, Versions
<1>5. m.doc = r.basis /\ m.fp[2] = r.basis.version /\ m.fp[4] = r.content
    BY <1>4 DEF Fingerprint
<1>6. memory'[i] # None
    BY <1>1, RememberedResult
<1>7. memory' = [memory EXCEPT ![i] = m]
    OBVIOUS
<1> HIDE DEF m, i, k, DataInv
<1>8. MemoryInv' /\ DOMAIN memory' = Identity
    <2>1. /\ m.doc \in Contents(rows'[k], log'[k])
          /\ \E b \in Contents(rows'[k], log'[k]) :
                b.version = m.fp[2] /\ m.doc = Applied(b, m.fp[4])
        BY <1>4, <1>5
    <2> QED BY <1>1, <1>3, <1>7, <2>1, MemoryGrows
<1>9. \A j \in Identity :
          /\ memory'[j] = None => memory[j] = None \/ expired'[j] > 0
          /\ expired[j] \in Nat /\ expired'[j] \in Nat /\ expired[j] <= expired'[j]
    <2>1. \A j \in Identity : memory'[j] = None => memory[j] = None
        BY <1>1, <1>6, <1>7 DEF DataInv
    <2>2. \A j \in Identity : expired[j] \in Nat /\ expired'[j] = expired[j]
        OBVIOUS
    <2> QED BY <2>1, <2>2
<1>10. HistoryInv'
    <2>1. ASSUME NEW j \in Key, NEW n \in DOMAIN log[j]
          PROVE  Entered(log[j][n], j, rows'[j], log'[j], session', memory', expired')
        BY <1>2, <1>3, <1>9, EntryStays
    <2>2. \A j \in Key :
            /\ log'[j] \in Seq([request : PatchSpace, before : Rows])
            /\ \A n \in DOMAIN log'[j] :
                  Entered(log'[j][n], j, rows'[j], log'[j], session', memory', expired')
            /\ \A x, n \in DOMAIN log'[j] :
                  log'[j][x].before.version = log'[j][n].before.version => x = n
        BY <2>1 DEF DataInv, HistoryInv
    <2> QED BY <2>2 DEF HistoryInv
<1> QED BY <1>2, <1>3, <1>8, <1>10 DEF DataInv

\* An execution keeps the data in order.
LEMMA EffectData ==
    ASSUME StoreInv, KeptInv, NEW a \in Attempts, Admitted(req[a]), Succeeds(a),
           Effect(a), UNCHANGED <<session, expired>>
    PROVE  Grows /\ StoreInv'
<1> DEFINE r == req[a]
           k == RowOf(r)
<1>1. expired \in [Identity -> Nat] /\ DataInv /\ born \subseteq Key
    BY BoundsAssumption DEF StoreInv
<1>2. r.kind \in {"change", "provision"}
    BY DEF Admitted, Sound
<1>3. /\ r.kind = "provision" => kept[a] = None /\ Result(a) = None
      /\ r.kind = "change" =>
            /\ Result(a) \in Rows
            /\ Result(a) = Applied(r.basis, r.content)
            /\ kept[a] # None => Result(a) = r.basis
            /\ kept[a] = None => /\ Outcome(r) = "ok"
                                 /\ Changes(rows[k], r.content)
                                 /\ Result(a) = Edited(r)
    BY <1>1, ResultFacts DEF DataInv
<1>4. memory' = [memory EXCEPT ![IdentityOf(r)] =
                    [fp |-> Fingerprint(r), doc |-> Result(a)]]
    BY DEF Effect
<1>5. Grows /\ DataInv'
    <2>1. CASE r.kind = "provision"
        <3>1. /\ Abstract!ApplyProvision(r.user)
              /\ born' = IF r.content = "past" \/ clock = "after" THEN born
                         ELSE born \cup {j \in Key : j[2] = r.user /\ rows[j] = None}
              /\ log' = log
            BY <1>3, <2>1 DEF Effect
        <3> QED BY <1>1, <1>3, <1>4, <2>1, <3>1, ProvisionData
    <2>2. CASE r.kind = "change" /\ kept[a] = None
        <3>1. /\ rows' = [rows EXCEPT ![k] = Result(a)] /\ born' = born
              /\ log' = [log EXCEPT ![k] = Append(@, [request |-> r, before |-> rows[k]])]
            BY <2>2 DEF Effect, RowOf
        <3> QED BY <1>1, <1>3, <1>4, <2>2, <3>1, ChangeData
    <2>3. CASE r.kind = "change" /\ kept[a] # None
        <3>1. UNCHANGED <<rows, born, log>>
            BY <2>3 DEF Effect
        <3>2. /\ r.basis = Applied(r.basis, r.content) /\ r.basis \in Rows
              /\ memory' = [memory EXCEPT ![IdentityOf(r)] =
                               [fp |-> Fingerprint(r), doc |-> r.basis]]
            BY <1>3, <1>4, <2>3
        <3> QED BY <1>1, <2>3, <3>1, <3>2, KeptData
    <2> QED BY <1>2, <2>1, <2>2, <2>3
<1>6. DocInv'
    <2>1. DOMAIN memory = Identity
        BY DEF StoreInv, DataInv
    <2>2. Result(a) \in Rows \cup {None}
        BY <1>2, <1>3
    <2> HIDE DEF r
    <2> QED BY <1>4, <2>1, <2>2 DEF StoreInv, DocInv
<1>7. born' \subseteq Key
    BY <1>5 DEF Grows
<1> QED BY <1>5, <1>6, <1>7 DEF StoreInv

\* The end of a retention keeps the data in order.
LEMMA ExpireData ==
    ASSUME StoreInv, NEW i \in Identity, Expire(i)
    PROVE  Grows /\ StoreInv' /\ \A j \in Identity : expired[j] <= expired'[j]
<1>1. /\ memory' = [memory EXCEPT ![i] = None]
      /\ expired[i] < MaxExpiries
      /\ expired' = [expired EXCEPT ![i] = @ + 1]
      /\ UNCHANGED <<rows, born, log, session>>
    BY DEF Expire, deployment, database
<1>2. DOMAIN memory = Identity /\ expired \in [Identity -> 0..MaxExpiries]
    BY DEF StoreInv, DataInv
<1>3. expired' \in [Identity -> 0..MaxExpiries]
    BY <1>1, <1>2, BoundsAssumption
<1>4. \A j \in Identity : /\ expired[j] \in Nat /\ expired'[j] \in Nat
                          /\ expired[j] <= expired'[j]
                          /\ memory'[j] = None => memory[j] = None \/ expired'[j] > 0
                          /\ memory'[j] # None => memory'[j] = memory[j]
    BY <1>1, <1>2, BoundsAssumption
<1>5. RowsInv'
    BY <1>1 DEF StoreInv, DataInv, RowsInv
<1>6. Grows
    <2>1. \A k \in Key : rows[k] # None => rows[k].version <= rows[k].version
        BY BoundsAssumption DEF StoreInv, DataInv, RowsInv
    <2> QED BY <1>1, <2>1 DEF StoreInv, Grows, Versions
<1>7. HistoryInv'
    <2>1. ASSUME NEW k \in Key, NEW n \in DOMAIN log[k]
          PROVE  Entered(log[k][n], k, rows'[k], log'[k], session', memory', expired')
        BY <1>1, <1>4, <1>5, <1>6, EntryStays DEF StoreInv
    <2> QED BY <1>1, <2>1 DEF StoreInv, DataInv, HistoryInv
<1>8. MemoryInv' /\ DocInv'
    BY <1>1, <1>4 DEF StoreInv, DataInv, MemoryInv, DocInv, Versions
<1>9. DOMAIN memory' = Identity /\ DOMAIN log' = Key /\ born' \subseteq Key
    BY <1>1, <1>2 DEF StoreInv, DataInv
<1> QED BY <1>3, <1>4, <1>5, <1>6, <1>7, <1>8, <1>9 DEF StoreInv, DataInv

\* A step that leaves the stores alone.
LEMMA QuietData ==
    ASSUME StoreInv, UNCHANGED <<rows, born, memory, log, session, expired>>
    PROVE  Grows /\ StoreInv'
<1>1. RowsInv'
    BY DEF StoreInv, DataInv, RowsInv
<1>2. Grows
    <2>1. \A k \in Key : rows[k] # None => rows[k].version <= rows[k].version
        BY BoundsAssumption DEF StoreInv, DataInv, RowsInv
    <2> QED BY <2>1 DEF StoreInv, Grows, Versions
<1>3. HistoryInv'
    BY DEF StoreInv, DataInv, HistoryInv
<1>4. MemoryInv' /\ DocInv'
    BY DEF StoreInv, DataInv, MemoryInv, DocInv, Versions
<1> QED BY <1>1, <1>2, <1>3, <1>4 DEF StoreInv, DataInv

\* Every step of the service keeps the data in order, and its counters only grow.
LEMMA NextData ==
    ASSUME StoreInv, AttemptInv, KeptInv, [Next]_vars,
           \A a \in Attempts : stage[a] = "run" => req[a] # None,
           faults \in 0..MaxFaults
    PROVE  /\ Grows /\ StoreInv'
           /\ UNCHANGED <<configured, session>>
           /\ \A j \in Identity : expired[j] <= expired'[j]
           /\ faults' \in 0..MaxFaults /\ faults <= faults'
<1> USE DEF deployment, database, idempotency, caller, Fault
<1> DEFINE Kept == UNCHANGED <<rows, born, memory, log, session, expired>>
           Counted == /\ UNCHANGED <<configured, session>>
                      /\ faults' \in 0..MaxFaults /\ faults <= faults'
<1>0. Kept => Grows /\ StoreInv' /\ \A j \in Identity : expired[j] <= expired'[j]
    <2>1. \A j \in Identity : expired[j] \in Nat
        BY BoundsAssumption DEF StoreInv
    <2> QED BY <2>1, QuietData
<1> USE BoundsAssumption
<1>1. ASSUME NEW c \in Clients, Request(c) \/ Timeout(c) \/ Retry(c)
      PROVE  Kept /\ Counted
    BY <1>1 DEF Request, Timeout, Retry
<1>2. ASSUME NEW c \in Clients, NEW t \in Tables, Get(c, t)
      PROVE  Kept /\ Counted
    BY <1>2 DEF Get
<1>3. ASSUME NEW a \in Attempts, Claim(a) \/ ClaimWithoutHot(a) \/ Keep(a) \/ Crash(a)
      PROVE  Kept /\ Counted
    BY <1>3 DEF Claim, ClaimWithoutHot, Keep, Crash
<1>4. ASSUME NEW i \in Identity, LeaseRunsOut(i) \/ LeaseLost(i)
      PROVE  Kept /\ Counted
    BY <1>4 DEF LeaseRunsOut, LeaseLost
<1>5. CASE ClockPasses \/ UNCHANGED vars
    BY <1>0, <1>5 DEF ClockPasses, vars
<1>6. ASSUME NEW i \in Identity, Expire(i)
      PROVE  /\ Grows /\ StoreInv' /\ Counted
             /\ \A j \in Identity : expired[j] <= expired'[j]
    <2>1. Counted
        BY <1>6 DEF Expire
    <2> QED BY <1>6, <2>1, ExpireData
<1>7. ASSUME NEW a \in Attempts, Run(a) \/ Fail(a)
      PROVE  /\ Grows /\ StoreInv' /\ Counted
             /\ \A j \in Identity : expired[j] <= expired'[j]
    <2>1. Counted /\ UNCHANGED <<session, expired>>
        BY <1>7 DEF Run, Fail
    <2>2. \A j \in Identity : expired[j] <= expired'[j]
        BY <2>1 DEF StoreInv
    <2>3. \/ Kept
          \/ stage[a] = "run" /\ Succeeds(a) /\ Effect(a)
        BY <1>7, <2>1 DEF Run, Fail
    <2>4. CASE Kept
        BY <1>0, <2>1, <2>4
    <2>5. CASE stage[a] = "run" /\ Succeeds(a) /\ Effect(a)
        <3>1. Admitted(req[a])
            BY <2>5 DEF AttemptInv
        <3> HIDE DEF deployment, database, idempotency, caller, Fault
        <3> QED BY <2>1, <2>2, <2>5, <3>1, EffectData
    <2> QED BY <2>3, <2>4, <2>5
<1> HIDE DEF Kept
<1> QED BY <1>0, <1>1, <1>2, <1>3, <1>4, <1>5, <1>6, <1>7 DEF Next

-----------------------------------------------------------------------------
(* Callers.                                                                *)

\* A final answer keeps its meaning: nothing that is committed later undoes what
\* it said.
LEMMA AnsweredStays ==
    ASSUME StoreInv, StoreInv', Grows, session' = session,
           \A j \in Identity : expired[j] <= expired'[j],
           faults \in Nat, faults' \in Nat, faults <= faults',
           NEW g, Answered(g, rows, log, session, expired, faults, born)
    PROVE  Answered(g, rows', log', session', expired', faults', born')
<1> DEFINE r == g.request
           k == RowOf(r)
           i == IdentityOf(r)
<1>1. Admitted(r)
    BY DEF Answered, Admitted, Versions
<1>2. k \in Key /\ i \in Identity /\ k[2] = r.user /\ r.user \in Users
    BY <1>1, AdmittedFacts DEF Admitted, Sound
<1>3. Sound(r, session'[r.by], Contents(rows'[k], log'[k]))
    BY <1>1, AdmittedStays
<1>4. g.status = "204" => \A t \in Tables : rows'[<<t, r.user>>] # None
    <2>1. \A t \in Tables : <<t, r.user>> \in Key
        BY <1>2 DEF Key
    <2> QED BY <2>1 DEF Answered, Grows
<1>5. ASSUME g.status = "409 version"
      PROVE  /\ r.kind = "change" /\ rows'[k] # None /\ r.if_match < rows'[k].version
             /\ \A n \in DOMAIN log'[k] :
                   SameOperation(log'[k][n].request, r) => expired'[i] > 0
    <2>1. /\ r.kind = "change" /\ rows[k] # None /\ r.if_match < rows[k].version
          /\ \A n \in DOMAIN log[k] : SameOperation(log[k][n].request, r) => expired[i] > 0
        BY <1>5 DEF Answered
    <2>2. rows'[k] # None /\ rows[k].version <= rows'[k].version
        BY <1>2, <2>1 DEF Grows
    <2>3. rows[k].version \in Nat /\ rows'[k].version \in Nat
        BY <1>2, <2>1, <2>2, BoundsAssumption DEF StoreInv, DataInv, RowsInv
    <2>4. r.if_match \in Nat
        <3>1. r.basis \in Versions(k) /\ r.if_match = r.basis.version
            BY <1>1, <2>1 DEF Admitted, Sound
        <3> QED BY <1>2, <3>1, VersionFacts DEF StoreInv, DataInv
    <2>5. expired[i] \in Nat /\ expired'[i] \in Nat /\ expired[i] <= expired'[i]
        BY <1>2, BoundsAssumption DEF StoreInv
    <2>6. ASSUME NEW n \in DOMAIN log'[k], SameOperation(log'[k][n].request, r)
          PROVE  expired'[i] > 0
        <3>1. CASE n \in DOMAIN log[k] /\ log'[k][n] = log[k][n]
            BY <2>1, <2>5, <2>6, <3>1
        <3>2. CASE log'[k][n].before = rows[k]
            <4> DEFINE e == log'[k][n]
            <4>1. Entered(e, k, rows'[k], log'[k], session', memory', expired')
                BY <1>2, <2>6 DEF StoreInv, DataInv, HistoryInv
            <4>2. e.before = e.request.basis /\ e.request.if_match = e.request.basis.version
                BY <4>1 DEF Entered, Sound
            <4>3. Fingerprint(e.request) = Fingerprint(r)
                BY <2>6 DEF SameOperation
            <4>4. e.request.if_match = r.if_match
                BY <4>3 DEF Fingerprint
            <4> HIDE DEF e
            <4>5. r.if_match = rows[k].version
                BY <3>2, <4>2, <4>4 DEF e
            <4> QED BY <2>1, <2>3, <2>4, <4>5
        <3> QED BY <1>2, <2>6, <3>1, <3>2 DEF Grows
    <2> QED BY <2>1, <2>2, <2>3, <2>4, <2>6
<1>6. Faithful(r) =>
          \/ g.status \in {"200", "204", "409 version", "409 taken", "409 key"}
          \/ /\ g.status = "500"
             /\ \/ faults' > 0
                \/ r.basis # None /\ (k \in born' \/ r.basis.version = MaxVersion)
    <2>1. faults > 0 => faults' > 0
        OBVIOUS
    <2>2. k \in born => k \in born'
        BY DEF Grows
    <2>3. Faithful(r) =>
              \/ g.status \in {"200", "204", "409 version", "409 taken", "409 key"}
              \/ /\ g.status = "500"
                 /\ \/ faults > 0
                    \/ r.basis # None /\ (k \in born \/ r.basis.version = MaxVersion)
        BY DEF Answered
    <2> HIDE DEF k, r
    <2> QED BY <2>1, <2>2, <2>3
<1>7. /\ g.status \in Statuses
      /\ g.status = "200" => r.kind = "change" /\ g.doc = Applied(r.basis, r.content)
    BY DEF Answered
<1> HIDE DEF r, k, i
<1> QED BY <1>3, <1>4, <1>5, <1>6, <1>7 DEF Answered, r, k, i

\* What grows with every step, for the lemmas about callers.
Moves ==
    /\ StoreInv /\ StoreInv' /\ Grows
    /\ session' = session
    /\ \A j \in Identity : expired[j] <= expired'[j]
    /\ faults \in Nat /\ faults' \in Nat /\ faults <= faults'

\* What clients hold stays true when it is left alone.
LEMMA HeldStays ==
    ASSUME Moves, CallerInv
    PROVE  /\ \A a \in Attempts : req[a] # None =>
                 /\ Sound(req[a], session'[req[a].by],
                          Contents(rows'[RowOf(req[a])], log'[RowOf(req[a])]))
                 /\ req[a].by = a[1]
           /\ \A c \in Clients : want[c] # None =>
                 /\ Sound(want[c], session'[want[c].by],
                          Contents(rows'[RowOf(want[c])], log'[RowOf(want[c])]))
                 /\ want[c].by = c
           /\ \A c \in Clients, t \in Tables : seen[c][t] # None =>
                 /\ session'[c] # None
                 /\ seen[c][t] \in Contents(rows'[<<t, session'[c]>>], log'[<<t, session'[c]>>])
           /\ \A c \in Clients : got[c] # None =>
                 Answered(got[c], rows', log', session', expired', faults', born')
<1>1. \A a \in Attempts : req[a] # None =>
          /\ Sound(req[a], session'[req[a].by],
                   Contents(rows'[RowOf(req[a])], log'[RowOf(req[a])]))
          /\ req[a].by = a[1]
    BY AdmittedStays DEF Moves, CallerInv, AttemptInv
<1>2. \A c \in Clients : want[c] # None =>
          /\ Sound(want[c], session'[want[c].by],
                   Contents(rows'[RowOf(want[c])], log'[RowOf(want[c])]))
          /\ want[c].by = c
    BY AdmittedStays DEF Moves, CallerInv, AttemptInv
<1>3. ASSUME NEW c \in Clients, NEW t \in Tables, seen[c][t] # None
      PROVE  /\ session'[c] # None
             /\ seen[c][t] \in Contents(rows'[<<t, session'[c]>>], log'[<<t, session'[c]>>])
    <2> DEFINE k == <<t, session[c]>>
    <2>1. session[c] # None /\ seen[c][t] \in Contents(rows[k], log[k])
        BY <1>3 DEF CallerInv, SeenInv, Versions
    <2>2. CASE k \in Key
        <3>1. Contents(rows[k], log[k]) \subseteq Contents(rows'[k], log'[k])
            BY <2>2 DEF Moves, Grows, Versions
        <3> QED BY <2>1, <3>1 DEF Moves
    <2>3. k \in Key
        <3>1. session[c] \in Users
            BY <2>1, SessionsAssumption DEF CallerInv, DomainInv
        <3> QED BY <3>1 DEF Key
    <2> QED BY <2>2, <2>3
<1>4. \A c \in Clients : got[c] # None =>
          Answered(got[c], rows', log', session', expired', faults', born')
    BY AnsweredStays DEF Moves, CallerInv, AnsweredInv
<1> QED BY <1>1, <1>2, <1>3, <1>4

\* What a client is given, or sends, may change in a step only for the better.
LEMMA CallerStep ==
    ASSUME Moves, CallerInv, WaitInv', DomainInv',
           \A a \in Attempts :
               \/ req'[a] \in {req[a], None}
               \/ /\ Sound(req'[a], session'[req'[a].by],
                           Contents(rows'[RowOf(req'[a])], log'[RowOf(req'[a])]))
                  /\ req'[a].by = a[1],
           \A c \in Clients :
               \/ want'[c] \in {want[c], None}
               \/ /\ Sound(want'[c], session'[want'[c].by],
                           Contents(rows'[RowOf(want'[c])], log'[RowOf(want'[c])]))
                  /\ want'[c].by = c,
           \A c \in Clients, t \in Tables :
               \/ seen'[c][t] = seen[c][t]
               \/ /\ session'[c] # None
                  /\ seen'[c][t] \in Contents(rows'[<<t, session'[c]>>], log'[<<t, session'[c]>>]),
           \A c \in Clients :
               \/ got'[c] \in {got[c], None}
               \/ Answered(got'[c], rows', log', session', expired', faults', born')
    PROVE  CallerInv'
<1>1. AttemptInv'
    BY HeldStays DEF AttemptInv, Admitted, Versions
<1>2. SeenInv'
    BY HeldStays DEF SeenInv, Versions
<1>3. AnsweredInv'
    BY HeldStays DEF AnsweredInv
<1> QED BY <1>1, <1>2, <1>3 DEF CallerInv

\* An attempt ends with a status that means what it says.
LEMMA AnswerStep ==
    ASSUME Moves, CallerInv,
           NEW a \in Attempts, NEW status, NEW doc, Answer(a, status, doc),
           LET k == RowOf(req[a]) IN
           status \notin Transient =>
               /\ Answered([request |-> req[a], status |-> status, doc |-> doc],
                           rows', log', session', expired', faults', born')
               /\ status = "200" => doc \in Contents(rows'[k], log'[k])
    PROVE  CallerInv'
<1> DEFINE r == req[a]
           c == a[1]
           g == [request |-> r, status |-> status, doc |-> doc]
<1>1. c \in Clients
    BY DEF Attempts
<1>2. /\ req' = [req EXCEPT ![a] = None]
      /\ stage' = [stage EXCEPT ![a] = "free"]
    BY DEF Answer
<1>3. /\ DOMAIN req = Attempts /\ DOMAIN want = Clients /\ DOMAIN wait = Clients
      /\ DOMAIN seen = Clients /\ \A x \in Clients : DOMAIN seen[x] = Tables
      /\ DOMAIN got = Clients /\ session \in Sessions
    BY DEF CallerInv, DomainInv
<1>4. /\ stage \in [Attempts -> {"free", "sent", "run"}]
      /\ \A b \in Attempts : (stage[b] = "free") <=> (req[b] = None)
      /\ \A x \in Clients :
            wait[x] # None => /\ wait[x] \in Attempts /\ wait[x][1] = x
                              /\ want[x] # None /\ req[wait[x]] = want[x]
    BY DEF CallerInv, WaitInv
<1>5. /\ stage' \in [Attempts -> {"free", "sent", "run"}]
      /\ \A b \in Attempts : (stage'[b] = "free") <=> (req'[b] = None)
      /\ \A b \in Attempts : req'[b] \in {req[b], None} /\ (b # a => req'[b] = req[b])
      /\ DOMAIN req' = Attempts
    BY <1>2, <1>3, <1>4
<1>6. CASE wait[c] # a
    <2>1. UNCHANGED <<want, wait, seen, got>>
        BY <1>6 DEF Answer, caller
    <2>2. \A x \in Clients : wait[x] # a
        BY <1>4, <1>6, NoneAssumption
    <2>3. WaitInv'
        BY <1>4, <1>5, <2>1, <2>2 DEF WaitInv
    <2>4. DomainInv'
        BY <1>3, <1>5, <2>1 DEF DomainInv, Moves
    <2> QED BY <1>5, <2>1, <2>3, <2>4, CallerStep
<1>7. CASE wait[c] = a /\ status \in Transient
    <2>1. wait' = [wait EXCEPT ![c] = None] /\ UNCHANGED <<want, seen, got>>
        BY <1>7 DEF Answer
    <2>2. \A x \in Clients : wait'[x] # None => wait'[x] = wait[x] /\ wait[x] # a
        BY <1>1, <1>3, <1>4, <2>1
    <2>3. WaitInv'
        BY <1>4, <1>5, <2>1, <2>2 DEF WaitInv
    <2>4. DomainInv'
        BY <1>3, <1>5, <2>1 DEF DomainInv, Moves
    <2> QED BY <1>5, <2>1, <2>3, <2>4, CallerStep
<1>8. CASE wait[c] = a /\ status \notin Transient
    <2>1. /\ wait' = [wait EXCEPT ![c] = None]
          /\ want' = [want EXCEPT ![c] = None]
          /\ got' = [got EXCEPT ![c] = g]
          /\ seen' = IF status = "200" THEN [seen EXCEPT ![c][r.table] = doc] ELSE seen
        BY <1>8 DEF Answer, Representation
    <2>2. \A x \in Clients : wait'[x] # None => wait'[x] = wait[x] /\ wait[x] # a /\ x # c
        BY <1>1, <1>3, <1>4, <2>1
    <2>3. \A x \in Clients : want'[x] \in {want[x], None} /\ (x # c => want'[x] = want[x])
        BY <1>1, <1>3, <2>1
    <2>4. WaitInv'
        BY <1>4, <1>5, <2>2, <2>3 DEF WaitInv
    <2>5. DomainInv'
        <3>1. DOMAIN seen' = Clients /\ \A x \in Clients : DOMAIN seen'[x] = Tables
            BY <1>1, <1>3, <2>1
        <3> QED BY <1>3, <1>5, <2>1, <3>1 DEF DomainInv, Moves
    <2>6. Answered(g, rows', log', session', expired', faults', born')
        BY <1>8
    <2>7. \A x \in Clients :
              \/ got'[x] \in {got[x], None}
              \/ Answered(got'[x], rows', log', session', expired', faults', born')
        BY <1>3, <2>1, <2>6
    <2>8. ASSUME NEW x \in Clients, NEW t \in Tables, seen'[x][t] # seen[x][t]
          PROVE  /\ session'[x] # None
                 /\ seen'[x][t] \in Contents(rows'[<<t, session'[x]>>], log'[<<t, session'[x]>>])
        <3>1. status = "200" /\ x = c /\ t = r.table /\ seen'[x][t] = doc
            BY <1>1, <1>3, <2>1, <2>8
        <3>2. doc \in Contents(rows'[RowOf(r)], log'[RowOf(r)])
            BY <1>8, <3>1
        <3>3. r.kind = "change"
            BY <2>6, <3>1 DEF Answered
        <3>4. r # None /\ r.by = c
            BY <1>1, <1>4, <1>8, NoneAssumption DEF CallerInv, AttemptInv
        <3>5. r.user = session'[c] /\ r.user \in Users
            BY <2>6, <3>3, <3>4 DEF Answered, Sound
        <3> QED BY <3>1, <3>2, <3>5, SessionsAssumption DEF RowOf
    <2> HIDE DEF r, c, g
    <2> QED BY <1>5, <2>3, <2>4, <2>5, <2>7, <2>8, CallerStep
<1> QED BY <1>6, <1>7, <1>8

\* A remembered result of the same request is what this request asked for; any
\* other one refuses it.
LEMMA ResolveMeans ==
    ASSUME StoreInv, CallerInv, faults \in Nat, NEW a \in Attempts, req[a] # None,
           Remembered(a)
    PROVE  LET r == req[a]
               m == memory[IdentityOf(r)]
           IN  /\ m.fp = Fingerprint(r) =>
                     /\ Answered([request |-> r, status |-> SuccessOf(r), doc |-> m.doc],
                                 rows, log, session, expired, faults, born)
                     /\ SuccessOf(r) = "200" => m.doc \in Contents(rows[RowOf(r)], log[RowOf(r)])
               /\ Answered([request |-> r, status |-> StatusOf("conflict"), doc |-> None],
                           rows, log, session, expired, faults, born)
<1> DEFINE r == req[a]
           i == IdentityOf(r)
           k == RowOf(r)
           m == memory[i]
<1>1. Admitted(r)
    BY DEF CallerInv, AttemptInv
<1>2. Sound(r, session[r.by], Contents(rows[k], log[k]))
    BY <1>1 DEF Admitted, Versions
<1>3. /\ k \in Key /\ i \in Identity /\ i[2][1] = r.kind
      /\ r.kind = "change" => <<i[2][2], i[1]>> = k
      /\ r.kind = "provision" => i[3] = r.user
    BY <1>2, AdmittedFacts
<1>4. r.kind \in {"change", "provision"}
    BY <1>2 DEF Sound
<1>5. m # None
    BY DEF Remembered
<1>6. RowsInv /\ HistoryInv /\ MemoryInv
    BY DEF StoreInv, DataInv
<1>7. StatusOf("conflict") = "409 key"
    BY DEF StatusOf
<1>8. Answered([request |-> r, status |-> StatusOf("conflict"), doc |-> None],
               rows, log, session, expired, faults, born)
    <2> HIDE DEF r, k
    <2> QED BY <1>2, <1>7 DEF Answered, Statuses, k
<1>9. CASE r.kind = "change" /\ m.fp = Fingerprint(r)
    <2>1. /\ m.doc \in Versions(k)
          /\ \E b \in Versions(k) : b.version = m.fp[2] /\ m.doc = Applied(b, m.fp[4])
        BY <1>3, <1>5, <1>6, <1>9 DEF MemoryInv
    <2>2. PICK b \in Versions(k) : b.version = m.fp[2] /\ m.doc = Applied(b, m.fp[4])
        BY <2>1
    <2>3. m.fp[2] = r.if_match /\ m.fp[4] = r.content
        BY <1>9 DEF Fingerprint
    <2>4. r.basis \in Versions(k) /\ r.if_match = r.basis.version
        BY <1>1, <1>9 DEF Admitted, Sound
    <2>5. b = r.basis
        BY <1>3, <1>6, <2>2, <2>3, <2>4, VersionsUnique
    <2>6. m.doc = Applied(r.basis, r.content)
        BY <2>2, <2>3, <2>5
    <2>7. SuccessOf(r) = "200"
        BY <1>9 DEF SuccessOf
    <2> HIDE DEF r, k, m
    <2>8. Answered([request |-> r, status |-> "200", doc |-> m.doc],
                   rows, log, session, expired, faults, born)
        BY <1>2, <1>9, <2>6 DEF Answered, Statuses, k
    <2> QED BY <1>8, <2>1, <2>7, <2>8 DEF Versions, r, k, m
<1>10. CASE r.kind = "provision" /\ m.fp = Fingerprint(r)
    <2>1. \A t \in Tables : rows[<<t, r.user>>] # None
        BY <1>3, <1>5, <1>6, <1>10 DEF MemoryInv
    <2>2. SuccessOf(r) = "204"
        BY <1>10 DEF SuccessOf
    <2> HIDE DEF r, k, m
    <2>3. Answered([request |-> r, status |-> "204", doc |-> m.doc],
                   rows, log, session, expired, faults, born)
        BY <1>2, <1>10, <2>1 DEF Answered, Statuses, k
    <2> QED BY <1>8, <2>2, <2>3 DEF r, k, m
<1> QED BY <1>4, <1>8, <1>9, <1>10

\* An error of the handler is answered with the status that its cause deserves.
LEMMA RefusalMeans ==
    ASSUME StoreInv, CallerInv, faults \in Nat, NEW a \in Attempts, req[a] # None,
           ~Remembered(a), Outcome(req[a]) # "ok"
    PROVE  /\ Answered([request |-> req[a], status |-> StatusOf(Outcome(req[a])), doc |-> None],
                       rows, log, session, expired, faults, born)
           /\ StatusOf(Outcome(req[a])) # "200"
<1> DEFINE r == req[a]
           i == IdentityOf(r)
           k == RowOf(r)
<1>1. Admitted(r)
    BY DEF CallerInv, AttemptInv
<1>2. Sound(r, session[r.by], Contents(rows[k], log[k]))
    BY <1>1 DEF Admitted, Versions
<1>3. k \in Key /\ i \in Identity
    BY <1>2, AdmittedFacts
<1>4. RowsInv /\ HistoryInv
    BY DEF StoreInv, DataInv
<1>5. r.kind = "change"
    BY <1>2 DEF Outcome, Sound
<1>6. r.basis \in Versions(k) /\ r.if_match = r.basis.version
    BY <1>1, <1>5 DEF Admitted, Sound
<1>7. /\ rows[k] # None /\ r.basis # None
      /\ r.basis.version \in Nat /\ rows[k].version \in Nat
      /\ r.basis.version <= rows[k].version
    BY <1>3, <1>4, <1>6, VersionFacts, BoundsAssumption DEF RowsInv
<1>8. \/ /\ Outcome(r) = "mismatch"
         /\ r.if_match # rows[k].version
      \/ /\ Outcome(r) = "value"
         /\ r.body = "domain"
      \/ /\ Outcome(r) = "invalid_timestamp"
         /\ k \in born
      \/ /\ Outcome(r) = "out_of_range"
         /\ r.if_match = rows[k].version /\ rows[k].version = MaxVersion
      \/ Outcome(r) = "taken"
    BY <1>5, <1>7 DEF Outcome, MatchesVersion, RowOf
<1>9. /\ StatusOf("mismatch") = "409 version"
      /\ StatusOf("value") = "422"
      /\ StatusOf("invalid_timestamp") = "500"
      /\ StatusOf("out_of_range") = "500"
      /\ StatusOf("taken") = "409 taken"
    BY DEF StatusOf
<1>10. ASSUME NEW n \in DOMAIN log[k], SameOperation(log[k][n].request, r)
       PROVE  expired[i] > 0
    <2>1. Entered(log[k][n], k, rows[k], log[k], session, memory, expired)
        BY <1>3, <1>4 DEF HistoryInv
    <2>2. IdentityOf(log[k][n].request) = i
        BY <1>10 DEF SameOperation
    <2>3. memory[i] = None
        BY DEF Remembered
    <2> QED BY <2>1, <2>2, <2>3 DEF Entered
<1> DEFINE G(s) == [request |-> r, status |-> s, doc |-> None]
<1>11. /\ \A s : G(s).request = r /\ G(s).status = s
    OBVIOUS
<1> HIDE DEF r, i, k, G
<1>12. CASE Outcome(r) = "mismatch" /\ r.if_match # rows[k].version
    <2>1. r.if_match < rows[k].version
        BY <1>6, <1>7, <1>12
    <2>2. Answered(G("409 version"), rows, log, session, expired, faults, born)
        BY <1>2, <1>5, <1>7, <1>10, <1>11, <2>1 DEF Answered, Statuses, k, i
    <2> QED BY <1>9, <1>12, <2>2 DEF r, G
<1>13. CASE Outcome(r) = "value" /\ r.body = "domain"
    <2>1. Answered(G("422"), rows, log, session, expired, faults, born)
        BY <1>2, <1>11, <1>13 DEF Answered, Statuses, Faithful, k
    <2> QED BY <1>9, <1>13, <2>1 DEF r, G
<1>14. CASE Outcome(r) = "taken"
    <2>1. Answered(G("409 taken"), rows, log, session, expired, faults, born)
        BY <1>2, <1>11 DEF Answered, Statuses, k
    <2> QED BY <1>9, <1>14, <2>1 DEF r, G
<1>15. CASE /\ Outcome(r) \in {"invalid_timestamp", "out_of_range"}
            /\ k \in born \/ r.basis.version = MaxVersion
    <2>1. Answered(G("500"), rows, log, session, expired, faults, born)
        BY <1>2, <1>7, <1>11, <1>15 DEF Answered, Statuses, k
    <2> QED BY <1>9, <1>15, <2>1 DEF r, G
<1> QED BY <1>6, <1>8, <1>12, <1>13, <1>14, <1>15

\* An execution answers with what it has committed.
LEMMA SuccessMeans ==
    ASSUME Moves, CallerInv, KeptInv, NEW a \in Attempts, req[a] # None,
           Succeeds(a), Effect(a)
    PROVE  LET r == req[a] IN
           /\ Answered([request |-> r, status |-> SuccessOf(r), doc |-> Result(a)],
                       rows', log', session', expired', faults', born')
           /\ SuccessOf(r) = "200" => Result(a) \in Contents(rows'[RowOf(r)], log'[RowOf(r)])
<1> DEFINE r == req[a]
           i == IdentityOf(r)
           k == RowOf(r)
           m == [fp |-> Fingerprint(r), doc |-> Result(a)]
<1>1. Admitted(r)
    BY DEF CallerInv, AttemptInv
<1>2. Sound(r, session'[r.by], Contents(rows'[k], log'[k]))
    BY <1>1, AdmittedStays DEF Moves
<1>3. /\ k \in Key /\ i \in Identity /\ i[2][1] = r.kind
      /\ r.kind = "change" => <<i[2][2], i[1]>> = k
      /\ r.kind = "provision" => i[3] = r.user
    BY <1>2, AdmittedFacts
<1>4. r.kind \in {"change", "provision"}
    BY <1>2 DEF Sound
<1>5. RowsInv /\ HistoryInv /\ MemoryInv' /\ DOMAIN memory = Identity
    BY DEF Moves, StoreInv, DataInv
<1>6. m # None
    <2>1. /\ r.kind = "change" => Result(a) \in Rows
          /\ r.kind = "provision" => Result(a) = None
        BY <1>1, <1>5, ResultFacts
    <2> QED BY <1>1, <1>5, <2>1, RememberedResult
<1>7. memory'[i] = m
    BY <1>3, <1>5 DEF Effect
<1>8. m.doc = Result(a)
    OBVIOUS
<1>9. CASE r.kind = "change"
    <2> HIDE DEF m, i, k, r
    <2>1. m.doc \in Contents(rows'[k], log'[k])
        BY <1>3, <1>5, <1>6, <1>7, <1>9 DEF MemoryInv, Versions
    <2>2. Result(a) = Applied(r.basis, r.content)
        BY <1>1, <1>5, <1>9, ResultFacts DEF r
    <2>3. SuccessOf(r) = "200"
        BY <1>9 DEF SuccessOf
    <2>4. Answered([request |-> r, status |-> "200", doc |-> Result(a)],
                   rows', log', session', expired', faults', born')
        BY <1>2, <1>9, <2>2 DEF Answered, Statuses, k
    <2> QED BY <1>8, <2>1, <2>3, <2>4 DEF r, k
<1>10. CASE r.kind = "provision"
    <2> HIDE DEF m, i, k, r
    <2>1. \A t \in Tables : rows'[<<t, r.user>>] # None
        BY <1>3, <1>5, <1>6, <1>7, <1>10 DEF MemoryInv
    <2>2. SuccessOf(r) = "204"
        BY <1>10 DEF SuccessOf
    <2>3. Answered([request |-> r, status |-> "204", doc |-> Result(a)],
                   rows', log', session', expired', faults', born')
        BY <1>2, <1>10, <2>1 DEF Answered, Statuses, k
    <2> QED BY <2>2, <2>3 DEF r, k
<1> QED BY <1>4, <1>9, <1>10

\* A caller that finds a remembered result is answered by it.
LEMMA ResolveStep ==
    ASSUME Moves, CallerInv, NEW a \in Attempts, req[a] # None, Remembered(a), Resolve(a),
           UNCHANGED <<rows, log>>
    PROVE  CallerInv'
<1> DEFINE r == req[a]
           m == memory[IdentityOf(r)]
<1>1. /\ m.fp = Fingerprint(r) =>
            /\ Answered([request |-> r, status |-> SuccessOf(r), doc |-> m.doc],
                        rows, log, session, expired, faults, born)
            /\ SuccessOf(r) = "200" => m.doc \in Contents(rows[RowOf(r)], log[RowOf(r)])
      /\ Answered([request |-> r, status |-> StatusOf("conflict"), doc |-> None],
                  rows, log, session, expired, faults, born)
    BY ResolveMeans DEF Moves
<1>2. CASE m.fp = Fingerprint(r)
    <2>1. Answer(a, SuccessOf(r), m.doc)
        BY <1>2 DEF Resolve
    <2>2. Answered([request |-> r, status |-> SuccessOf(r), doc |-> m.doc],
                   rows', log', session', expired', faults', born')
        BY <1>1, <1>2, AnsweredStays DEF Moves
    <2>3. SuccessOf(r) = "200" => m.doc \in Contents(rows'[RowOf(r)], log'[RowOf(r)])
        BY <1>1, <1>2
    <2> QED BY <2>1, <2>2, <2>3, AnswerStep
<1>3. CASE m.fp # Fingerprint(r)
    <2>1. Answer(a, StatusOf("conflict"), None)
        BY <1>3 DEF Resolve
    <2>2. Answered([request |-> r, status |-> StatusOf("conflict"), doc |-> None],
                   rows', log', session', expired', faults', born')
        BY <1>1, AnsweredStays DEF Moves
    <2>3. StatusOf("conflict") # "200"
        BY DEF StatusOf
    <2> QED BY <2>1, <2>2, <2>3, AnswerStep
<1> QED BY <1>2, <1>3

\* A key in use by another command is a conflict, whatever becomes of that one.
LEMMA ConflictMeans ==
    ASSUME Moves, CallerInv, NEW a \in Attempts, req[a] # None
    PROVE  Answered([request |-> req[a], status |-> StatusOf("conflict"), doc |-> None],
                    rows', log', session', expired', faults', born')
<1>1. Sound(req[a], session'[req[a].by],
            Contents(rows'[RowOf(req[a])], log'[RowOf(req[a])]))
    BY HeldStays
<1>2. StatusOf("conflict") = "409 key"
    BY DEF StatusOf
<1> QED BY <1>1, <1>2 DEF Answered, Statuses

\* A server error after a fault.
LEMMA FaultMeans ==
    ASSUME Moves, CallerInv, NEW a \in Attempts, req[a] # None, faults' > 0
    PROVE  Answered([request |-> req[a], status |-> "500", doc |-> None],
                    rows', log', session', expired', faults', born')
<1>1. Sound(req[a], session'[req[a].by],
            Contents(rows'[RowOf(req[a])], log'[RowOf(req[a])]))
    BY HeldStays
<1> QED BY <1>1 DEF Answered, Statuses

\* An attempt on its way through the coordinator.
LEMMA ClaimStep ==
    ASSUME Moves, CallerInv, NEW a \in Attempts, Claim(a) \/ ClaimWithoutHot(a)
    PROVE  CallerInv'
<1>1. req[a] # None /\ stage[a] = "sent" /\ UNCHANGED <<rows, log>>
    BY DEF Claim, ClaimWithoutHot, CallerInv, WaitInv, database
<1>2. CASE Remembered(a) /\ Resolve(a)
    BY <1>1, <1>2, ResolveStep
<1>3. CASE Answer(a, StatusOf("in_progress"), None)
    <2>1. StatusOf("in_progress") \in Transient
        BY DEF StatusOf, Transient
    <2> QED BY <1>3, <2>1, AnswerStep
<1>4. CASE Answer(a, StatusOf("conflict"), None)
    <2>1. StatusOf("conflict") # "200"
        BY DEF StatusOf
    <2> QED BY <1>1, <1>4, <2>1, ConflictMeans, AnswerStep
<1>5. CASE stage' = [stage EXCEPT ![a] = "run"] /\ UNCHANGED <<req, caller>>
    <2>1. UNCHANGED <<req, want, wait, seen, got>>
        BY <1>5 DEF caller
    <2>2. WaitInv'
        BY <1>1, <1>5, <2>1 DEF CallerInv, WaitInv
    <2>3. DomainInv'
        BY <2>1 DEF CallerInv, DomainInv, Moves
    <2> QED BY <2>1, <2>2, <2>3, CallerStep
<1> QED BY <1>2, <1>3, <1>4, <1>5 DEF Claim, ClaimWithoutHot

\* An execution comes to its end.
LEMMA RunStep ==
    ASSUME Moves, CallerInv, KeptInv, NEW a \in Attempts, Run(a)
    PROVE  CallerInv'
<1>1. req[a] # None
    BY DEF Run, CallerInv, WaitInv
<1>2. CASE Remembered(a) /\ Resolve(a) /\ UNCHANGED <<rows, log>>
    BY <1>1, <1>2, ResolveStep
<1>3. CASE ~Remembered(a) /\ Outcome(req[a]) # "ok" /\ Answer(a, StatusOf(Outcome(req[a])), None)
    <2>1. /\ Answered([request |-> req[a], status |-> StatusOf(Outcome(req[a])), doc |-> None],
                      rows, log, session, expired, faults, born)
          /\ StatusOf(Outcome(req[a])) # "200"
        BY <1>1, <1>3, RefusalMeans DEF Moves
    <2>2. Answered([request |-> req[a], status |-> StatusOf(Outcome(req[a])), doc |-> None],
                   rows', log', session', expired', faults', born')
        BY <2>1, AnsweredStays DEF Moves
    <2> QED BY <1>3, <2>1, <2>2, AnswerStep
<1>4. CASE Succeeds(a) /\ Effect(a) /\ Answer(a, SuccessOf(req[a]), Result(a))
    <2>1. /\ Answered([request |-> req[a], status |-> SuccessOf(req[a]), doc |-> Result(a)],
                      rows', log', session', expired', faults', born')
          /\ SuccessOf(req[a]) = "200" =>
                Result(a) \in Contents(rows'[RowOf(req[a])], log'[RowOf(req[a])])
        BY <1>1, <1>4, SuccessMeans
    <2> QED BY <1>4, <2>1, AnswerStep
<1> QED BY <1>2, <1>3, <1>4 DEF Run

\* A store fails, with or without the effect.
LEMMA FailStep ==
    ASSUME Moves, CallerInv, NEW a \in Attempts, Fail(a)
    PROVE  CallerInv'
<1>1. req[a] # None
    BY DEF Fail, CallerInv, WaitInv
<1>2. PICK outcome \in {"unavailable", "txconflict", "untranslated"} :
          Answer(a, StatusOf(outcome), None)
    BY DEF Fail
<1>3. faults' > 0
    BY DEF Fail, Fault, Moves
<1>4. StatusOf(outcome) \in Transient \/ StatusOf(outcome) = "500"
    BY DEF StatusOf, Transient
<1>5. CASE StatusOf(outcome) \in Transient
    BY <1>2, <1>5, AnswerStep
<1>6. CASE StatusOf(outcome) = "500"
    <2>1. Answered([request |-> req[a], status |-> "500", doc |-> None],
                   rows', log', session', expired', faults', born')
        BY <1>1, <1>3, FaultMeans
    <2> QED BY <1>2, <1>6, <2>1, AnswerStep
<1> QED BY <1>4, <1>5, <1>6

\* A client that sends a request waits for that attempt.
LEMMA SendStep ==
    ASSUME Moves, CallerInv, NEW c \in Clients, NEW r, r # None, r.by = c, Send(c, r),
           Sound(r, session'[r.by], Contents(rows'[RowOf(r)], log'[RowOf(r)])),
           wait[c] = None,
           DOMAIN want' = Clients,
           \A x \in Clients : want'[x] = IF x = c THEN r ELSE want[x],
           seen' = seen,
           got' \in {got, [got EXCEPT ![c] = None]}
    PROVE  CallerInv'
<1> DEFINE a == Free(c)
<1>1. a \in Attempts /\ a[1] = c
    BY DEF Free, Attempts
<1>2. /\ stage[a] = "free"
      /\ req' = [req EXCEPT ![a] = r]
      /\ stage' = [stage EXCEPT ![a] = "sent"]
      /\ wait' = [wait EXCEPT ![c] = a]
    BY DEF Send
<1> HIDE DEF a
<1>3. /\ DOMAIN req = Attempts /\ DOMAIN want = Clients /\ DOMAIN wait = Clients
      /\ DOMAIN seen = Clients /\ \A x \in Clients : DOMAIN seen[x] = Tables
      /\ DOMAIN got = Clients /\ session \in Sessions
    BY DEF CallerInv, DomainInv
<1>4. /\ stage \in [Attempts -> {"free", "sent", "run"}]
      /\ \A b \in Attempts : (stage[b] = "free") <=> (req[b] = None)
      /\ \A x \in Clients :
            wait[x] # None => /\ wait[x] \in Attempts /\ wait[x][1] = x
                              /\ want[x] # None /\ req[wait[x]] = want[x]
    BY DEF CallerInv, WaitInv
<1>5. /\ stage' \in [Attempts -> {"free", "sent", "run"}]
      /\ \A b \in Attempts : (stage'[b] = "free") <=> (req'[b] = None)
      /\ \A b \in Attempts : b # a => req'[b] = req[b]
      /\ req'[a] = r
    BY <1>1, <1>2, <1>3, <1>4
<1>6. \A x \in Clients :
          /\ x # c => want'[x] = want[x] /\ wait'[x] = wait[x]
          /\ want'[c] = r /\ wait'[c] = a
          /\ got'[x] \in {got[x], None}
    BY <1>2, <1>3
<1>7. WaitInv'
    <2>1. ASSUME NEW x \in Clients, wait'[x] # None
          PROVE  /\ wait'[x] \in Attempts /\ wait'[x][1] = x
                 /\ want'[x] # None /\ req'[wait'[x]] = want'[x]
        <3>1. CASE x = c
            BY <1>1, <1>5, <1>6, <3>1
        <3>2. CASE x # c
            <4>1. wait[x] \in Attempts /\ wait[x][1] = x /\ want[x] # None
                  /\ req[wait[x]] = want[x] /\ wait'[x] = wait[x] /\ want'[x] = want[x]
                BY <1>4, <1>6, <2>1, <3>2
            <4> QED BY <1>1, <1>5, <3>2, <4>1
        <3> QED BY <3>1, <3>2
    <2> QED BY <1>5, <2>1 DEF WaitInv
<1>8. DomainInv'
    BY <1>2, <1>3 DEF DomainInv, Moves
<1> QED BY <1>1, <1>5, <1>6, <1>7, <1>8, CallerStep

\* A step that ends no wait wrongly and gives nothing to anybody.
LEMMA QuietStep ==
    ASSUME Moves, CallerInv, UNCHANGED <<req, stage, want, seen, got>>,
           DOMAIN wait' = Clients, \A c \in Clients : wait'[c] \in {wait[c], None}
    PROVE  CallerInv'
<1>1. WaitInv'
    BY DEF CallerInv, WaitInv
<1>2. DomainInv'
    BY DEF CallerInv, DomainInv, Moves
<1> QED BY <1>1, <1>2, CallerStep

\* A read gives a client its row as it is now.
LEMMA GetStep ==
    ASSUME Moves, CallerInv, NEW c \in Clients, NEW t \in Tables, Get(c, t)
    PROVE  CallerInv'
<1> DEFINE k == <<t, session[c]>>
<1>1. /\ session[c] # None /\ rows[k] # None
      /\ seen' = [seen EXCEPT ![c][t] = rows[k]]
      /\ got' = [got EXCEPT ![c] = None]
      /\ UNCHANGED <<req, stage, want, wait, rows, log, session>>
    BY DEF Get, OwnRow, Representation, database, deployment
<1>2. rows[k] \in Contents(rows[k], log[k])
    BY <1>1 DEF Contents
<1>3. /\ DOMAIN seen = Clients /\ (\A x \in Clients : DOMAIN seen[x] = Tables)
      /\ DOMAIN got = Clients
    BY DEF CallerInv, DomainInv
<1>4. WaitInv'
    BY <1>1 DEF CallerInv, WaitInv
<1>5. DomainInv'
    <2>1. DOMAIN seen' = Clients /\ \A x \in Clients : DOMAIN seen'[x] = Tables
        BY <1>1, <1>3
    <2> QED BY <1>1, <1>3, <2>1 DEF CallerInv, DomainInv
<1>6. \A x \in Clients, s \in Tables :
          \/ seen'[x][s] = seen[x][s]
          \/ x = c /\ s = t /\ seen'[x][s] = rows[k]
    BY <1>1, <1>3
<1>7. \A x \in Clients : got'[x] \in {got[x], None}
    BY <1>1, <1>3
<1>8. \A x \in Clients, s \in Tables :
          \/ seen'[x][s] = seen[x][s]
          \/ /\ session'[x] # None
             /\ seen'[x][s] \in Contents(rows'[<<s, session'[x]>>], log'[<<s, session'[x]>>])
    BY <1>1, <1>2, <1>6
<1> HIDE DEF k
<1> QED BY <1>1, <1>4, <1>5, <1>7, <1>8, CallerStep

\* Nobody waits for an attempt that died.
LEMMA CrashStep ==
    ASSUME Moves, CallerInv, NEW a \in Attempts, Crash(a)
    PROVE  CallerInv'
<1> DEFINE c == a[1]
<1>1. /\ req' = [req EXCEPT ![a] = None]
      /\ stage' = [stage EXCEPT ![a] = "free"]
      /\ wait' = [wait EXCEPT ![c] = IF @ = a THEN None ELSE @]
      /\ UNCHANGED <<want, seen, got>>
    BY DEF Crash
<1>2. /\ DOMAIN req = Attempts /\ DOMAIN want = Clients /\ DOMAIN wait = Clients
      /\ DOMAIN seen = Clients /\ \A x \in Clients : DOMAIN seen[x] = Tables
      /\ DOMAIN got = Clients /\ session \in Sessions
    BY DEF CallerInv, DomainInv
<1>3. /\ stage \in [Attempts -> {"free", "sent", "run"}]
      /\ \A b \in Attempts : (stage[b] = "free") <=> (req[b] = None)
      /\ \A x \in Clients :
            wait[x] # None => /\ wait[x] \in Attempts /\ wait[x][1] = x
                              /\ want[x] # None /\ req[wait[x]] = want[x]
    BY DEF CallerInv, WaitInv
<1>4. /\ stage' \in [Attempts -> {"free", "sent", "run"}]
      /\ \A b \in Attempts : (stage'[b] = "free") <=> (req'[b] = None)
      /\ \A b \in Attempts : req'[b] \in {req[b], None} /\ (b # a => req'[b] = req[b])
    BY <1>1, <1>2, <1>3
<1>5. c \in Clients
    BY DEF Attempts
<1>6. \A x \in Clients : wait'[x] # None => wait'[x] = wait[x] /\ wait[x] # a
    BY <1>1, <1>2, <1>3, <1>5
<1>7. WaitInv'
    BY <1>1, <1>3, <1>4, <1>6 DEF WaitInv
<1>8. DomainInv'
    BY <1>1, <1>2 DEF DomainInv, Moves
<1> QED BY <1>1, <1>4, <1>7, <1>8, CallerStep

-----------------------------------------------------------------------------
(* The invariant of the service.                                           *)

\* A lease is held by an attempt, or by nobody any more.
LeaseInv ==
    /\ DOMAIN lease = Identity
    /\ \A i \in Identity :
          lease[i] # None => /\ DOMAIN lease[i] = {"fp", "by"}
                             /\ lease[i].by \in Attempts \cup {None}

ServiceInv ==
    /\ StoreInv /\ CallerInv /\ KeptInv /\ LeaseInv
    /\ clock \in {"before", "after"}
    /\ configured \in Deployments
    /\ faults \in 0..MaxFaults

\* What the invariant says of the types.
LEMMA ServiceTypes == ServiceInv => TypeOK
<1> SUFFICES ASSUME ServiceInv PROVE TypeOK
    OBVIOUS
<1>1. /\ \A k \in Key : rows[k] \in Row(k[1]) \cup {None}
      /\ \A k \in Key : rows[k] # None => rows[k].version \in 1..MaxVersion
      /\ born \subseteq Key
      /\ expired \in [Identity -> 0..MaxExpiries]
    BY DEF ServiceInv, StoreInv, DataInv, RowsInv
<1>2. \A i \in Identity : memory[i] = None \/ memory[i].doc \in Rows \cup {None}
    BY DEF ServiceInv, StoreInv, DocInv
<1>3. \A i \in Identity : lease[i] = None \/ lease[i].by \in Attempts \cup {None}
    BY DEF ServiceInv, LeaseInv
<1>4. /\ clock \in {"before", "after"} /\ configured \in Deployments
      /\ session \in Sessions /\ faults \in 0..MaxFaults
    BY DEF ServiceInv, CallerInv, DomainInv
<1>5. /\ stage \in [Attempts -> {"free", "sent", "run"}]
      /\ \A a \in Attempts : (stage[a] = "free") <=> (req[a] = None)
      /\ \A c \in Clients : wait[c] # None => want[c] # None /\ req[wait[c]] = want[c]
      /\ kept \in [Attempts -> Rows \cup {None}]
    BY DEF ServiceInv, CallerInv, WaitInv, KeptInv
<1>6. \A c \in Clients : got[c] = None \/ got[c].status \in Statuses
    BY DEF ServiceInv, CallerInv, AnsweredInv, Answered
<1>7. ASSUME NEW c \in Clients, NEW t \in Tables, seen[c][t] # None
      PROVE  seen[c][t] \in Row(t)
    <2> DEFINE k == <<t, session[c]>>
    <2>1. session[c] # None /\ seen[c][t] \in Versions(k)
        BY <1>7 DEF ServiceInv, CallerInv, SeenInv
    <2>2. k \in Key /\ k[1] = t
        BY <1>4, <2>1, SessionsAssumption DEF Key
    <2>3. RowsInv /\ HistoryInv
        BY DEF ServiceInv, StoreInv, DataInv
    <2> QED BY <2>1, <2>2, <2>3, VersionFacts
<1> QED BY <1>1, <1>2, <1>3, <1>4, <1>5, <1>6, <1>7 DEF TypeOK

\* A lease that is let go, or left to run out.
LEMMA LeaseStep ==
    ASSUME LeaseInv,
           \/ lease' = lease
           \/ \E i \in Identity, a \in Attempts, how \in {"released", "left"} :
                 lease' = Leave(a, i, how)
    PROVE  LeaseInv'
<1>1. CASE lease' = lease
    BY <1>1 DEF LeaseInv
<1>2. ASSUME NEW i \in Identity, NEW a \in Attempts, NEW how \in {"released", "left"},
             lease' = Leave(a, i, how)
      PROVE  LeaseInv'
    <2>1. CASE lease' = lease
        BY <1>1, <2>1
    <2>2. CASE lease' = [lease EXCEPT ![i] = None]
        BY <2>2 DEF LeaseInv
    <2>3. CASE lease[i] # None /\ lease' = [lease EXCEPT ![i] = [@ EXCEPT !.by = None]]
        <3>1. DOMAIN lease = Identity
            BY DEF LeaseInv
        <3>2. \A j \in Identity : j # i => lease'[j] = lease[j]
            BY <2>3, <3>1
        <3>3. lease'[i] = [lease[i] EXCEPT !.by = None] /\ DOMAIN lease' = Identity
            BY <2>3, <3>1
        <3>4. DOMAIN lease[i] = {"fp", "by"}
            BY <2>3 DEF LeaseInv
        <3>5. DOMAIN lease'[i] = {"fp", "by"} /\ lease'[i].by = None
            BY <3>3, <3>4
        <3> QED BY <3>2, <3>3, <3>5 DEF LeaseInv
    <2> QED BY <1>2, <2>1, <2>2, <2>3 DEF Leave
<1> QED BY <1>1, <1>2

\* The invariant holds in the beginning.
LEMMA InitService == Init => ServiceInv
<1> SUFFICES ASSUME Init PROVE ServiceInv
    OBVIOUS
<1> USE BoundsAssumption DEF Init
<1>1. RowsInv
    <2>1. \A k \in Key : rows[k] # None => rows[k].version \in 1..MaxVersion
        <3> SUFFICES ASSUME NEW k \in Key, rows[k] # None
                     PROVE  rows[k].version \in 1..MaxVersion
            OBVIOUS
        <3>1. rows[k] \in Row(k[1]) /\ k[1] \in Tables
            BY StartAssumption DEF Key
        <3>2. rows[k].version \in Nat \ {0}
            BY <3>1, RowFacts
        <3>3. rows[k].version <= MaxVersion
            BY VersionsAssumption
        <3> QED BY <3>2, <3>3
    <2> QED BY <2>1, StartAssumption DEF RowsInv
<1>2. HistoryInv
    BY DEF HistoryInv
<1>3. MemoryInv /\ DocInv
    BY DEF MemoryInv, DocInv
<1>4. StoreInv
    BY <1>1, <1>2, <1>3 DEF StoreInv, DataInv
<1>5. AttemptInv /\ WaitInv /\ SeenInv /\ AnsweredInv /\ DomainInv
    BY DEF AttemptInv, WaitInv, SeenInv, AnsweredInv, DomainInv
<1>6. LeaseInv /\ KeptInv
    BY DEF LeaseInv, KeptInv
<1> QED BY <1>4, <1>5, <1>6 DEF ServiceInv, CallerInv

\* Every step keeps what the callers know in order.
LEMMA NextCaller ==
    ASSUME ServiceInv, Moves, [Next]_vars
    PROVE  CallerInv'
<1> USE DEF deployment, database, idempotency, caller
<1>0. CallerInv /\ KeptInv /\ TypeOK /\ SeenInv
    BY ServiceTypes DEF ServiceInv, CallerInv
<1>d. DOMAIN wait = Clients /\ DOMAIN want = Clients
    BY <1>0 DEF CallerInv, DomainInv
<1>1. ASSUME NEW c \in Clients, Request(c)
      PROVE  CallerInv'
    <2>1. PICK r \in Requests(c) :
              Refusals(r) = <<>> /\ want' = [want EXCEPT ![c] = r] /\ Send(c, r)
        BY <1>1 DEF Request
    <2>2. Admitted(r) /\ r.by = c /\ r # None
        BY <1>0, <2>1, RequestAdmitted
    <2>3. Sound(r, session'[r.by], Contents(rows'[RowOf(r)], log'[RowOf(r)]))
        BY <2>2, AdmittedStays DEF Moves
    <2>4. want[c] = None /\ seen' = seen /\ got' = [got EXCEPT ![c] = None]
        BY <1>1 DEF Request
    <2>5. wait[c] = None
        BY <1>0, <2>4 DEF CallerInv, WaitInv
    <2>6. /\ DOMAIN want' = Clients
          /\ \A x \in Clients : want'[x] = IF x = c THEN r ELSE want[x]
        BY <1>d, <2>1
    <2> QED BY <1>0, <2>1, <2>2, <2>3, <2>4, <2>5, <2>6, SendStep
<1>2. ASSUME NEW c \in Clients, Retry(c)
      PROVE  CallerInv'
    <2>1. /\ want[c] # None /\ wait[c] = None /\ Send(c, want[c])
          /\ UNCHANGED <<want, seen, got>>
        BY <1>2 DEF Retry
    <2>2. /\ Sound(want[c], session'[want[c].by],
                   Contents(rows'[RowOf(want[c])], log'[RowOf(want[c])]))
          /\ want[c].by = c
        BY <1>0, <2>1, HeldStays
    <2> QED BY <1>0, <1>d, <2>1, <2>2, SendStep
<1>3. ASSUME NEW c \in Clients, Timeout(c)
      PROVE  CallerInv'
    <2>1. /\ wait' = [wait EXCEPT ![c] = None]
          /\ UNCHANGED <<req, stage, want, seen, got>>
        BY <1>3 DEF Timeout
    <2>2. DOMAIN wait' = Clients /\ \A x \in Clients : wait'[x] \in {wait[x], None}
        BY <1>d, <2>1
    <2> QED BY <1>0, <2>1, <2>2, QuietStep
<1>4. ASSUME NEW i \in Identity, LeaseRunsOut(i) \/ LeaseLost(i) \/ Expire(i)
      PROVE  CallerInv'
    <2>1. UNCHANGED <<req, stage, want, wait, seen, got>>
        BY <1>4 DEF LeaseRunsOut, LeaseLost, Expire
    <2> QED BY <1>0, <1>d, <2>1, QuietStep
<1>5. CASE ClockPasses \/ UNCHANGED vars
    <2>1. UNCHANGED <<req, stage, want, wait, seen, got>>
        BY <1>5 DEF ClockPasses, vars
    <2> QED BY <1>0, <1>d, <2>1, QuietStep
<1>6. ASSUME NEW a \in Attempts,
             Claim(a) \/ ClaimWithoutHot(a) \/ Run(a) \/ Fail(a) \/ Crash(a)
      PROVE  CallerInv'
    BY <1>0, <1>6, ClaimStep, RunStep, FailStep, CrashStep
<1>7. ASSUME NEW c \in Clients, NEW t \in Tables, Get(c, t)
      PROVE  CallerInv'
    BY <1>0, <1>7, GetStep
<1>8. ASSUME NEW a \in Attempts, Keep(a)
      PROVE  CallerInv'
    <2>1. UNCHANGED <<req, stage, want, wait, seen, got>>
        BY <1>8 DEF Keep
    <2> QED BY <1>0, <1>d, <2>1, QuietStep
<1> HIDE DEF deployment, database, idempotency, caller
<1> QED BY <1>1, <1>2, <1>3, <1>4, <1>5, <1>6, <1>7, <1>8 DEF Next

\* Every step keeps what the attempts have kept in order.
LEMMA NextKept ==
    ASSUME ServiceInv, [Next]_vars
    PROVE  KeptInv'
<1> USE DEF deployment, database, idempotency, caller
<1>0. /\ KeptInv /\ kept \in [Attempts -> Rows \cup {None}]
      /\ DOMAIN req = Attempts /\ stage \in [Attempts -> {"free", "sent", "run"}]
      /\ RowsInv /\ HistoryInv
    BY DEF ServiceInv, KeptInv, CallerInv, DomainInv, WaitInv, StoreInv, DataInv
<1> DEFINE Stays == /\ kept' \in [Attempts -> Rows \cup {None}]
                    /\ \A b \in Attempts :
                          kept'[b] # None => /\ kept'[b] = kept[b] /\ req'[b] = req[b]
                                             /\ stage'[b] = "run"
<1>1. Stays => KeptInv'
    BY <1>0 DEF KeptInv
<1>2. ASSUME NEW a \in Attempts, kept' = [kept EXCEPT ![a] = None],
             req' = [req EXCEPT ![a] = None], stage' = [stage EXCEPT ![a] = "free"]
      PROVE  Stays
    BY <1>0, <1>2 DEF KeptInv
<1>3. UNCHANGED <<kept, req, stage>> => Stays
    BY <1>0 DEF KeptInv
<1>4. ASSUME NEW c \in Clients, NEW r, Send(c, r), kept' = kept
      PROVE  Stays
    <2>1. PICK a \in Attempts : /\ stage[a] = "free"
                                /\ req' = [req EXCEPT ![a] = r]
                                /\ stage' = [stage EXCEPT ![a] = "sent"]
        BY <1>4 DEF Send, Free, Attempts
    <2> QED BY <1>0, <1>4, <2>1 DEF KeptInv
<1>5. ASSUME NEW c \in Clients, Request(c) \/ Retry(c)
      PROVE  Stays
    <2>1. kept' = kept /\ \E r : Send(c, r)
        BY <1>5 DEF Request, Retry
    <2> HIDE DEF Stays
    <2> QED BY <1>4, <2>1
<1>6. ASSUME NEW c \in Clients, Timeout(c) \/ \E t \in Tables : Get(c, t)
      PROVE  UNCHANGED <<kept, req, stage>>
    BY <1>6 DEF Timeout, Get
<1>7. ASSUME NEW a \in Attempts, NEW status, NEW doc, Answer(a, status, doc)
      PROVE  Stays
    <2>1. /\ kept' = [kept EXCEPT ![a] = None] /\ req' = [req EXCEPT ![a] = None]
          /\ stage' = [stage EXCEPT ![a] = "free"]
        BY <1>7 DEF Answer
    <2> QED BY <1>2, <2>1
<1>8. ASSUME NEW a \in Attempts, stage' = [stage EXCEPT ![a] = "run"], UNCHANGED <<kept, req>>
      PROVE  Stays
    BY <1>0, <1>8 DEF KeptInv
<1> HIDE DEF Stays
<1>9. ASSUME NEW a \in Attempts, Claim(a) \/ ClaimWithoutHot(a)
      PROVE  Stays
    <2>1. \/ stage' = [stage EXCEPT ![a] = "run"] /\ UNCHANGED <<kept, req>>
          \/ \E status, doc : Answer(a, status, doc)
        BY <1>9 DEF Claim, ClaimWithoutHot, Resolve
    <2> QED BY <1>7, <1>8, <2>1
<1>10. ASSUME NEW a \in Attempts, Run(a) \/ Fail(a)
       PROVE  Stays
    <2>1. \E status, doc : Answer(a, status, doc)
        BY <1>10 DEF Run, Fail, Resolve
    <2> QED BY <1>7, <2>1
<1>11. ASSUME NEW a \in Attempts, Crash(a)
       PROVE  Stays
    BY <1>2, <1>11 DEF Crash
<1>12. ASSUME NEW a \in Attempts, Keep(a)
       PROVE  KeptInv'
    <2> DEFINE k == RowOf(req[a])
    <2>1. /\ stage[a] = "run" /\ req[a].kind = "change" /\ Outcome(req[a]) = "ok"
          /\ ~Changes(rows[k], req[a].content)
          /\ kept' = [kept EXCEPT ![a] = rows[k]]
          /\ UNCHANGED <<req, stage>>
        BY <1>12 DEF Keep, RowOf
    <2>2. Admitted(req[a])
        BY <2>1 DEF ServiceInv, CallerInv, WaitInv, AttemptInv
    <2>3. rows[k] = req[a].basis /\ rows[k] \in Row(k[1])
        BY <1>0, <2>1, <2>2, AcceptedChange
    <2>4. rows[k] \in Rows
        <3>1. k[1] \in Tables
            BY <2>2, AdmittedFacts DEF Admitted, Key
        <3> QED BY <2>3, <3>1, RowFacts
    <2> HIDE DEF k
    <2> QED BY <1>0, <2>1, <2>3, <2>4 DEF KeptInv
<1>13. ASSUME NEW i \in Identity, LeaseRunsOut(i) \/ LeaseLost(i) \/ Expire(i)
       PROVE  UNCHANGED <<kept, req, stage>>
    BY <1>13 DEF LeaseRunsOut, LeaseLost, Expire
<1>14. CASE ClockPasses \/ UNCHANGED vars
    BY <1>1, <1>3, <1>14 DEF ClockPasses, vars
<1> HIDE DEF deployment, database, idempotency, caller
<1> QED BY <1>1, <1>3, <1>5, <1>6, <1>9, <1>10, <1>11, <1>12, <1>13, <1>14 DEF Next

\* Every step keeps the leases in order.
LEMMA NextLease ==
    ASSUME ServiceInv, [Next]_vars
    PROVE  LeaseInv'
<1> USE DEF deployment, database, idempotency, caller
<1>0. LeaseInv
    BY DEF ServiceInv
<1>1. ASSUME NEW a \in Attempts, stage[a] # "free"
      PROVE  IdentityOf(req[a]) \in Identity
    <2>1. Admitted(req[a])
        BY <1>1 DEF ServiceInv, CallerInv, WaitInv, AttemptInv
    <2> QED BY <2>1, AdmittedFacts DEF Admitted
<1>2. ASSUME NEW c \in Clients, Request(c) \/ Timeout(c) \/ Retry(c)
      PROVE  lease' = lease
    BY <1>2 DEF Request, Timeout, Retry
<1>3. ASSUME NEW c \in Clients, NEW t \in Tables, Get(c, t)
      PROVE  lease' = lease
    BY <1>3 DEF Get
<1>4. ASSUME NEW i \in Identity, LeaseRunsOut(i) \/ LeaseLost(i) \/ Expire(i)
      PROVE  lease' = lease \/ lease' = [lease EXCEPT ![i] = None]
    BY <1>4 DEF LeaseRunsOut, LeaseLost, Expire
<1>5. CASE ClockPasses \/ UNCHANGED vars
    BY <1>0, <1>5, LeaseStep DEF ClockPasses, vars
<1>6. ASSUME NEW a \in Attempts, Claim(a)
      PROVE  LeaseInv'
    <2>1. IdentityOf(req[a]) \in Identity
        BY <1>1, <1>6 DEF Claim
    <2>2. \/ lease' = lease
          \/ lease' = [lease EXCEPT ![IdentityOf(req[a])] =
                          [fp |-> Fingerprint(req[a]), by |-> a]]
        BY <1>6 DEF Claim
    <2>3. CASE lease' = lease
        BY <1>0, <2>3, LeaseStep
    <2>4. CASE lease' = [lease EXCEPT ![IdentityOf(req[a])] =
                            [fp |-> Fingerprint(req[a]), by |-> a]]
        BY <1>0, <2>1, <2>4 DEF LeaseInv
    <2> QED BY <2>2, <2>3, <2>4
<1>7. ASSUME NEW a \in Attempts, ClaimWithoutHot(a) \/ Keep(a) \/ Run(a) \/ Fail(a) \/ Crash(a)
      PROVE  LeaseInv'
    <2>1. IdentityOf(req[a]) \in Identity
        BY <1>1, <1>7 DEF ClaimWithoutHot, Keep, Run, Fail, Crash
    <2>2. lease' = lease \/ \E how \in {"released", "left"} :
                                lease' = Leave(a, IdentityOf(req[a]), how)
        BY <1>7 DEF ClaimWithoutHot, Keep, Run, Fail, Crash
    <2>3. CASE lease' = lease
        BY <1>0, <2>3, LeaseStep
    <2>4. ASSUME NEW how \in {"released", "left"},
                 lease' = Leave(a, IdentityOf(req[a]), how)
          PROVE  LeaseInv'
        BY <1>0, <2>1, <2>4, LeaseStep
    <2> QED BY <2>2, <2>3, <2>4
<1>8. ASSUME NEW i \in Identity, lease' = [lease EXCEPT ![i] = None]
      PROVE  LeaseInv'
    BY <1>0, <1>8 DEF LeaseInv
<1>9. lease' = lease => LeaseInv'
    BY <1>0, LeaseStep
<1> HIDE DEF deployment, database, idempotency, caller
<1> QED BY <1>2, <1>3, <1>4, <1>5, <1>6, <1>7, <1>8, <1>9 DEF Next

\* Every step keeps the invariant.
LEMMA NextService ==
    ASSUME ServiceInv, [Next]_vars
    PROVE  ServiceInv'
<1>1. /\ Grows /\ StoreInv'
      /\ UNCHANGED <<configured, session>>
      /\ \A j \in Identity : expired[j] <= expired'[j]
      /\ faults' \in 0..MaxFaults /\ faults <= faults'
    <2>1. StoreInv /\ AttemptInv /\ KeptInv /\ faults \in 0..MaxFaults
        BY DEF ServiceInv, CallerInv
    <2>2. \A a \in Attempts : stage[a] = "run" => req[a] # None
        BY DEF ServiceInv, CallerInv, WaitInv
    <2> QED BY <2>1, <2>2, NextData
<1>2. Moves
    BY <1>1, BoundsAssumption DEF Moves, ServiceInv
<1>3. CallerInv' /\ KeptInv' /\ LeaseInv'
    BY <1>2, NextCaller, NextKept, NextLease
<1>4. clock' \in {"before", "after"}
    <2>1. clock' \in {clock, "after"}
        BY DEF Next, vars, Request, Timeout, Retry, Get, Claim, ClaimWithoutHot, Keep, Run,
               Fail, Crash, LeaseRunsOut, LeaseLost, Expire, ClockPasses, database
    <2> QED BY <2>1 DEF ServiceInv
<1> QED BY <1>1, <1>3, <1>4 DEF ServiceInv

-----------------------------------------------------------------------------
(* The theorems.                                                           *)

\* The invariant holds in every reachable state: every stored row has a history
\* in which a version names one content, every memory repeats the outcome on the
\* content it names, and every caller holds contents that its row really had.
THEOREM ServiceInvariant == Spec => []ServiceInv
<1>1. ServiceInv /\ [Next]_vars => ServiceInv'
    BY NextService
<1> QED BY <1>1, InitService, PTL DEF Spec

\* The service keeps its types; nobody waits for an attempt that is not served.
THEOREM ServiceIsTyped == Spec => []TypeOK
BY ServiceInvariant, ServiceTypes, PTL

\* No lost update from the client's point of view: what MatchesVersion lets
\* through was made on exactly the content that its client was given.
THEOREM CommittedEditsBuildOnSeen == Spec => []EditsBuildOnSeen
<1>1. ServiceInv => EditsBuildOnSeen
    BY DEF ServiceInv, StoreInv, DataInv, HistoryInv, Entered, EditsBuildOnSeen
<1> QED BY <1>1, ServiceInvariant, PTL

\* Retries change a row once, even past the retention of the memory: the version
\* that a request names is current once.
THEOREM RetriesApplyOnce == Spec => []AppliedOnce
<1>1. ServiceInv => AppliedOnce
    <2> SUFFICES ASSUME ServiceInv, NEW k \in Key, NEW m \in DOMAIN log[k],
                        NEW n \in DOMAIN log[k],
                        SameOperation(log[k][m].request, log[k][n].request)
                 PROVE  m = n
        BY DEF AppliedOnce
    <2>1. HistoryInv
        BY DEF ServiceInv, StoreInv, DataInv
    <2>2. \A x \in DOMAIN log[k] : log[k][x].before.version = log[k][x].request.if_match
        BY <2>1 DEF HistoryInv, Entered, Sound
    <2>3. log[k][m].request.if_match = log[k][n].request.if_match
        BY DEF SameOperation, Fingerprint
    <2>4. log[k][m].before.version = log[k][n].before.version
        BY <2>2, <2>3
    <2> QED BY <2>1, <2>4 DEF HistoryInv
<1> QED BY <1>1, ServiceInvariant, PTL

\* 200 to a PATCH carries the client's own changes on the content it knew, also
\* when it is replayed after others have moved the row on.
THEOREM SuccessIsWhatWasAsked == Spec => []AnswerIsAsked
<1>1. ServiceInv => AnswerIsAsked
    BY DEF ServiceInv, CallerInv, AnsweredInv, Answered, Applied, AnswerIsAsked
<1> QED BY <1>1, ServiceInvariant, PTL

\* "Version conflict" is final: no attempt of the request has been or will be
\* applied while its memory has not expired.
THEOREM VersionConflictsAreFinal == Spec => []VersionConflictIsFinal
<1>1. ServiceInv => VersionConflictIsFinal
    BY DEF ServiceInv, CallerInv, AnsweredInv, Answered, RowOf, VersionConflictIsFinal
<1> QED BY <1>1, ServiceInvariant, PTL

\* 204 means that the user has both rows, although a remembered completion is
\* answered without a look at them.
THEOREM ProvisionedUsersAreServed == Spec => []ProvisionedIsServed
<1>1. ServiceInv => ProvisionedIsServed
    BY DEF ServiceInv, CallerInv, AnsweredInv, Answered, ProvisionedIsServed
<1> QED BY <1>1, ServiceInvariant, PTL

\* A client that follows the contract passes the boundary with every version it
\* was given, and a 500 has one of the three named causes.
THEOREM FaithfulClientsAreServed == Spec => []FaithfulClientServed
<1>1. ServiceInv => FaithfulClientServed
    <2> SUFFICES ASSUME ServiceInv PROVE FaithfulClientServed
        OBVIOUS
    <2>1. ASSUME NEW c \in Clients, configured = {"verifier", "service_token"},
                 NEW r \in Requests(c), Faithful(r)
          PROVE  Refusals(r) = <<>>
        <3>0. TypeOK
            BY ServiceTypes
        <3>1. r.token = "good" /\ r.body = "ok"
            BY <2>1 DEF Faithful
        <3>2. CASE r.kind = "change"
            <4>1. r.key # None /\ r.if_match = r.basis.version
                BY <2>1, <3>2 DEF Faithful
            <4>2. /\ r \in PatchSpace /\ r.basis = seen[c][r.table] /\ r.basis # None
                BY <2>1, <3>0, <3>2, RequestFacts
            <4>3. r.table \in Tables
                BY <4>2 DEF PatchSpace
            <4>4. session[c] # None /\ r.basis \in Versions(<<r.table, session[c]>>)
                BY <4>2, <4>3 DEF ServiceInv, CallerInv, SeenInv
            <4>5. <<r.table, session[c]>> \in Key
                BY <3>0, <4>3, <4>4, SessionFacts DEF Key
            <4>6. r.if_match \in 1..MaxVersion
                BY <4>1, <4>4, <4>5, VersionFacts DEF ServiceInv, StoreInv, DataInv
            <4>7. r.if_match # None
                BY <4>6, NoneAssumption
            <4> QED BY <2>1, <3>1, <3>2, <4>1, <4>6, <4>7, BoundaryDecides
        <3>3. CASE r.kind # "change"
            <4>1. r.kind = "provision"
                BY <2>1, <3>0, <3>3, RequestFacts
            <4> QED BY <2>1, <3>1, <4>1, BoundaryDecides
        <3> QED BY <3>2, <3>3
    <2>2. ASSUME NEW c \in Clients, got[c] # None, Faithful(got[c].request)
          PROVE  \/ got[c].status \in {"200", "204", "409 version", "409 taken", "409 key"}
                 \/ /\ got[c].status = "500"
                    /\ \/ faults > 0
                       \/ got[c].request.basis # None
                          /\ \/ <<got[c].request.table, got[c].request.user>> \in born
                             \/ got[c].request.basis.version = MaxVersion
        BY <2>2 DEF ServiceInv, CallerInv, AnsweredInv, Answered, RowOf
    <2> QED BY <2>1, <2>2 DEF FaithfulClientServed
<1> QED BY <1>1, ServiceInvariant, PTL
=============================================================================
