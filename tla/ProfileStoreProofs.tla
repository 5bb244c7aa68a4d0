------------------------- MODULE ProfileStoreProofs -------------------------
(***************************************************************************)
(* Proofs about ProfileStore for any number of clients, users, usernames   *)
(* and commands, and any valid content of the tables.                      *)
(***************************************************************************)
EXTENDS ProfileStore, ProfileDataProofs, TLAPS

\* Which command is where, and which rows it may hold.
ControlInv ==
    \A c \in Clients :
        /\ pc[c] # "idle" => cmd[c] \in Commands
        /\ pc[c] \in Tables => cmd[c].kind = "provision"
        /\ pc[c] \in {"select", "update", "index"} => cmd[c].kind = "change"
        /\ held[c] # {} => pc[c] \in {"settings", "index", "commit"}
        /\ out[c] = "ok" => pc[c] = "done"

\* A written row is locked: no two open transactions have written the same.
LockInv ==
    \A c, d \in Clients : c # d => held[c] \cap held[d] = {}

\* A provisioning transaction has written exactly the halves it found missing.
ProvisionInv ==
    \A c \in Clients :
        (pc[c] # "idle" /\ cmd[c].kind = "provision") =>
            /\ \A k \in held[c] : k[2] = cmd[c].user /\ rows[k] = None
            /\ pc[c] \in {"settings", "commit"} =>
                  (rows[<<"profile", cmd[c].user>>] = None
                      => <<"profile", cmd[c].user>> \in held[c])
            /\ pc[c] = "commit" =>
                  (rows[<<"settings", cmd[c].user>>] = None
                      => <<"settings", cmd[c].user>> \in held[c])

\* The new row of c is its patch on top of the committed row.
OnTop(c) ==
    LET k == KeyOf(cmd[c]) IN
    /\ Changes(rows[k], cmd[c].patch)
    /\ draft[c] = Changed(rows[k], cmd[c].patch)

\* A change that has read its row never finds it older or gone, and as long as
\* the version is the expected one its new row is on top of the committed row.
ChangeInv ==
    \A c \in Clients :
        LET k == KeyOf(cmd[c]) IN
        (pc[c] # "idle" /\ cmd[c].kind = "change") =>
            /\ held[c] \subseteq {k}
            /\ pc[c] \in {"update", "index", "commit"} =>
                  /\ rows[k] # None
                  /\ draft[c] \in Row(k[1])
                  /\ cmd[c].expected <= rows[k].version
            /\ pc[c] = "update" =>
                  (rows[k].version = cmd[c].expected => OnTop(c))
            /\ pc[c] = "index" => k[1] = "profile" /\ held[c] # {}
            /\ held[c] # {} => rows[k].version = cmd[c].expected /\ OnTop(c)

\* c has written the profile row k, its index entry included.
Entered(c, k) == k \in held[c] /\ k[1] = "profile" /\ pc[c] = "commit"

\* Two rows that would be in conflict under the unique index.
Clash(r, s) ==
    /\ r # None /\ s # None
    /\ r.fields.username # None
    /\ r.fields.username = s.fields.username

\* The committed usernames are unique, and a written row that is past the index
\* clashes with no other committed row and with no other row past the index.
IndexInv ==
    /\ Unique(rows)
    /\ \A c \in Clients, k, o \in Key :
          (Entered(c, k) /\ o # k /\ o[1] = "profile") =>
              /\ ~Clash(Written(c, k), rows[o])
              /\ \A d \in Clients :
                    Entered(d, o) => ~Clash(Written(c, k), Written(d, o))

StoreInv ==
    /\ TypeOK
    /\ ControlInv
    /\ LockInv
    /\ ProvisionInv
    /\ ChangeInv
    /\ IndexInv

\* Clients that answer, or are about to, with the row they hold.
Answered(c) ==
    /\ pc[c] # "idle"
    /\ cmd[c].kind = "change"
    /\ out[c] = "ok" \/ (pc[c] = "commit" /\ held[c] = {})

\* VersionNamesContent, for these clients too.
AnswerInv ==
    \A c \in Clients :
        Answered(c) =>
            LET row == rows[KeyOf(cmd[c])] IN
            /\ row # None
            /\ draft[c] # None
            /\ draft[c].version <= row.version
            /\ draft[c].version = row.version => draft[c] = row
            /\ \A d \in Clients :
                  (/\ Answered(d) /\ KeyOf(cmd[d]) = KeyOf(cmd[c])
                   /\ draft[d].version = draft[c].version)
                      => draft[d] = draft[c]

-----------------------------------------------------------------------------
(* The invariant.                                                          *)

\* No command is under way initially.
LEMMA InitStore == Init => StoreInv
<1> SUFFICES ASSUME Init PROVE StoreInv
    OBVIOUS
<1> USE DEF Init
<1>1. rows \in Start /\ Unique(rows)
      /\ \A k \in Key : rows[k] \in Row(k[1]) \cup {None}
    BY StartAssumption
<1>2. rows \in [Key -> Rows \cup {None}]
    <2>1. \A k \in Key : rows[k] \in Rows \cup {None}
        BY <1>1, RowFacts DEF Key
    <2>2. rows = [k \in Key |-> rows[k]]
        BY StartAssumption
    <2> QED BY <2>1, <2>2
<1>3. TypeOK
    BY <1>1, <1>2 DEF TypeOK, Control, Outcome
<1>4. ControlInv /\ LockInv /\ ProvisionInv /\ ChangeInv
    BY DEF ControlInv, LockInv, ProvisionInv, ChangeInv, Tables
<1>5. IndexInv
    BY <1>1 DEF IndexInv, Entered
<1> QED BY <1>3, <1>4, <1>5 DEF StoreInv

\* A transaction that ends without a commit leaves the rest as it was.
LEMMA EndKeeps ==
    ASSUME StoreInv, NEW c \in Clients, NEW o \in Outcome \ {"ok"},
           pc[c] # "idle", End(c, o), UNCHANGED rows
    PROVE  StoreInv'
<1> USE DEF StoreInv, End, Goto
<1>1. TypeOK'
    BY DEF TypeOK, Control
<1>2. ControlInv'
    BY DEF ControlInv, TypeOK, Tables
<1>3. LockInv'
    BY DEF LockInv, TypeOK
<1>4. ProvisionInv'
    BY DEF ProvisionInv, TypeOK
<1>5. ChangeInv'
    BY DEF ChangeInv, TypeOK, OnTop
<1>6. IndexInv'
    <2>1. \A d \in Clients, k \in Key :
             Entered(d, k)' => Entered(d, k) /\ Written(d, k)' = Written(d, k)
        BY DEF Entered, Written, TypeOK
    <2> QED BY <2>1 DEF IndexInv
<1> QED BY <1>1, <1>2, <1>3, <1>4, <1>5, <1>6

\* Uniqueness of usernames, said with Clash.
LEMMA UniqueIsNoClash ==
    ASSUME NEW r
    PROVE  Unique(r) <=> \A k, o \in Key :
               (k # o /\ k[1] = "profile" /\ o[1] = "profile") => ~Clash(r[k], r[o])
BY DEF Unique, Clash

\* What a transaction at its commit has written: a well-formed row that is new
\* or one version ahead of the committed row.
LEMMA WrittenRow ==
    ASSUME StoreInv, NEW c \in Clients, pc[c] = "commit", NEW k \in held[c]
    PROVE  /\ k \in Key
           /\ Written(c, k) \in Row(k[1])
           /\ rows[k] # None => /\ cmd[c].kind = "change"
                                /\ k = KeyOf(cmd[c])
                                /\ Written(c, k).version = rows[k].version + 1
<1>1. cmd[c] \in Commands /\ held[c] \subseteq Key
    BY DEF StoreInv, ControlInv, TypeOK
<1>2. k \in Key /\ k[1] \in Tables
    BY <1>1 DEF Key
<1>3. CASE cmd[c].kind = "provision"
    BY <1>1, <1>2, <1>3, DefaultRow DEF StoreInv, ProvisionInv, Written
<1>4. CASE cmd[c].kind = "change"
    <2>1. k = KeyOf(cmd[c]) /\ rows[k] # None /\ OnTop(c)
        BY <1>4 DEF StoreInv, ChangeInv
    <2>2. rows[k] \in Row(k[1])
        BY <1>2, <2>1 DEF StoreInv, TypeOK
    <2>3. Written(c, k) = Changed(rows[k], cmd[c].patch)
        BY <1>4, <2>1 DEF Written, OnTop
    <2> QED BY <1>1, <1>2, <1>4, <2>1, <2>2, <2>3, ChangedRow
<1> QED BY <1>1, <1>3, <1>4, CommandFacts

\* A commit keeps the invariant.
LEMMA CommitKeeps ==
    ASSUME StoreInv, NEW c \in Clients, NEW o \in Outcome,
           pc[c] = "commit", Commits(c), End(c, o)
    PROVE  StoreInv'
<1> USE DEF StoreInv, End, Goto
<1>0. /\ \A k \in Key : rows'[k] = IF k \in held[c] THEN Written(c, k) ELSE rows[k]
      /\ \A k \in held[c] : k \in Key /\ k[1] \in Tables
      /\ \A k \in held[c] : Written(c, k) \in Row(k[1])
      /\ \A k \in held[c] : Written(c, k) \in Rows /\ Written(c, k) # None
    <2>1. \A k \in held[c] : k \in Key /\ k[1] \in Tables /\ Written(c, k) \in Row(k[1])
        BY WrittenRow DEF Key
    <2> QED BY <2>1, RowFacts DEF Commits
<1>1. TypeOK'
    <2>1. rows' \in [Key -> Rows \cup {None}]
        BY <1>0 DEF TypeOK, Commits
    <2>2. \A k \in Key : rows'[k] # None => rows'[k] \in Row(k[1])
        BY <1>0 DEF TypeOK
    <2> QED BY <2>1, <2>2 DEF TypeOK, Control
<1>2. ControlInv'
    BY DEF ControlInv, TypeOK, Tables
<1>3. LockInv'
    BY DEF LockInv, TypeOK
<1>4. ProvisionInv'
    <2> SUFFICES ASSUME NEW d \in Clients, d # c, pc[d] # "idle",
                        cmd[d].kind = "provision"
                 PROVE  /\ \A k \in held[d] : k[2] = cmd[d].user /\ rows'[k] = None
                        /\ pc[d] \in {"settings", "commit"} =>
                              (rows'[<<"profile", cmd[d].user>>] = None
                                  => <<"profile", cmd[d].user>> \in held[d])
                        /\ pc[d] = "commit" =>
                              (rows'[<<"settings", cmd[d].user>>] = None
                                  => <<"settings", cmd[d].user>> \in held[d])
        BY DEF ProvisionInv, TypeOK
    <2>1. \A k \in held[d] : k \in Key /\ k \notin held[c]
        BY DEF LockInv, TypeOK
    <2>2. \A t \in Tables : <<t, cmd[d].user>> \in Key
        BY CommandFacts DEF ControlInv, Key
    <2> QED BY <1>0, <2>1, <2>2 DEF ProvisionInv, Tables
<1>5. ChangeInv'
    <2> SUFFICES ASSUME NEW d \in Clients, d # c, pc[d] # "idle",
                        cmd[d].kind = "change", NEW k, k = KeyOf(cmd[d])
                 PROVE  /\ held[d] \subseteq {k}
                        /\ pc[d] \in {"update", "index", "commit"} =>
                              /\ rows'[k] # None
                              /\ draft[d] \in Row(k[1])
                              /\ cmd[d].expected <= rows'[k].version
                        /\ pc[d] = "update" =>
                              (rows'[k].version = cmd[d].expected => OnTop(d)')
                        /\ pc[d] = "index" => k[1] = "profile" /\ held[d] # {}
                        /\ held[d] # {} =>
                              rows'[k].version = cmd[d].expected /\ OnTop(d)'
        BY DEF ChangeInv, TypeOK
    <2>0. k \in Key /\ cmd[d].expected \in Nat
        BY CommandFacts DEF ControlInv
    <2>1. CASE k \notin held[c]
        BY <1>0, <2>0, <2>1 DEF ChangeInv, OnTop
    <2>2. CASE k \in held[c]
        <3>1. held[d] = {}
            BY <2>2 DEF LockInv, ChangeInv
        <3>2. rows'[k] = Written(c, k) /\ rows'[k] # None
            BY <1>0, <2>0, <2>2
        <3>3. CASE rows[k] = None
            BY <3>1, <3>3 DEF ChangeInv
        <3>4. CASE rows[k] # None
            <4>1. rows'[k].version = rows[k].version + 1
                BY <2>2, <3>2, <3>4, WrittenRow
            <4>2. rows[k].version \in Nat
                BY <2>0, <3>4, RowFacts DEF TypeOK, Key
            <4> QED BY <2>0, <3>1, <3>2, <3>4, <4>1, <4>2 DEF ChangeInv
        <3> QED BY <3>3, <3>4
    <2> QED BY <2>1, <2>2
<1>6. IndexInv'
    <2>1. \A d \in Clients, k \in Key :
             Entered(d, k)' => /\ d # c
                               /\ Entered(d, k)
                               /\ Written(d, k)' = Written(d, k)
        BY DEF Entered, Written, TypeOK
    <2>2. \A k \in held[c] : k[1] = "profile" => Entered(c, k)
        BY DEF Entered
    <2>3. Unique(rows')
        <3> SUFFICES ASSUME NEW k \in Key, NEW p \in Key, k # p,
                            k[1] = "profile", p[1] = "profile"
                     PROVE  ~Clash(rows'[k], rows'[p])
            BY UniqueIsNoClash
        <3>1. ~Clash(rows[k], rows[p])
            BY UniqueIsNoClash DEF IndexInv
        <3>2. k \in held[c] => ~Clash(Written(c, k), rows[p])
            BY <2>2 DEF IndexInv
        <3>3. p \in held[c] => ~Clash(rows[k], Written(c, p))
            BY <2>2 DEF IndexInv, Clash
        <3>4. k \in held[c] /\ p \in held[c] => ~Clash(Written(c, k), Written(c, p))
            BY <2>2 DEF IndexInv
        <3> QED BY <1>0, <3>1, <3>2, <3>3, <3>4
    <2>4. ASSUME NEW d \in Clients, NEW k \in Key, NEW p \in Key,
                 Entered(d, k)', p # k, p[1] = "profile"
          PROVE  /\ ~Clash(Written(d, k)', rows'[p])
                 /\ \A x \in Clients :
                       Entered(x, p)' => ~Clash(Written(d, k)', Written(x, p)')
        BY <1>0, <2>1, <2>2, <2>4 DEF IndexInv
    <2> QED BY <2>3, <2>4 DEF IndexInv
<1> QED BY <1>1, <1>2, <1>3, <1>4, <1>5, <1>6

\* A step that only moves client c keeps what concerns the index, as long as
\* nothing new is past the index.
LEMMA IndexKept ==
    ASSUME StoreInv, NEW c \in Clients, UNCHANGED rows,
           \A d \in Clients, k \in Key :
               Entered(d, k)' => Entered(d, k) /\ Written(d, k)' = Written(d, k)
    PROVE  IndexInv'
BY DEF StoreInv, IndexInv

\* A client picks its command.
LEMMA BeginKeeps ==
    ASSUME StoreInv, NEW c \in Clients, Begin(c)
    PROVE  StoreInv'
<1> USE DEF StoreInv, Begin, Goto
<1>0. pc[c] = "idle" /\ held[c] = {} /\ out[c] # "ok" /\ UNCHANGED <<rows, held, draft, out>>
    BY DEF ControlInv, Tables
<1> PICK m \in Commands :
        /\ cmd' = [cmd EXCEPT ![c] = m]
        /\ pc' = [pc EXCEPT ![c] = IF m.kind = "provision" THEN "profile" ELSE "select"]
    OBVIOUS
<1>1. TypeOK'
    BY <1>0 DEF TypeOK, Control
<1>2. ControlInv'
    BY <1>0, CommandFacts DEF ControlInv, TypeOK, Tables
<1>3. LockInv'
    BY <1>0 DEF LockInv
<1>4. ProvisionInv'
    BY <1>0 DEF ProvisionInv, TypeOK
<1>5. ChangeInv'
    BY <1>0 DEF ChangeInv, TypeOK, OnTop
<1>6. IndexInv'
    <2>1. \A d \in Clients, k \in Key :
             Entered(d, k)' => Entered(d, k) /\ Written(d, k)' = Written(d, k)
        BY <1>0 DEF Entered, Written, TypeOK
    <2> QED BY <1>0, <2>1, IndexKept
<1> QED BY <1>1, <1>2, <1>3, <1>4, <1>5, <1>6

\* A half that is missing is written, one that exists is left alone.
LEMMA InsertKeeps ==
    ASSUME StoreInv, NEW c \in Clients, NEW t \in Tables, Insert(c, t)
    PROVE  StoreInv'
<1> USE DEF StoreInv, Insert, Goto
<1> DEFINE k == <<t, cmd[c].user>>
<1>0. /\ pc[c] = t /\ cmd[c] \in Commands /\ cmd[c].kind = "provision"
      /\ UNCHANGED <<rows, cmd, draft, out>>
      /\ k \in Key /\ k[1] = t /\ k[2] = cmd[c].user
      /\ \A d \in Clients \ {c} : k \notin held[d]
      /\ held' = [held EXCEPT ![c] = IF rows[k] = None THEN @ \cup {k} ELSE @]
      /\ pc' = [pc EXCEPT ![c] = AfterInsert(c, t)]
      /\ AfterInsert(c, t) = IF t = "profile" THEN "settings" ELSE "commit"
    BY CommandFacts DEF ControlInv, Tables, Key, LockedByOther, AfterInsert
<1>1. TypeOK'
    BY <1>0 DEF TypeOK, Control
<1>2. ControlInv'
    BY <1>0 DEF ControlInv, TypeOK, Tables
<1>3. LockInv'
    BY <1>0 DEF LockInv, TypeOK
<1>4. ProvisionInv'
    <2>1. t = "profile" => held[c] = {}
        BY <1>0 DEF ControlInv
    <2>2. \A d \in Clients \ {c} : held'[d] = held[d] /\ pc'[d] = pc[d]
        BY <1>0 DEF TypeOK
    <2>3. /\ held'[c] = IF rows[k] = None THEN held[c] \cup {k} ELSE held[c]
          /\ pc'[c] = IF t = "profile" THEN "settings" ELSE "commit"
        BY <1>0 DEF TypeOK
    <2>4. \A p \in held'[c] : p[2] = cmd[c].user /\ rows[p] = None
        <3>1. \A p \in held[c] : p[2] = cmd[c].user /\ rows[p] = None
            BY <1>0 DEF ProvisionInv, Tables
        <3> HIDE DEF k, Insert, StoreInv
        <3> QED BY <1>0, <2>3, <3>1
    <2>5. rows[<<t, cmd[c].user>>] = None => <<t, cmd[c].user>> \in held'[c]
        BY <2>3
    <2>6. t = "settings" => (rows[<<"profile", cmd[c].user>>] = None
                                => <<"profile", cmd[c].user>> \in held'[c])
        BY <1>0, <2>3 DEF ProvisionInv
    <2> HIDE DEF k, Insert
    <2> QED BY <1>0, <2>2, <2>3, <2>4, <2>5, <2>6 DEF ProvisionInv, Tables
<1>5. ChangeInv'
    BY <1>0 DEF ChangeInv, TypeOK, OnTop
<1>6. IndexInv'
    <2>1. \A d \in Clients, p \in Key : Written(d, p)' = Written(d, p)
        BY <1>0 DEF Written
    <2>2. \A d \in Clients \ {c}, p \in Key : Entered(d, p)' => Entered(d, p)
        BY <1>0 DEF Entered, TypeOK
    <2>3. \A p \in Key : \A q :
             Entered(c, p)' => ~Clash(Written(c, p), q) /\ ~Clash(q, Written(c, p))
        BY <1>0, DefaultRow DEF Entered, Written, Clash, Key
    <2> QED BY <1>0, <2>1, <2>2, <2>3 DEF IndexInv
<1> QED BY <1>1, <1>2, <1>3, <1>4, <1>5, <1>6

\* The handler has read its row and moves on to the UPDATE or to the commit.
LEMMA SelectKeeps ==
    ASSUME StoreInv, NEW c \in Clients, Select(c)
    PROVE  StoreInv'
<1> DEFINE k == KeyOf(cmd[c])
<1>0. pc[c] = "select" /\ UNCHANGED rows
    BY DEF Select
<1>1. CASE \E o \in {"not_found", "mismatch"} : End(c, o)
    BY <1>0, <1>1, EndKeeps DEF Outcome
<1>2. CASE /\ rows[k] # None /\ rows[k].version = cmd[c].expected
           /\ \/ /\ Changes(rows[k], cmd[c].patch)
                 /\ draft' = [draft EXCEPT ![c] = Changed(rows[k], cmd[c].patch)]
                 /\ Goto(c, "update")
              \/ /\ draft' = [draft EXCEPT ![c] = rows[k]]
                 /\ Goto(c, "commit")
           /\ UNCHANGED <<cmd, held, out>>
    <2> USE DEF StoreInv, Goto
    <2>0. /\ cmd[c] \in Commands /\ cmd[c].kind = "change" /\ held[c] = {}
          /\ k \in Key /\ rows[k] \in Row(k[1]) /\ k[1] \in Tables
          /\ cmd[c].expected \in Nat /\ out[c] # "ok"
        BY <1>0, <1>2, CommandFacts DEF ControlInv, TypeOK, Key, Tables
    <2>1. draft'[c] \in Row(k[1]) /\ draft'[c] \in Rows
        BY <1>2, <2>0, ChangedRow, RowFacts DEF TypeOK
    <2>2. TypeOK'
        BY <1>0, <1>2, <2>1 DEF TypeOK, Control
    <2>3. ControlInv'
        BY <1>0, <1>2, <2>0 DEF ControlInv, TypeOK, Tables
    <2>4. LockInv' /\ ProvisionInv'
        BY <1>0, <1>2, <2>0 DEF LockInv, ProvisionInv, TypeOK
    <2>5. ChangeInv'
        <3> SUFFICES ASSUME NEW d \in Clients, pc'[d] # "idle", cmd[d].kind = "change",
                            NEW p, p = KeyOf(cmd[d])
                     PROVE  /\ held[d] \subseteq {p}
                            /\ pc'[d] \in {"update", "index", "commit"} =>
                                  /\ rows[p] # None
                                  /\ draft'[d] \in Row(p[1])
                                  /\ cmd[d].expected <= rows[p].version
                            /\ pc'[d] = "update" =>
                                  (rows[p].version = cmd[d].expected => OnTop(d)')
                            /\ pc'[d] = "index" => p[1] = "profile" /\ held[d] # {}
                            /\ held[d] # {} =>
                                  rows[p].version = cmd[d].expected /\ OnTop(d)'
            BY <1>0, <1>2 DEF ChangeInv
        <3>1. CASE d = c
            BY <1>0, <1>2, <2>0, <2>1, <3>1 DEF OnTop, TypeOK
        <3>2. CASE d # c
            BY <1>0, <1>2, <3>2 DEF ChangeInv, OnTop, TypeOK
        <3> QED BY <3>1, <3>2
    <2>6. IndexInv'
        <3>1. \A d \in Clients, p \in Key :
                 Entered(d, p)' => Entered(d, p) /\ Written(d, p)' = Written(d, p)
            BY <1>2, <2>0 DEF Entered, Written, TypeOK
        <3> QED BY <1>0, <3>1, IndexKept
    <2> QED BY <2>2, <2>3, <2>4, <2>5, <2>6
<1> QED BY <1>1, <1>2 DEF Select

\* The UPDATE finds the version it expects and locks the row, or ends.
LEMMA UpdateKeeps ==
    ASSUME StoreInv, NEW c \in Clients, Update(c)
    PROVE  StoreInv'
<1> DEFINE k == KeyOf(cmd[c])
<1>0. pc[c] = "update" /\ UNCHANGED rows /\ ~LockedByOther(c, k)
    BY DEF Update
<1>1. CASE End(c, "mismatch")
    BY <1>0, <1>1, EndKeeps DEF Outcome
<1>2. CASE /\ MatchesVersion(c)
           /\ held' = [held EXCEPT ![c] = @ \cup {k}]
           /\ Goto(c, IF k[1] = "profile"
                          /\ draft[c].fields.username # rows[k].fields.username
                       THEN "index" ELSE "commit")
           /\ UNCHANGED <<cmd, draft, out>>
    <2> USE DEF StoreInv, Goto
    <2>0. /\ cmd[c] \in Commands /\ cmd[c].kind = "change" /\ held[c] = {}
          /\ k \in Key /\ rows[k] \in Row(k[1]) /\ k[1] \in Tables /\ rows[k] # None
          /\ cmd[c].expected \in Nat /\ out[c] # "ok"
          /\ rows[k].version = cmd[c].expected /\ OnTop(c)
          /\ draft[c] \in Row(k[1])
        BY <1>0, <1>2, CommandFacts
           DEF ControlInv, ChangeInv, TypeOK, Key, Tables, MatchesVersion
    <2>1. /\ held'[c] = {k} /\ pc'[c] \in {"index", "commit"}
          /\ pc'[c] = "index" => k[1] = "profile"
          /\ \A d \in Clients \ {c} : /\ held'[d] = held[d] /\ pc'[d] = pc[d]
                                       /\ k \notin held[d]
        BY <1>0, <1>2, <2>0 DEF TypeOK, LockedByOther
    <2>2. TypeOK'
        BY <1>0, <1>2, <2>0 DEF TypeOK, Control
    <2>3. ControlInv'
        BY <1>2, <2>0, <2>1 DEF ControlInv, Tables
    <2>4. LockInv'
        BY <2>1 DEF LockInv
    <2>5. ProvisionInv'
        BY <1>0, <1>2, <2>0, <2>1 DEF ProvisionInv
    <2>6. ChangeInv'
        <3> SUFFICES ASSUME NEW d \in Clients, pc'[d] # "idle", cmd[d].kind = "change",
                            NEW p, p = KeyOf(cmd[d])
                     PROVE  /\ held'[d] \subseteq {p}
                            /\ pc'[d] \in {"update", "index", "commit"} =>
                                  /\ rows[p] # None
                                  /\ draft[d] \in Row(p[1])
                                  /\ cmd[d].expected <= rows[p].version
                            /\ pc'[d] = "update" =>
                                  (rows[p].version = cmd[d].expected => OnTop(d))
                            /\ pc'[d] = "index" => p[1] = "profile" /\ held'[d] # {}
                            /\ held'[d] # {} =>
                                  rows[p].version = cmd[d].expected /\ OnTop(d)
            BY <1>0, <1>2 DEF ChangeInv, OnTop
        <3>1. CASE d = c
            BY <2>0, <2>1, <3>1
        <3>2. CASE d # c
            BY <2>1, <3>2 DEF ChangeInv
        <3> QED BY <3>1, <3>2
    <2>7. IndexInv'
        <3>1. \A d \in Clients, p \in Key : Written(d, p)' = Written(d, p)
            BY <1>2 DEF Written
        <3>2. \A d \in Clients \ {c}, p \in Key : Entered(d, p)' => Entered(d, p)
            BY <2>1 DEF Entered
        <3>3. \A p \in Key : \A r :
                 Entered(c, p)' =>
                     /\ p = k /\ p[1] = "profile"
                     /\ Clash(Written(c, p), r) => Clash(rows[p], r)
                     /\ Clash(r, Written(c, p)) => Clash(r, rows[p])
            BY <1>2, <2>0, <2>1 DEF Entered, Written, Clash, TypeOK
        <3>4. \A p, q \in Key :
                 (p # q /\ p[1] = "profile" /\ q[1] = "profile") => ~Clash(rows[p], rows[q])
            BY UniqueIsNoClash DEF IndexInv
        <3>5. ASSUME NEW d \in Clients, NEW p \in Key, NEW q \in Key,
                     Entered(d, p)', q # p, q[1] = "profile"
              PROVE  /\ ~Clash(Written(d, p), rows[q])
                     /\ \A x \in Clients : Entered(x, q)' => ~Clash(Written(d, p), Written(x, q))
            <4>1. CASE d = c
                <5>1. ~Clash(rows[p], rows[q]) /\ p = k
                    BY <3>3, <3>4, <3>5, <4>1
                <5>2. \A x \in Clients : Entered(x, q)' => x # c /\ Entered(x, q)
                    BY <2>1, <3>2, <3>3, <3>5, <5>1
                <5>3. \A x \in Clients : Entered(x, q) => ~Clash(Written(x, q), rows[p])
                    BY <3>3, <3>5, <4>1 DEF IndexInv
                <5>4. \A x \in Clients : Entered(x, q) => ~Clash(rows[p], Written(x, q))
                    BY <5>3, <2>0, <5>1 DEF Clash
                <5> QED BY <3>3, <3>5, <4>1, <5>1, <5>2, <5>4
            <4>2. CASE d # c
                <5>1. Entered(d, p)
                    BY <3>2, <3>5, <4>2
                <5>2. \A x \in Clients \ {c} : Entered(x, q)' => Entered(x, q)
                    BY <3>2
                <5>3. Entered(c, q)' => ~Clash(Written(d, p), Written(c, q))
                    BY <3>3, <3>5, <5>1 DEF IndexInv
                <5> QED BY <3>5, <5>1, <5>2, <5>3 DEF IndexInv
            <4> QED BY <4>1, <4>2
        <3> QED BY <1>0, <3>1, <3>5 DEF IndexInv
    <2> QED BY <2>2, <2>3, <2>4, <2>5, <2>6, <2>7
<1> QED BY <1>1, <1>2 DEF Update

\* A name that no committed row and no other transaction has enters the index.
LEMMA EnterIndexKeeps ==
    ASSUME StoreInv, NEW c \in Clients, EnterIndex(c)
    PROVE  StoreInv'
<1> USE DEF StoreInv, EnterIndex, Goto
<1> DEFINE k == KeyOf(cmd[c])
<1>0. /\ pc[c] = "index" /\ UNCHANGED <<rows, cmd, held, draft, out>>
      /\ pc' = [pc EXCEPT ![c] = "commit"]
      /\ cmd[c] \in Commands /\ cmd[c].kind = "change" /\ k \in Key
      /\ held[c] = {k} /\ k[1] = "profile" /\ draft[c] # None
    BY CommandFacts, RowFacts DEF ControlInv, ChangeInv, Tables
<1>1. TypeOK'
    BY <1>0 DEF TypeOK, Control
<1>2. ControlInv'
    BY <1>0 DEF ControlInv, TypeOK, Tables
<1>3. LockInv' /\ ProvisionInv'
    BY <1>0 DEF LockInv, ProvisionInv, TypeOK
<1>4. ChangeInv'
    BY <1>0 DEF ChangeInv, OnTop, TypeOK
<1>5. IndexInv'
    <2>1. \A d \in Clients, p \in Key : Written(d, p)' = Written(d, p)
        BY <1>0 DEF Written
    <2>2. \A d \in Clients \ {c}, p \in Key : Entered(d, p)' => Entered(d, p)
        BY <1>0 DEF Entered, TypeOK
    <2>3. \A p \in Key : Entered(c, p)' => p = k /\ Written(c, p) = draft[c]
        BY <1>0 DEF Entered, Written
    <2>4. \A q \in Key \ {k} : q[1] = "profile" => ~Clash(draft[c], rows[q])
        BY <1>0 DEF NameTaken, Rivals, SameName, Clash
    <2>5. \A q \in Key \ {k}, x \in Clients \ {c} :
             Entered(x, q) => ~Clash(draft[c], Written(x, q))
        BY <1>0 DEF IndexOwners, Rivals, SameName, Clash, Entered
    <2>6. \A r, u : Clash(r, u) => Clash(u, r)
        BY DEF Clash
    <2>7. ASSUME NEW d \in Clients, NEW p \in Key, NEW q \in Key,
                 Entered(d, p)', q # p, q[1] = "profile"
          PROVE  /\ ~Clash(Written(d, p), rows[q])
                 /\ \A x \in Clients : Entered(x, q)' => ~Clash(Written(d, p), Written(x, q))
        <3>1. CASE d = c
            BY <2>2, <2>3, <2>4, <2>5, <2>7, <3>1
        <3>2. CASE d # c
            <4>1. Entered(d, p)
                BY <2>2, <2>7, <3>2
            <4>2. Entered(c, q)' => ~Clash(Written(d, p), Written(c, q))
                BY <2>3, <2>5, <2>6, <2>7, <3>2, <4>1
            <4> QED BY <2>2, <2>7, <4>1, <4>2 DEF IndexInv
        <3> QED BY <3>1, <3>2
    <2> QED BY <1>0, <2>1, <2>7 DEF IndexInv
<1> QED BY <1>1, <1>2, <1>3, <1>4, <1>5

\* Every statement, failure and commit keeps the invariant.
LEMMA NextStore == StoreInv /\ [Next]_vars => StoreInv'
<1> SUFFICES ASSUME StoreInv, [Next]_vars PROVE StoreInv'
    OBVIOUS
<1>1. CASE UNCHANGED vars
    BY <1>1 DEF vars, txns, StoreInv, TypeOK, ControlInv, LockInv, ProvisionInv,
                ChangeInv, OnTop, IndexInv, Entered, Written
<1>2. ASSUME NEW c \in Clients, Begin(c) PROVE StoreInv'
    BY <1>2, BeginKeeps
<1>3. ASSUME NEW c \in Clients, Insert(c, "profile") \/ Insert(c, "settings")
      PROVE  StoreInv'
    BY <1>3, InsertKeeps DEF Tables
<1>4. ASSUME NEW c \in Clients, Select(c) PROVE StoreInv'
    BY <1>4, SelectKeeps
<1>5. ASSUME NEW c \in Clients, SelectInvalidTime(c) PROVE StoreInv'
    BY <1>5, EndKeeps DEF SelectInvalidTime, Outcome
<1>6. ASSUME NEW c \in Clients, Update(c) PROVE StoreInv'
    BY <1>6, UpdateKeeps
<1>7. ASSUME NEW c \in Clients, EnterIndex(c) PROVE StoreInv'
    BY <1>7, EnterIndexKeeps
<1>8. ASSUME NEW c \in Clients, UsernameTaken(c) PROVE StoreInv'
    BY <1>8, EndKeeps DEF UsernameTaken, Outcome
<1>9. ASSUME NEW c \in Clients, Commit(c) \/ CommitUnknown(c) PROVE StoreInv'
    BY <1>9, CommitKeeps DEF Commit, CommitUnknown, Outcome
<1>10. ASSUME NEW c \in Clients, Abort(c) PROVE StoreInv'
    BY <1>10, EndKeeps DEF Abort, Outcome
<1>11. ASSUME NEW c \in Clients, DeadlockVictim(c) PROVE StoreInv'
    <2>1. pc[c] # "idle"
        BY <1>11 DEF DeadlockVictim, WaitsFor, Tables
    <2> QED BY <1>11, <2>1, EndKeeps DEF DeadlockVictim, Outcome
<1> QED BY <1>1, <1>2, <1>3, <1>4, <1>5, <1>6, <1>7, <1>8, <1>9, <1>10, <1>11 DEF Next

\* The invariant holds in every state of every behaviour.
THEOREM StoreInvariant == Spec => []StoreInv
<1> QED BY InitStore, NextStore, PTL DEF Spec

\* Rows, commands and open transactions keep their types.
THEOREM StoreTypes == Spec => []TypeOK
<1>1. StoreInv => TypeOK
    BY DEF StoreInv
<1> QED BY StoreInvariant, <1>1, PTL

\* Usernames are unique for any number of concurrent renames.
THEOREM StoreUsernames == Spec => []UsernamesUnique
<1>1. StoreInv => UsernamesUnique
    BY DEF StoreInv, IndexInv, UsernamesUnique
<1> QED BY StoreInvariant, <1>1, PTL
-----------------------------------------------------------------------------
(* The answers.                                                            *)

\* A commit in terms of single rows.
LEMMA CommitRows ==
    ASSUME StoreInv, NEW c \in Clients, pc[c] = "commit", Commits(c)
    PROVE  /\ \A k \in Key : rows'[k] = IF k \in held[c] THEN Written(c, k) ELSE rows[k]
           /\ \A k \in Key : rows[k] # None => rows'[k] # None
<1>1. \A k \in Key : rows'[k] = IF k \in held[c] THEN Written(c, k) ELSE rows[k]
    BY DEF Commits
<1>2. \A k \in held[c] : k \in Key /\ k[1] \in Tables /\ Written(c, k) \in Row(k[1])
    BY WrittenRow DEF Key
<1>3. \A k \in held[c] : Written(c, k) # None
    BY <1>2, RowFacts
<1> QED BY <1>1, <1>3

\* A step that commits nothing and answers nobody new.
LEMMA AnswersKept ==
    ASSUME AnswerInv, UNCHANGED rows,
           \A d \in Clients : Answered(d)' => /\ Answered(d)
                                              /\ cmd'[d] = cmd[d]
                                              /\ draft'[d] = draft[d]
    PROVE  AnswerInv'
BY DEF AnswerInv

\* A client whose transaction ends without success answers nothing.
LEMMA EndAnswersNothing ==
    ASSUME TypeOK, NEW c \in Clients, NEW o, o # "ok", End(c, o)
    PROVE  /\ ~Answered(c)'
           /\ \A d \in Clients : Answered(d)' => /\ Answered(d)
                                                 /\ cmd'[d] = cmd[d]
                                                 /\ draft'[d] = draft[d]
BY DEF End, Goto, TypeOK, Answered

\* The steps before the commit keep the answers; only a Select that changes
\* nothing adds one, the row it has just read.
LEMMA SelectAnswers ==
    ASSUME StoreInv, AnswerInv, NEW c \in Clients, Select(c)
    PROVE  AnswerInv'
<1> DEFINE k == KeyOf(cmd[c])
<1>0. pc[c] = "select" /\ UNCHANGED rows /\ out[c] # "ok" /\ TypeOK
    BY DEF Select, StoreInv, ControlInv
<1>1. CASE \E o \in {"not_found", "mismatch"} : End(c, o)
    BY <1>0, <1>1, EndAnswersNothing, AnswersKept
<1>2. CASE UNCHANGED <<cmd, held, out>> /\ Goto(c, "update")
           /\ draft' = [draft EXCEPT ![c] = Changed(rows[k], cmd[c].patch)]
    <2>1. \A d \in Clients : Answered(d)' => /\ Answered(d) /\ cmd'[d] = cmd[d]
                                             /\ draft'[d] = draft[d]
        BY <1>0, <1>2 DEF Goto, TypeOK, Answered
    <2> QED BY <1>0, <2>1, AnswersKept
<1>3. CASE UNCHANGED <<cmd, held, out>> /\ Goto(c, "commit") /\ rows[k] # None
           /\ draft' = [draft EXCEPT ![c] = rows[k]]
    <2>1. draft'[c] = rows[k] /\ cmd' = cmd /\ rows' = rows /\ k \in Key
          /\ rows[k].version \in Nat
        <3>1. cmd[c] \in Commands /\ cmd[c].kind = "change"
            BY <1>0 DEF StoreInv, ControlInv
        <3>2. k \in Key /\ k[1] \in Tables /\ rows[k] \in Row(k[1])
            BY <1>0, <1>3, <3>1, CommandFacts DEF TypeOK, Key
        <3> QED BY <1>0, <1>3, <3>2, RowFacts DEF TypeOK
    <2>2. \A d \in Clients \ {c} : /\ Answered(d)' => Answered(d)
                                   /\ draft'[d] = draft[d]
        BY <1>0, <1>3 DEF Goto, TypeOK, Answered
    <2>3. \A d \in Clients : (Answered(d)' /\ KeyOf(cmd[d]) = k /\ draft'[d].version = rows[k].version)
                                => draft'[d] = rows[k]
        BY <2>1, <2>2 DEF AnswerInv
    <2> SUFFICES ASSUME NEW d \in Clients, Answered(d)'
                 PROVE  LET row == rows[KeyOf(cmd[d])] IN
                        /\ row # None
                        /\ draft'[d] # None
                        /\ draft'[d].version <= row.version
                        /\ draft'[d].version = row.version => draft'[d] = row
                        /\ \A x \in Clients :
                              (/\ Answered(x)' /\ KeyOf(cmd[x]) = KeyOf(cmd[d])
                               /\ draft'[x].version = draft'[d].version)
                                  => draft'[x] = draft'[d]
        BY <2>1 DEF AnswerInv
    <2>4. CASE d = c
        BY <1>3, <2>1, <2>3, <2>4
    <2>5. CASE d # c
        BY <2>1, <2>2, <2>3, <2>5 DEF AnswerInv
    <2> QED BY <2>4, <2>5
<1> QED BY <1>1, <1>2, <1>3 DEF Select

\* A commit makes at most one new version of a row, newer than all the answered.
LEMMA CommitAnswers ==
    ASSUME StoreInv, AnswerInv, NEW c \in Clients, NEW o \in Outcome,
           pc[c] = "commit", Commits(c), End(c, o)
    PROVE  AnswerInv'
<1>0. /\ TypeOK /\ cmd' = cmd /\ draft' = draft
      /\ cmd[c] \in Commands
      /\ \A d \in Clients : Answered(d)' => d = c \/ Answered(d)
      /\ \A d \in Clients : Answered(d)' => cmd[d] \in Commands /\ cmd[d].kind = "change"
    BY DEF StoreInv, ControlInv, TypeOK, End, Goto, Answered
<1>1. \A d \in Clients : Answered(d)' => KeyOf(cmd[d]) \in Key
    BY <1>0, CommandFacts
<1>2. \A k \in Key : rows[k] # None => rows[k].version \in Nat
    BY <1>0, RowFacts DEF TypeOK, Key
<1>3. CASE held[c] = {} \/ cmd[c].kind = "provision"
    <2>1. \A d \in Clients : Answered(d)' => Answered(d)
        BY <1>0, <1>3 DEF Answered, End, Goto, TypeOK
    <2>2. \A k \in held[c] : rows[k] = None
        BY <1>3 DEF StoreInv, ProvisionInv
    <2>3. \A k \in Key : rows[k] # None => rows'[k] = rows[k]
        BY <2>2, CommitRows
    <2> QED BY <1>0, <1>1, <2>1, <2>3 DEF AnswerInv
<1>4. CASE held[c] # {} /\ cmd[c].kind = "change"
    <2> DEFINE k == KeyOf(cmd[c])
    <2>1. held[c] = {k} /\ k \in Key /\ rows[k] # None
        BY <1>0, <1>4, CommandFacts DEF StoreInv, ChangeInv
    <2>2. rows'[k] = draft[c] /\ draft[c].version = rows[k].version + 1
        BY <1>4, <2>1, CommitRows, WrittenRow DEF Written
    <2>3. \A p \in Key \ {k} : rows'[p] = rows[p]
        BY <2>1, CommitRows
    <2>4. rows'[k] # None
        BY <2>1, CommitRows
    <2>5. ~Answered(c)
        BY <1>4 DEF Answered, StoreInv, ControlInv
    <2>6. \A d \in Clients : (Answered(d) /\ KeyOf(cmd[d]) = k) => draft[d].version < draft[c].version
        <3> SUFFICES ASSUME NEW d \in Clients, Answered(d), KeyOf(cmd[d]) = k
                     PROVE  draft[d].version < draft[c].version
            OBVIOUS
        <3>1. draft[d].version <= rows[k].version /\ draft[d] # None
            BY DEF AnswerInv
        <3>2. draft[d].version \in Nat
            BY <1>0, <3>1, RowFacts DEF TypeOK, Rows, Tables
        <3> QED BY <1>2, <2>1, <2>2, <3>1, <3>2
    <2>7. draft[c].version \in Nat /\ \A d \in Clients : Answered(d) => draft[d].version \in Nat
        BY <1>0, <1>2, <2>1, <2>2, RowFacts DEF TypeOK, AnswerInv, Rows, Tables
    <2> SUFFICES ASSUME NEW d \in Clients, Answered(d)'
                 PROVE  LET row == rows'[KeyOf(cmd[d])] IN
                        /\ row # None
                        /\ draft[d] # None
                        /\ draft[d].version <= row.version
                        /\ draft[d].version = row.version => draft[d] = row
                        /\ \A x \in Clients :
                              (/\ Answered(x)' /\ KeyOf(cmd[x]) = KeyOf(cmd[d])
                               /\ draft[x].version = draft[d].version)
                                  => draft[x] = draft[d]
        BY <1>0 DEF AnswerInv
    <2> HIDE DEF k
    <2>8. CASE d = c
        BY <1>0, <2>1, <2>2, <2>4, <2>6, <2>7, <2>8 DEF k
    <2>9. CASE d # c /\ KeyOf(cmd[d]) = k
        <3>1. Answered(d) /\ draft[d].version < draft[c].version
            BY <1>0, <2>6, <2>9
        <3>2. draft[d] # None
            BY <3>1 DEF AnswerInv
        <3>3. ASSUME NEW x \in Clients, Answered(x)', KeyOf(cmd[x]) = KeyOf(cmd[d]),
                     draft[x].version = draft[d].version
              PROVE  draft[x] = draft[d]
            <4>1. x # c
                BY <2>7, <3>1, <3>3
            <4> QED BY <1>0, <3>1, <3>3, <4>1 DEF AnswerInv
        <3> QED BY <2>2, <2>4, <2>7, <2>9, <3>1, <3>2, <3>3
    <2>10. CASE d # c /\ KeyOf(cmd[d]) # k
        <3>1. Answered(d) /\ rows'[KeyOf(cmd[d])] = rows[KeyOf(cmd[d])]
            BY <1>0, <1>1, <2>3, <2>10
        <3>2. \A x \in Clients : (Answered(x)' /\ KeyOf(cmd[x]) = KeyOf(cmd[d])) => Answered(x)
            BY <1>0, <2>10 DEF k
        <3> QED BY <3>1, <3>2 DEF AnswerInv
    <2> QED BY <2>8, <2>9, <2>10
<1> QED BY <1>0, <1>3, <1>4, CommandFacts

\* Every step keeps the answers.
LEMMA NextAnswers == StoreInv /\ AnswerInv /\ [Next]_vars => AnswerInv'
<1> SUFFICES ASSUME StoreInv, AnswerInv, [Next]_vars PROVE AnswerInv'
    OBVIOUS
<1>0. TypeOK /\ ControlInv /\ ChangeInv
    BY DEF StoreInv
<1>1. CASE UNCHANGED vars
    BY <1>1, AnswersKept DEF vars, txns, Answered
<1>2. ASSUME NEW c \in Clients,
             Begin(c) \/ (\E t \in Tables : Insert(c, t)) \/ Update(c) \/ EnterIndex(c),
             ~End(c, "mismatch")
      PROVE  AnswerInv'
    <2>1. UNCHANGED <<rows, draft, out>> /\ ~Answered(c)'
          /\ \A d \in Clients \ {c} : cmd'[d] = cmd[d] /\ pc'[d] = pc[d] /\ held'[d] = held[d]
        <3>1. CASE Begin(c)
            BY <1>0, <3>1 DEF Begin, Goto, TypeOK, Answered, ControlInv
        <3>2. CASE \E t \in Tables : Insert(c, t)
            BY <1>0, <3>2 DEF Insert, Goto, TypeOK, Answered, ControlInv, Tables
        <3>3. CASE Update(c)
            BY <1>0, <1>2, <3>3 DEF Update, Goto, TypeOK, Answered, ControlInv
        <3>4. CASE EnterIndex(c)
            BY <1>0, <3>4 DEF EnterIndex, Goto, TypeOK, Answered, ControlInv, ChangeInv
        <3> QED BY <1>2, <3>1, <3>2, <3>3, <3>4
    <2>2. \A d \in Clients : Answered(d)' => /\ Answered(d) /\ cmd'[d] = cmd[d]
                                             /\ draft'[d] = draft[d]
        BY <2>1 DEF Answered
    <2> QED BY <2>1, <2>2, AnswersKept
<1>3. ASSUME NEW c \in Clients, Select(c) PROVE AnswerInv'
    BY <1>3, SelectAnswers
<1>4. ASSUME NEW c \in Clients, NEW o, o # "ok", End(c, o), UNCHANGED rows
      PROVE  AnswerInv'
    BY <1>0, <1>4, EndAnswersNothing, AnswersKept
<1>5. ASSUME NEW c \in Clients, Commit(c) \/ CommitUnknown(c) PROVE AnswerInv'
    BY <1>5, CommitAnswers DEF Commit, CommitUnknown, Outcome
<1>6. ASSUME NEW c \in Clients,
             SelectInvalidTime(c) \/ UsernameTaken(c) \/ Abort(c) \/ DeadlockVictim(c)
      PROVE  AnswerInv'
    BY <1>4, <1>6 DEF SelectInvalidTime, UsernameTaken, Abort, DeadlockVictim
<1>7. ASSUME NEW c \in Clients, Update(c) PROVE AnswerInv'
    BY <1>2, <1>4, <1>7 DEF Update
<1>8. ASSUME NEW c \in Clients,
             Begin(c) \/ Insert(c, "profile") \/ Insert(c, "settings") \/ EnterIndex(c)
      PROVE  AnswerInv'
    <2>1. ~End(c, "mismatch")
        BY <1>0, <1>8 DEF Begin, Insert, AfterInsert, EnterIndex, End, Goto, TypeOK
    <2> QED BY <1>2, <1>8, <2>1 DEF Tables
<1> QED BY <1>1, <1>3, <1>5, <1>6, <1>7, <1>8 DEF Next

\* A version names one content, for any number of clients, retries and losers.
THEOREM StoreVersions == Spec => []VersionNamesContent
<1>1. Init => AnswerInv
    BY DEF Init, AnswerInv, Answered
<1>2. StoreInv /\ AnswerInv => VersionNamesContent
    <2>1. StoreInv => \A c \in Clients : out[c] = "ok" => pc[c] # "idle"
        BY DEF StoreInv, ControlInv
    <2> QED BY <2>1 DEF AnswerInv, VersionNamesContent, Answered
<1> QED BY <1>1, <1>2, NextAnswers, StoreInvariant, PTL DEF Spec
-----------------------------------------------------------------------------
(* Provisioning, and the refinement.                                       *)

\* A committed row is never lost, and a commit of provisioning leaves both.
LEMMA NextWhole == StoreInv /\ ProvisionedIsWhole /\ [Next]_vars => ProvisionedIsWhole'
<1> SUFFICES ASSUME StoreInv, ProvisionedIsWhole, [Next]_vars PROVE ProvisionedIsWhole'
    OBVIOUS
<1>0. TypeOK /\ ControlInv
    BY DEF StoreInv
<1>1. \A c \in Clients : out[c] = "ok" =>
         cmd[c] \in Commands /\ \A t \in Tables : <<t, cmd[c].user>> \in Key
    BY <1>0, CommandFacts DEF ControlInv, Key
<1>2. ASSUME UNCHANGED rows,
             \A c \in Clients : out'[c] = "ok" => out[c] = "ok" /\ cmd'[c] = cmd[c]
      PROVE  ProvisionedIsWhole'
    BY <1>2 DEF ProvisionedIsWhole
<1>3. ASSUME NEW c \in Clients, NEW o, o # "ok", End(c, o), UNCHANGED rows
      PROVE  ProvisionedIsWhole'
    BY <1>0, <1>2, <1>3 DEF End, TypeOK
<1>4. ASSUME NEW c \in Clients, Commit(c) \/ CommitUnknown(c) PROVE ProvisionedIsWhole'
    <2>1. /\ pc[c] = "commit" /\ Commits(c) /\ cmd' = cmd
          /\ \A d \in Clients : out'[d] = "ok" => d = c \/ out[d] = "ok"
        BY <1>0, <1>4 DEF Commit, CommitUnknown, End, TypeOK
    <2>2. ASSUME NEW d \in Clients, out[d] = "ok", cmd[d].kind = "provision", NEW t \in Tables
          PROVE  rows'[<<t, cmd[d].user>>] # None
        BY <1>1, <2>1, <2>2, CommitRows DEF ProvisionedIsWhole
    <2>3. ASSUME cmd[c].kind = "provision", NEW t \in Tables
          PROVE  rows'[<<t, cmd[c].user>>] # None
        <3> DEFINE k == <<t, cmd[c].user>>
        <3>1. k \in Key /\ (rows[k] = None => k \in held[c])
            BY <1>0, <2>1, <2>3, CommandFacts DEF ControlInv, Key, StoreInv, ProvisionInv, Tables
        <3>2. Written(c, k) # None
            BY <2>3, DefaultRow, RowFacts DEF Written
        <3> HIDE DEF k
        <3>3. rows'[k] # None
            BY <2>1, <3>1, <3>2, CommitRows
        <3> QED BY <3>3 DEF k
    <2> QED BY <2>1, <2>2, <2>3 DEF ProvisionedIsWhole
<1>5. ASSUME NEW c \in Clients,
             \/ Begin(c) \/ Insert(c, "profile") \/ Insert(c, "settings")
             \/ EnterIndex(c) \/ UNCHANGED vars
      PROVE  ProvisionedIsWhole'
    <2>1. UNCHANGED rows /\ out' = out
        BY <1>5 DEF Begin, Insert, EnterIndex, vars, txns
    <2>2. \A d \in Clients : out[d] = "ok" => cmd'[d] = cmd[d]
        BY <1>0, <1>5 DEF Begin, Insert, EnterIndex, vars, txns, TypeOK, ControlInv
    <2> QED BY <1>2, <2>1, <2>2
<1>6. ASSUME NEW c \in Clients, Select(c) \/ Update(c) PROVE ProvisionedIsWhole'
    <2>1. CASE \E o \in {"not_found", "mismatch"} : End(c, o)
        BY <1>3, <1>6, <2>1 DEF Select, Update
    <2>2. CASE UNCHANGED <<rows, cmd, out>>
        BY <1>2, <2>2
    <2> QED BY <1>6, <2>1, <2>2 DEF Select, Update
<1>7. ASSUME NEW c \in Clients,
             SelectInvalidTime(c) \/ UsernameTaken(c) \/ Abort(c) \/ DeadlockVictim(c)
      PROVE  ProvisionedIsWhole'
    BY <1>3, <1>7 DEF SelectInvalidTime, UsernameTaken, Abort, DeadlockVictim
<1>8. UNCHANGED vars => ProvisionedIsWhole'
    BY <1>2 DEF vars, txns
<1> QED BY <1>4, <1>5, <1>6, <1>7, <1>8 DEF Next

\* Successful provisioning leaves a whole user, whatever it found or raced with.
THEOREM StoreProvisioning == Spec => []ProvisionedIsWhole
<1>1. Init => ProvisionedIsWhole
    BY DEF Init, ProvisionedIsWhole
<1> QED BY <1>1, NextWhole, StoreInvariant, PTL DEF Spec

\* The abstract specification is about the same data.
LEMMA SameData ==
    /\ Abstract!Key = Key
    /\ \A t : Abstract!CreateDefault(t) = CreateDefault(t)
    /\ \A m : Abstract!KeyOf(m) = KeyOf(m)
    /\ \A r, p : Abstract!Changes(r, p) <=> Changes(r, p)
    /\ \A r, p : Abstract!Changed(r, p) = Changed(r, p)
<1>1. Abstract!Key = Key
    BY DEF Abstract!Key, Abstract!Tables, Key, Tables
<1>2. \A t : Abstract!CreateDefault(t) = CreateDefault(t)
    BY DEF Abstract!CreateDefault, Abstract!Default, CreateDefault, Default
<1>3. \A m : Abstract!KeyOf(m) = KeyOf(m)
    BY DEF Abstract!KeyOf, KeyOf
<1>4. \A r, p : Abstract!Patched(r, p) = Patched(r, p)
    BY DEF Abstract!Patched, Patched
<1>5. \A r, p : Abstract!Changes(r, p) <=> Changes(r, p)
    BY <1>4 DEF Abstract!Changes, Changes
<1>6. \A r, p : Abstract!Changed(r, p) = Changed(r, p)
    BY <1>4 DEF Abstract!Changed, Changed
<1> QED BY <1>1, <1>2, <1>3, <1>5, <1>6

\* A commit is a whole command on top of the rows committed at that moment.
LEMMA CommitRefines ==
    ASSUME StoreInv, NEW c \in Clients, pc[c] = "commit", Commits(c)
    PROVE  Abstract!Next \/ UNCHANGED rows
<1>0. cmd[c] \in Commands /\ TypeOK
    BY DEF StoreInv, ControlInv
<1>1. CASE cmd[c].kind = "provision"
    <2>1. \A k \in Key : k \in held[c] <=> k[2] = cmd[c].user /\ rows[k] = None
        <3> SUFFICES ASSUME NEW k \in Key
                     PROVE  k \in held[c] <=> k[2] = cmd[c].user /\ rows[k] = None
            OBVIOUS
        <3>1. k \in held[c] => k[2] = cmd[c].user /\ rows[k] = None
            BY <1>1 DEF StoreInv, ProvisionInv
        <3>2. k[1] \in Tables /\ k = <<k[1], k[2]>>
            BY DEF Key
        <3>3. k[2] = cmd[c].user /\ rows[k] = None => k \in held[c]
            BY <1>1, <3>2 DEF StoreInv, ProvisionInv, Tables
        <3> QED BY <3>1, <3>3
    <2>2. rows' = [k \in Key |-> IF k[2] = cmd[c].user /\ rows[k] = None
                                 THEN CreateDefault(k[1]) ELSE rows[k]]
        BY <1>1, <2>1 DEF Commits, Written
    <2>3. Abstract!ApplyProvision(cmd[c].user)
        BY <2>2, SameData DEF Abstract!ApplyProvision
    <2> QED BY <1>0, <1>1, <2>3 DEF Abstract!Next
<1>2. CASE cmd[c].kind = "change" /\ held[c] = {}
    BY <1>0, <1>2 DEF Commits, TypeOK
<1>3. CASE cmd[c].kind = "change" /\ held[c] # {}
    <2> DEFINE k == KeyOf(cmd[c])
    <2>1. /\ held[c] = {k} /\ k \in Key /\ rows[k] # None
          /\ rows[k].version = cmd[c].expected
          /\ Changes(rows[k], cmd[c].patch)
          /\ draft[c] = Changed(rows[k], cmd[c].patch)
        BY <1>0, <1>3, CommandFacts DEF StoreInv, ChangeInv, OnTop
    <2>2. Written(c, k) = draft[c] /\ draft[c] # None
        <3>1. Written(c, k) = draft[c]
            BY <1>3 DEF Written
        <3>2. Written(c, k) \in Row(k[1]) /\ k[1] \in Tables
            BY <2>1, WrittenRow DEF Key
        <3> QED BY <3>1, <3>2, RowFacts
    <2>3. rows' = [rows EXCEPT ![k] = draft[c]]
        BY <1>0, <2>1, <2>2 DEF Commits, TypeOK
    <2>4. k[1] = "profile" => \A o \in Key \ {k} : o[1] = "profile" => ~Clash(draft[c], rows[o])
        BY <2>1, <2>2 DEF StoreInv, IndexInv, Entered
    <2>5. Abstract!UsernameFree(k, draft[c])
        BY <2>2, <2>4, SameData DEF Abstract!UsernameFree, Clash
    <2> HIDE DEF k
    <2>6. Abstract!KeyOf(cmd[c]) = k
        BY SameData DEF k
    <2>7. Abstract!ApplyChange(cmd[c])
        BY <2>1, <2>3, <2>5, <2>6, SameData DEF Abstract!ApplyChange
    <2> QED BY <1>0, <1>3, <2>7 DEF Abstract!Next
<1> QED BY <1>0, <1>1, <1>2, <1>3, CommandFacts

\* Concurrent transactions implement whole commands, one at a time.
THEOREM StoreImplementsRows == Spec => ImplementsProfileRows
<1>1. Init => Abstract!Init
    BY DEF Init, Abstract!Init
<1>2. StoreInv /\ [Next]_vars => [Abstract!Next]_rows
    <2> SUFFICES ASSUME StoreInv, [Next]_vars PROVE Abstract!Next \/ UNCHANGED rows
        OBVIOUS
    <2>1. ASSUME NEW c \in Clients, Commit(c) \/ CommitUnknown(c)
          PROVE  Abstract!Next \/ UNCHANGED rows
        BY <2>1, CommitRefines DEF Commit, CommitUnknown
    <2>2. ASSUME NEW c \in Clients,
                 \/ Begin(c) \/ Insert(c, "profile") \/ Insert(c, "settings")
                 \/ Select(c) \/ SelectInvalidTime(c) \/ Update(c) \/ EnterIndex(c)
                 \/ UsernameTaken(c) \/ Abort(c) \/ DeadlockVictim(c)
          PROVE  UNCHANGED rows
        BY <2>2 DEF Begin, Insert, Select, SelectInvalidTime, Update, EnterIndex,
                    UsernameTaken, Abort, DeadlockVictim
    <2>3. UNCHANGED vars => UNCHANGED rows
        BY DEF vars
    <2> QED BY <2>1, <2>2, <2>3 DEF Next
<1> QED BY <1>1, <1>2, StoreInvariant, PTL
        DEF Spec, ImplementsProfileRows, Abstract!Spec
=============================================================================
