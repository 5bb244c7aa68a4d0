-------------------------- MODULE ProfileReadsProofs --------------------------
(***************************************************************************)
(* Proofs about ProfileReads for any number of readers, users and          *)
(* commands: hiding a field takes effect at once, and provisioning never   *)
(* makes a query fail for lack of settings.                                *)
(***************************************************************************)
EXTENDS ProfileReads, ProfileDataProofs, TLAPS

Version(u) == IF rows[<<"profile", u>>] = None THEN 0 ELSE rows[<<"profile", u>>].version

\* The committed rows, what they are and how the history follows them.
RowsInv ==
    /\ rows \in [Key -> Rows \cup {None}]
    /\ \A k \in Key : rows[k] # None => rows[k] \in Row(k[1])

OpenedInv ==
    /\ opened \in [Masked -> [Users -> Nat]]
    /\ \A f \in Masked, u \in Users :
          /\ opened[f][u] <= Version(u)
          /\ Visible(rows, f, u) => opened[f][u] = Version(u)

\* A reader between its two statements holds versions that were committed, and
\* of which the row is still there: versions only grow and rows only appear.
ReadersInv ==
    /\ at \in [Readers -> {"profiles", "settings", "done"}]
    /\ DOMAIN answer = Readers /\ DOMAIN profiles = Readers
    /\ \A r \in Readers :
          /\ at[r] # "done" => /\ answer[r].views = <<>>
                               /\ answer[r].status = "pending"
          /\ at[r] = "settings" =>
                \A u \in DOMAIN profiles[r] :
                    /\ u \in Users
                    /\ rows[<<"profile", u>>] # None
                    /\ profiles[r][u].version \in Nat
                    /\ profiles[r][u].version <= Version(u)

\* What has been shown stays covered, since `opened` only grows.
ShownInv ==
    \A r \in Readers, f \in Masked, u \in Users :
        Shown(r, f, u) =>
            /\ profiles[r][u].version \in Nat
            /\ profiles[r][u].version <= opened[f][u]

\* Only users that started without settings have a profile and no settings, and
\* only they make a query fail.
WholeInv ==
    /\ \A u \in Users \ half : rows[<<"profile", u>>] # None => rows[<<"settings", u>>] # None
    /\ NoSpuriousSettingsError

ReadInv == RowsInv /\ OpenedInv /\ ReadersInv /\ ShownInv /\ WholeInv
-----------------------------------------------------------------------------
\* A committed command keeps rows well-formed, loses none, and moves every
\* version forward.
LEMMA WriteRows ==
    ASSUME RowsInv, Next
    PROVE  /\ RowsInv'
           /\ \A k \in Key : rows[k] # None => rows'[k] # None /\ rows[k].version <= rows'[k].version
           /\ \A u \in Users : Version(u) \in Nat /\ Version(u)' \in Nat /\ Version(u) <= Version(u)'
           /\ \A u \in Users : rows[<<"profile", u>>] = None /\ rows'[<<"profile", u>>] # None
                                  => rows'[<<"settings", u>>] # None
<1>0. \A k \in Key : k[1] \in Tables /\ (rows[k] # None => rows[k] \in Row(k[1]))
    BY DEF RowsInv, Key
<1>1. \A k \in Key : rows[k] # None => rows[k].version \in Nat \ {0}
    BY <1>0, RowFacts
<1>2. \A u \in Users, t \in Tables : <<t, u>> \in Key
    BY DEF Key
<1>3. PICK m \in Commands :
         \/ m.kind = "provision" /\ ApplyProvision(m.user)
         \/ m.kind = "change" /\ ApplyChange(m)
    BY DEF Next
<1>4. /\ RowsInv'
      /\ \A k \in Key : rows[k] # None => rows'[k] # None /\ rows[k].version <= rows'[k].version
      /\ \A u \in Users : rows[<<"profile", u>>] = None /\ rows'[<<"profile", u>>] # None
                             => rows'[<<"settings", u>>] # None
    <2>1. CASE ApplyProvision(m.user)
        <3>1. \A t \in Tables : CreateDefault(t) \in Row(t) /\ CreateDefault(t) \in Rows
                                /\ CreateDefault(t) # None
            BY DefaultRow, RowFacts
        <3>2. \A k \in Key : rows'[k] = IF k[2] = m.user /\ rows[k] = None
                                        THEN CreateDefault(k[1]) ELSE rows[k]
            BY <2>1 DEF ApplyProvision
        <3>3. rows' \in [Key -> Rows \cup {None}]
            BY <1>0, <2>1, <3>1 DEF ApplyProvision, RowsInv
        <3>4. \A k \in Key : rows'[k] # None => rows'[k] \in Row(k[1])
            BY <1>0, <3>1, <3>2
        <3>5. \A k \in Key : rows[k] # None => rows'[k] = rows[k]
            BY <3>2
        <3>6. \A u \in Users : rows[<<"profile", u>>] = None /\ rows'[<<"profile", u>>] # None
                             => rows'[<<"settings", u>>] # None
            <4> SUFFICES ASSUME NEW u \in Users, rows[<<"profile", u>>] = None,
                                rows'[<<"profile", u>>] # None
                         PROVE  rows'[<<"settings", u>>] # None
                OBVIOUS
            <4>1. <<"profile", u>> \in Key /\ <<"settings", u>> \in Key
                BY DEF Key, Tables
            <4>2. u = m.user
                BY <3>2, <4>1
            <4> QED BY <3>1, <3>2, <4>1, <4>2 DEF Tables
        <3> QED BY <1>1, <3>3, <3>4, <3>5, <3>6 DEF RowsInv
    <2>2. CASE m.kind = "change" /\ ApplyChange(m)
        <3> DEFINE k == KeyOf(m)
                   row == Changed(rows[k], m.patch)
        <3>1. k \in Key /\ rows[k] # None /\ rows' = [rows EXCEPT ![k] = row]
            BY <2>2, CommandFacts DEF ApplyChange
        <3>2. row \in Row(k[1]) /\ row.version = rows[k].version + 1
            BY <1>0, <2>2, <3>1, ChangedRow
        <3>3. row \in Rows /\ row # None
            BY <1>0, <3>1, <3>2, RowFacts
        <3> HIDE DEF k, row
        <3>4. \A p \in Key : rows'[p] = IF p = k THEN row ELSE rows[p]
            BY <3>1 DEF RowsInv
        <3>5. RowsInv'
            BY <3>1, <3>2, <3>3 DEF RowsInv
        <3>6. \A p \in Key : rows[p] = None <=> rows'[p] = None
            BY <3>1, <3>3, <3>4
        <3>7. \A p \in Key : rows[p] # None => rows[p].version <= rows'[p].version
            BY <1>1, <3>1, <3>2, <3>4
        <3> QED BY <1>2, <3>5, <3>6, <3>7 DEF Tables
    <2> QED BY <1>3, <2>1, <2>2
<1>5. \A k \in Key : rows'[k] # None => rows'[k].version \in Nat \ {0}
    BY <1>0, <1>4, RowFacts DEF RowsInv
<1>6. \A u \in Users : Version(u) \in Nat /\ Version(u)' \in Nat /\ Version(u) <= Version(u)'
    <2> SUFFICES ASSUME NEW u \in Users
                 PROVE  Version(u) \in Nat /\ Version(u)' \in Nat /\ Version(u) <= Version(u)'
        OBVIOUS
    <2>1. PICK k \in Key : k = <<"profile", u>>
        BY <1>2 DEF Tables
    <2>2. /\ Version(u) = IF rows[k] = None THEN 0 ELSE rows[k].version
          /\ Version(u)' = IF rows'[k] = None THEN 0 ELSE rows'[k].version
        BY <2>1 DEF Version
    <2> QED BY <1>1, <1>4, <1>5, <2>2
<1> QED BY <1>4, <1>6

\* The first statement returned committed rows, or nothing.
LEMMA ReadProfilesKeeps ==
    ASSUME ReadInv, NEW r \in Readers, ReadProfiles(r)
    PROVE  ReadInv'
<1> USE DEF ReadInv
<1> DEFINE found == Found(query[r])
<1>0. /\ at[r] = "profiles" /\ UNCHANGED <<rows, query, opened, half>>
      /\ profiles' = [profiles EXCEPT ![r] = [u \in found |-> rows[<<"profile", u>>]]]
      /\ DOMAIN answer = Readers /\ DOMAIN profiles = Readers
      /\ answer[r].views = <<>> /\ answer[r].status = "pending"
    BY DEF ReadProfiles, history, ReadersInv
<1>1. /\ at' \in [Readers -> {"profiles", "settings", "done"}]
      /\ DOMAIN answer' = Readers /\ DOMAIN profiles' = Readers
      /\ \A x \in Readers \ {r} : at'[x] = at[x] /\ answer'[x] = answer[x]
                                  /\ profiles'[x] = profiles[x]
      /\ answer'[r].views = <<>> /\ answer'[r].status # "settings_not_found"
      /\ at'[r] # "done" => answer'[r] = answer[r]
    BY <1>0 DEF ReadProfiles, Respond, ReadersInv
<1>2. \A u \in found : /\ u \in Users /\ rows[<<"profile", u>>] # None
                       /\ rows[<<"profile", u>>].version \in Nat
                       /\ rows[<<"profile", u>>].version = Version(u)
    <2>1. \A u \in found : u \in Users /\ rows[<<"profile", u>>] # None
                           /\ <<"profile", u>> \in Key
        BY DEF Found, Key, Tables
    <2>2. \A u \in found : rows[<<"profile", u>>] \in Row("profile")
        BY <2>1 DEF RowsInv
    <2> QED BY <2>1, <2>2, RowFacts DEF Version, Tables
<1> HIDE DEF found
<1>3. /\ DOMAIN profiles'[r] = found
      /\ \A u \in found : profiles'[r][u] = rows[<<"profile", u>>]
    BY <1>0
<1>4. RowsInv' /\ OpenedInv'
    BY <1>0 DEF RowsInv, OpenedInv, Version, Visible
<1>5. ReadersInv'
    <2>1. \A u \in DOMAIN profiles'[r] :
             /\ u \in Users /\ rows[<<"profile", u>>] # None
             /\ profiles'[r][u].version \in Nat
             /\ profiles'[r][u].version <= Version(u)
        <3>1. \A u \in found : /\ profiles'[r][u].version \in Nat
                               /\ profiles'[r][u].version = Version(u)
            BY <1>2, <1>3
        <3>2. \A a \in Nat : a <= a
            OBVIOUS
        <3> QED BY <1>2, <1>3, <3>1, <3>2
    <2>2. \A u : Version(u)' = Version(u)
        BY <1>0 DEF Version
    <2> QED BY <1>0, <1>1, <2>1, <2>2 DEF ReadersInv
<1>6. ShownInv'
    <2>1. \A f \in Masked, u \in Users : ~Shown(r, f, u)'
        BY <1>1 DEF Shown
    <2>2. \A x \in Readers \ {r}, f \in Masked, u \in Users : Shown(x, f, u)' => Shown(x, f, u)
        BY <1>0, <1>1 DEF Shown
    <2> QED BY <1>0, <1>1, <2>1, <2>2 DEF ShownInv
<1>7. WholeInv'
    BY <1>0, <1>1 DEF WholeInv, NoSpuriousSettingsError
<1> QED BY <1>4, <1>5, <1>6, <1>7

\* A value that strangers get passed a guard that is open now, so the current
\* version is `opened`, and the version read before is not newer.
LEMMA ReadSettingsKeeps ==
    ASSUME ReadInv, NEW r \in Readers, ReadSettings(r)
    PROVE  ReadInv'
<1> USE DEF ReadInv
<1>0. /\ at[r] = "settings" /\ UNCHANGED <<rows, query, profiles, opened, half>>
      /\ DOMAIN answer = Readers
    BY DEF ReadSettings, history, ReadersInv
<1>1. PICK status, views :
         /\ Respond(r, status, views)
         /\ \/ views = <<>>
            \/ /\ \A u \in DOMAIN profiles[r] : SettingsOf(u) # None
               /\ views = [u \in DOMAIN profiles[r] |->
                              PublicView(u, profiles[r][u], SettingsOf(u), query[r].viewer)]
         /\ status = "settings_not_found" => \E u \in DOMAIN profiles[r] : SettingsOf(u) = None
    BY DEF ReadSettings
<1>2. /\ at' = [at EXCEPT ![r] = "done"]
      /\ DOMAIN answer' = Readers
      /\ \A x \in Readers \ {r} : answer'[x] = answer[x]
      /\ answer'[r].views = views /\ answer'[r].status = status
    BY <1>0, <1>1 DEF Respond
<1>3. RowsInv' /\ OpenedInv'
    BY <1>0 DEF RowsInv, OpenedInv, Version, Visible
<1>4. ReadersInv'
    <2>1. \A u : Version(u)' = Version(u)
        BY <1>0 DEF Version
    <2>2. /\ at' \in [Readers -> {"profiles", "settings", "done"}] /\ at'[r] = "done"
          /\ \A x \in Readers \ {r} : at'[x] = at[x]
        BY <1>2 DEF ReadersInv
    <2> QED BY <1>0, <1>2, <2>1, <2>2 DEF ReadersInv
<1>5. ShownInv'
    <2>1. \A x \in Readers \ {r}, f \in Masked, u \in Users : Shown(x, f, u)' => Shown(x, f, u)
        BY <1>0, <1>2 DEF Shown
    <2>2. ASSUME NEW f \in Masked, NEW u \in Users, Shown(r, f, u)'
          PROVE  profiles[r][u].version \in Nat /\ profiles[r][u].version <= opened[f][u]
        <3>1. u \in DOMAIN views /\ query[r].viewer # u /\ views[u][f] # None
            BY <1>0, <1>2, <2>2 DEF Shown
        <3>2. /\ u \in DOMAIN profiles[r] /\ SettingsOf(u) # None
              /\ views[u] = PublicView(u, profiles[r][u], SettingsOf(u), query[r].viewer)
            BY <1>1, <3>1
        <3>3. SettingsOf(u).fields[Guard[f]] = "ALL"
            BY <3>1, <3>2 DEF PublicView, CanView, Guard, Masked
        <3>4. /\ rows[<<"profile", u>>] # None /\ profiles[r][u].version \in Nat
              /\ profiles[r][u].version <= Version(u)
            BY <1>0, <3>2 DEF ReadersInv
        <3>5. Visible(rows, f, u)
            BY <3>2, <3>3, <3>4 DEF Visible, SettingsOf
        <3> QED BY <3>4, <3>5 DEF OpenedInv
    <2> QED BY <1>0, <2>1, <2>2 DEF ShownInv
<1>6. WholeInv'
    <2>1. status = "settings_not_found" => \E u \in half : u \in DOMAIN profiles[r]
        BY <1>0, <1>1 DEF WholeInv, ReadersInv, SettingsOf
    <2> QED BY <1>0, <1>2, <2>1 DEF WholeInv, NoSpuriousSettingsError
<1> QED BY <1>3, <1>4, <1>5, <1>6

\* A commit moves `opened` up to the new version or leaves it.
LEMMA WriteKeeps ==
    ASSUME ReadInv, Write
    PROVE  ReadInv'
<1> USE DEF ReadInv
<1>0. Next /\ opened' = OpenedIn(rows', opened) /\ UNCHANGED <<half, query, at, profiles, answer>>
    BY DEF Write, readers
<1>1. /\ RowsInv'
      /\ \A k \in Key : rows[k] # None => rows'[k] # None
      /\ \A u \in Users : Version(u) \in Nat /\ Version(u)' \in Nat /\ Version(u) <= Version(u)'
      /\ \A u \in Users : rows[<<"profile", u>>] = None /\ rows'[<<"profile", u>>] # None
                             => rows'[<<"settings", u>>] # None
    BY <1>0, WriteRows
<1>2. \A f \in Masked, u \in Users :
         opened'[f][u] = IF Visible(rows', f, u) THEN Version(u)' ELSE opened[f][u]
    BY <1>0 DEF OpenedIn, Visible, Version
<1>3. OpenedInv'
    <2>1. opened' \in [Masked -> [Users -> Nat]]
        <3>1. opened' = [f \in Masked |-> [u \in Users |->
                            IF Visible(rows', f, u) THEN Version(u)' ELSE opened[f][u]]]
            BY <1>0 DEF OpenedIn, Visible, Version
        <3> QED BY <1>1, <3>1 DEF OpenedInv
    <2>2. \A f \in Masked, u \in Users : opened'[f][u] <= Version(u)'
        BY <1>1, <1>2 DEF OpenedInv
    <2> QED BY <1>2, <2>1, <2>2 DEF OpenedInv, Visible
<1>4. \A u \in Users : <<"profile", u>> \in Key /\ <<"settings", u>> \in Key
    BY DEF Key, Tables
<1>5. ReadersInv'
    <2>1. ASSUME NEW r \in Readers, at[r] = "settings", NEW u \in DOMAIN profiles[r]
          PROVE  /\ u \in Users /\ rows'[<<"profile", u>>] # None
                 /\ profiles[r][u].version \in Nat
                 /\ profiles[r][u].version <= Version(u)'
        <3>1. /\ u \in Users /\ rows[<<"profile", u>>] # None
              /\ profiles[r][u].version \in Nat
              /\ profiles[r][u].version <= Version(u)
            BY <2>1 DEF ReadersInv
        <3>2. rows'[<<"profile", u>>] # None
            BY <1>1, <1>4, <3>1
        <3>3. Version(u) \in Nat /\ Version(u)' \in Nat /\ Version(u) <= Version(u)'
            BY <1>1, <3>1
        <3>4. \A a, b, d \in Nat : a <= b /\ b <= d => a <= d
            OBVIOUS
        <3>5. profiles[r][u].version <= Version(u)'
            BY <3>1, <3>3, <3>4
        <3> QED BY <3>1, <3>2, <3>5
    <2> QED BY <1>0, <2>1 DEF ReadersInv
<1>6. ShownInv'
    <2>1. \A f \in Masked, u \in Users : /\ opened[f][u] \in Nat /\ opened'[f][u] \in Nat
                                         /\ opened[f][u] <= opened'[f][u]
        BY <1>1, <1>2 DEF OpenedInv
    <2>2. \A r \in Readers, f \in Masked, u \in Users : Shown(r, f, u)' <=> Shown(r, f, u)
        BY <1>0 DEF Shown
    <2> QED BY <1>0, <2>1, <2>2 DEF ShownInv
<1>7. WholeInv'
    BY <1>0, <1>1, <1>4 DEF WholeInv, NoSpuriousSettingsError
<1> QED BY <1>1, <1>3, <1>5, <1>6, <1>7

\* Nothing has been read initially.
LEMMA ReadInitInv == ReadInit => ReadInv
<1> SUFFICES ASSUME ReadInit PROVE ReadInv
    OBVIOUS
<1> USE DEF ReadInit, Init
<1>1. RowsInv
    <2>1. \A k \in Key : k[1] \in Tables /\ rows[k] \in Row(k[1]) \cup {None}
        BY StartAssumption DEF Key
    <2>2. \A k \in Key : rows[k] \in Rows \cup {None}
        BY <2>1, RowFacts
    <2>3. rows = [k \in Key |-> rows[k]]
        BY StartAssumption
    <2> QED BY <2>1, <2>2, <2>3 DEF RowsInv
<1>2. \A u \in Users : Version(u) \in Nat
    <2>1. \A u \in Users : <<"profile", u>> \in Key
        BY DEF Key, Tables
    <2>2. \A u \in Users : rows[<<"profile", u>>] # None => rows[<<"profile", u>>] \in Row("profile")
        BY <1>1, <2>1 DEF RowsInv
    <2> QED BY <2>2, RowFacts DEF Version, Tables
<1>3. opened = [f \in Masked |-> [u \in Users |->
                   IF Visible(rows, f, u) THEN Version(u) ELSE 0]]
    BY DEF OpenedIn, Visible, Version
<1>4. OpenedInv
    <2> HIDE DEF ReadInit, Init
    <2>1. opened \in [Masked -> [Users -> Nat]]
        BY <1>2, <1>3
    <2>2. \A f \in Masked, u \in Users :
             opened[f][u] = IF Visible(rows, f, u) THEN Version(u) ELSE 0
        BY <1>3
    <2> QED BY <1>2, <2>1, <2>2 DEF OpenedInv
<1>5. ReadersInv
    BY DEF ReadersInv
<1>6. ShownInv
    BY DEF ShownInv, Shown
<1>7. WholeInv
    BY DEF WholeInv, NoSpuriousSettingsError
<1> QED BY <1>1, <1>4, <1>5, <1>6, <1>7 DEF ReadInv

\* The invariant holds in every state of every behaviour.
THEOREM ReadInvariant == ReadSpec => []ReadInv
<1>1. ReadInv /\ [ReadNext]_readVars => ReadInv'
    <2> SUFFICES ASSUME ReadInv, [ReadNext]_readVars PROVE ReadInv'
        OBVIOUS
    <2>1. CASE UNCHANGED readVars
        BY <2>1 DEF readVars, readers, history, ReadInv, RowsInv, OpenedInv, Version,
                    Visible, ReadersInv, ShownInv, Shown, WholeInv,
                    NoSpuriousSettingsError
    <2>2. CASE Write
        BY <2>2, WriteKeeps
    <2>3. CASE \E r \in Readers : ReadProfiles(r) \/ ReadSettings(r)
        BY <2>3, ReadProfilesKeeps, ReadSettingsKeeps
    <2> QED BY <2>1, <2>2, <2>3 DEF ReadNext
<1> QED BY <1>1, ReadInitInv, PTL DEF ReadSpec

\* What is written after hiding a field reaches no stranger until it is opened.
THEOREM HidingIsImmediate == ReadSpec => []HiddenStaysHidden
<1>1. ReadInv => HiddenStaysHidden
    BY DEF ReadInv, ShownInv, HiddenStaysHidden
<1> QED BY <1>1, ReadInvariant, PTL

\* Queries never miss the settings of a user that started whole or absent.
THEOREM SettingsAreThere == ReadSpec => []NoSpuriousSettingsError
<1>1. ReadInv => NoSpuriousSettingsError
    BY DEF ReadInv, WholeInv
<1> QED BY <1>1, ReadInvariant, PTL
=============================================================================
