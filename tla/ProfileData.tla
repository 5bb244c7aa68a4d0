----------------------------- MODULE ProfileData -----------------------------
(***************************************************************************)
(* The two versioned aggregates of a user, UserProfile and UserSettings    *)
(* (domain/aggregates), the commands that change them and the privacy      *)
(* policy that masks them.  A row is an aggregate as stored: its fields    *)
(* and its version.  Fields that take no part in any decision are merged:  *)
(* `bio` stands for bio and display_name, `theme` for theme, locale and    *)
(* timezone.                                                               *)
(***************************************************************************)
EXTENDS Integers

CONSTANTS
    Users,
    Usernames,   \* normalised usernames
    Texts,       \* values of bio and avatar_key
    Commands,    \* the commands clients may send
    Start,       \* what the tables may hold when they do
    None

Tables == {"profile", "settings"}

Key == Tables \X Users

Scope == {"ALL", "NOBODY"}

Content ==
    [profile  |-> [username : Usernames \cup {None}, bio : Texts \cup {None},
                   avatar_key : Texts \cup {None}],
     settings |-> [theme : {"system", "dark"}, who_can_see_bio : Scope,
                   who_can_see_avatar : Scope,
                   who_can_find_by_username : Scope]]

Row(table) == [fields : Content[table], version : Nat \ {0}]

Rows == Row("profile") \cup Row("settings")

-----------------------------------------------------------------------------
(* UserProfile, UserSettings and VersionedMutableEntity                    *)

Default ==
    [profile  |-> [username |-> None, bio |-> None, avatar_key |-> None],
     settings |-> [theme |-> "system", who_can_see_bio |-> "ALL",
                   who_can_see_avatar |-> "ALL",
                   who_can_find_by_username |-> "ALL"]]

\* create_default
CreateDefault(table) == [fields |-> Default[table], version |-> 1]

\* What an omitted field keeps, what a supplied one replaces.
Patched(fields, patch) ==
    [f \in DOMAIN fields |-> IF f \in DOMAIN patch THEN patch[f] ELSE fields[f]]

Changes(row, patch) == Patched(row.fields, patch) # row.fields

\* _apply_changes of a real change: fields and version move together.
Changed(row, patch) ==
    [fields |-> Patched(row.fields, patch), version |-> row.version + 1]

-----------------------------------------------------------------------------
(* The five commands.                                                      *)

Provision(user) ==
    [kind |-> "provision", user |-> user, table |-> "profile", expected |-> 0,
     patch |-> <<>>]

Change(table, user, expected, patch) ==
    [kind |-> "change", user |-> user, table |-> table, expected |-> expected,
     patch |-> patch]

UpdateProfile(user, expected, patch) == Change("profile", user, expected, patch)

UpdateAvatar(user, expected, key) ==
    Change("profile", user, expected, [avatar_key |-> key])

UpdateSettings(user, expected, patch) == Change("settings", user, expected, patch)

ResetSettings(user, expected) ==
    Change("settings", user, expected, Default["settings"])

KeyOf(m) == <<m.table, m.user>>

\* The fields a command writes are fields of its table, with the values that
\* Username, Bio and the other value objects let through, already normalised.
Valid(m) ==
    /\ m.user \in Users
    /\ \/ m = Provision(m.user)
       \/ /\ m = Change(m.table, m.user, m.expected, m.patch)
          /\ m.table \in Tables
          /\ m.expected \in Nat \ {0}
          /\ \A c \in Content[m.table] : Patched(c, m.patch) \in Content[m.table]

\* Two users never have the same username.
Unique(rows) ==
    \A k, o \in Key :
        (/\ k # o /\ k[1] = "profile" /\ o[1] = "profile"
         /\ rows[k] # None /\ rows[o] # None
         /\ rows[k].fields.username = rows[o].fields.username)
            => rows[k].fields.username = None

ASSUME CommandsAssumption == \A m \in Commands : Valid(m)
ASSUME StartAssumption ==
    \A rows \in Start :
        /\ Unique(rows)
        /\ DOMAIN rows = Key
        /\ rows = [k \in Key |-> rows[k]]
        /\ \A k \in Key : rows[k] \in Row(k[1]) \cup {None}
ASSUME NoRowAssumption == None \notin Rows /\ None \notin Usernames

-----------------------------------------------------------------------------
(* ProfilePrivacyPolicy and PublicProfileDTO                               *)

CanView(scope, user, viewer) == viewer = user \/ scope = "ALL"

\* Mutant of PublicView: one scope masks both fields.
PublicViewOneScope(user, profile, settings, viewer) ==
    LET see == CanView(settings.fields.who_can_see_avatar, user, viewer)
    IN  [username |-> profile.fields.username,
         bio |-> IF see THEN profile.fields.bio ELSE None,
         avatar_key |-> IF see THEN profile.fields.avatar_key ELSE None]

PublicView(user, profile, settings, viewer) ==
    [username |-> profile.fields.username,
     bio |-> IF CanView(settings.fields.who_can_see_bio, user, viewer)
             THEN profile.fields.bio ELSE None,
     avatar_key |-> IF CanView(settings.fields.who_can_see_avatar, user, viewer)
                    THEN profile.fields.avatar_key ELSE None]
=============================================================================
