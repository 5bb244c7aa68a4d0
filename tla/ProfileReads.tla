---------------------------- MODULE ProfileReads ----------------------------
(***************************************************************************)
(* The public read side (application/queries/profiles): get_public,        *)
(* get_batch and search_by_username each read profiles with one statement  *)
(* and the settings that guard them with a second one.  At READ COMMITTED  *)
(* the two statements see different snapshots, and commands commit between *)
(* them; the commands are those of ProfileRows, which ProfileStore         *)
(* implements.                                                             *)
(*                                                                         *)
(* get_my_profile, get_my_settings and check_exists are one statement      *)
(* each: their answer is a committed row and they need no model.           *)
(***************************************************************************)
EXTENDS ProfileRows

CONSTANTS
    Readers,   \* one element per query
    Queries    \* [kind, users, username, viewer]

VARIABLES
    query,     \* the query of each reader
    at,        \* the statement it executes next
    profiles,  \* profile rows its first statement returned, by user
    answer,    \* its status, with the public views by user
    opened,    \* history: newest profile version when a field was last visible
    half       \* history: users that started with a profile and no settings

readers == <<query, at, profiles, answer>>
history == <<opened, half>>
readVars == <<rows, readers, history>>

Masked == {"bio", "avatar_key"}

\* Whether strangers may see this field of u, in the committed settings.
Guard == [bio |-> "who_can_see_bio", avatar_key |-> "who_can_see_avatar"]

Visible(r, f, u) ==
    /\ r[<<"profile", u>>] # None
    /\ r[<<"settings", u>>] # None
    /\ r[<<"settings", u>>].fields[Guard[f]] = "ALL"

OpenedIn(r, before) ==
    [f \in Masked |-> [u \in Users |->
        IF Visible(r, f, u) THEN r[<<"profile", u>>].version ELSE before[f][u]]]

ReadInit ==
    /\ Init
    /\ query \in [Readers -> Queries]
    /\ at = [r \in Readers |-> "profiles"]
    /\ profiles = [r \in Readers |-> <<>>]
    /\ answer = [r \in Readers |-> [status |-> "pending", views |-> <<>>]]
    /\ opened = OpenedIn(rows, [f \in Masked |-> [u \in Users |-> 0]])
    /\ half = {u \in Users : rows[<<"profile", u>>] # None /\ rows[<<"settings", u>>] = None}

-----------------------------------------------------------------------------
Respond(r, status, views) ==
    /\ at' = [at EXCEPT ![r] = "done"]
    /\ answer' = [answer EXCEPT ![r] = [status |-> status, views |-> views]]

\* get_by_id, get_batch or get_by_username.
Found(q) ==
    {u \in Users :
        /\ rows[<<"profile", u>>] # None
        /\ IF q.kind = "search"
           THEN rows[<<"profile", u>>].fields.username = q.username
           ELSE u \in q.users}

ReadProfiles(r) ==
    LET found == Found(query[r]) IN
    /\ at[r] = "profiles"
    /\ profiles' = [profiles EXCEPT ![r] = [u \in found |-> rows[<<"profile", u>>]]]
    /\ IF found = {}
       THEN Respond(r, IF query[r].kind = "batch" THEN "ok" ELSE "not_found", <<>>)
       ELSE at' = [at EXCEPT ![r] = "settings"] /\ UNCHANGED answer
    /\ UNCHANGED <<rows, query, history>>

SettingsOf(u) == rows[<<"settings", u>>]

\* can_find_by_username: a hidden profile looks like an absent one.
Hidden(r) ==
    /\ query[r].kind = "search"
    /\ \E u \in DOMAIN profiles[r] :
          ~CanView(SettingsOf(u).fields.who_can_find_by_username, u,
                   query[r].viewer)

ReadSettings(r) ==
    /\ at[r] = "settings"
    /\ IF \E u \in DOMAIN profiles[r] : SettingsOf(u) = None
       THEN Respond(r, "settings_not_found", <<>>)
       ELSE IF Hidden(r) THEN Respond(r, "not_found", <<>>)
       ELSE Respond(r, "ok", [u \in DOMAIN profiles[r] |->
                                 PublicView(u, profiles[r][u], SettingsOf(u),
                                            query[r].viewer)])
    /\ UNCHANGED <<rows, query, profiles, history>>

\* A command commits.
Write ==
    /\ Next
    /\ opened' = OpenedIn(rows', opened)
    /\ UNCHANGED <<half, readers>>

ReadNext ==
    \/ Write
    \/ \E r \in Readers : ReadProfiles(r) \/ ReadSettings(r)

ReadSpec == ReadInit /\ [][ReadNext]_readVars

-----------------------------------------------------------------------------
(* Properties.                                                             *)

\* The readers' views of u's field f that strangers got and that hold a value.
Shown(r, f, u) ==
    /\ u \in DOMAIN answer[r].views
    /\ query[r].viewer # u
    /\ answer[r].views[u][f] # None

\* Hiding works at once: what an owner writes after hiding a field is shown to
\* no stranger until the field is opened again, although queries read the
\* profile and the settings at different moments.
HiddenStaysHidden ==
    \A r \in Readers, f \in Masked, u \in Users :
        Shown(r, f, u) => profiles[r][u].version <= opened[f][u]

\* A query fails for lack of settings only on account of a user that had lost
\* its settings from the start: provisioning shows both halves at once, and the
\* settings are read after the profile.
NoSpuriousSettingsError ==
    \A r \in Readers :
        answer[r].status = "settings_not_found" => \E u \in half : u \in DOMAIN profiles[r]
=============================================================================
