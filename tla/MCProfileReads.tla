--------------------------- MODULE MCProfileReads ---------------------------
(* A small instance of ProfileReads for TLC.                               *)
EXTENDS ProfileReads

CONSTANTS u1, u2, Versions

\* Users that are provisioned, absent, or have lost one half.
MCHalves ==
    {[k \in Key |-> IF k \in present THEN CreateDefault(k[1]) ELSE None] :
        present \in SUBSET Key}

\* u1 edits a bio and an avatar, hides them and shows them again.
MCCommands ==
    {Provision(u) : u \in Users}
    \cup {UpdateProfile(u1, v, [bio |-> x]) : v \in Versions, x \in Texts \cup {None}}
    \cup {UpdateAvatar(u1, v, x) : v \in Versions, x \in Texts}
    \cup {UpdateSettings(u1, v, [who_can_see_bio |-> s]) : v \in Versions, s \in Scope}
    \cup {UpdateSettings(u1, v, [who_can_find_by_username |-> "NOBODY"]) : v \in Versions}
    \cup {ResetSettings(u1, v) : v \in Versions}
    \cup {UpdateProfile(u, v, [username |-> n]) :
             u \in Users, v \in Versions, n \in Usernames}

MCQueries ==
    {[kind |-> "public", users |-> {u1}, username |-> None, viewer |-> w] :
        w \in {None, u1, u2}}
    \cup {[kind |-> "batch", users |-> Users, username |-> None, viewer |-> u2],
          [kind |-> "search", users |-> {}, username |-> "a", viewer |-> u2]}
=============================================================================
