--------------------------- MODULE MCProfileStore ---------------------------
(* Small instances of ProfileStore for TLC.                                *)
EXTENDS ProfileStoreProofs, TLC

CONSTANTS u1, u2

\* Users that are provisioned, absent, or have lost one half.
MCStart ==
    {[k \in Key |-> IF k \in present THEN CreateDefault(k[1]) ELSE None] :
        present \in {P \in SUBSET Key : <<"settings", u2>> \notin P}}

\* Every kind of command, with a current and a stale version.
MCCommands ==
    {Provision(u1), Provision(u2)}
    \cup {UpdateProfile(u1, v, [username |-> n]) : v \in 1..2, n \in Usernames}
    \cup {UpdateProfile(u2, 1, [username |-> n]) : n \in Usernames}
    \cup {UpdateProfile(u1, v, [bio |-> "x"]) : v \in 1..2}
    \cup {UpdateAvatar(u1, 1, "x")}
    \cup {UpdateSettings(u1, 1, [who_can_see_bio |-> "NOBODY"])}
    \cup {ResetSettings(u1, v) : v \in 1..2}

\* Two users with names, and commands that change, exchange and take back the names.
MCNamed ==
    {[k \in Key |->
        IF k[1] = "settings" THEN CreateDefault("settings")
        ELSE Changed(CreateDefault("profile"),
                     [username |-> IF k[2] = u1 THEN "a" ELSE "b"])]}

MCRenames ==
    {UpdateProfile(u, 2, [username |-> n]) : u \in Users, n \in Usernames}
    \cup {UpdateProfile(u1, 3, [username |-> "a"])}
    \cup {Provision(u1)}

Symmetry == Permutations(Clients)
=============================================================================
