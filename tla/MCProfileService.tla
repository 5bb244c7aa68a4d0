-------------------------- MODULE MCProfileService --------------------------
(* A small instance of ProfileService for TLC.                             *)
EXTENDS ProfileServiceProofs, TLC

CONSTANTS u1, u2, c1, c2

\* The sessions of one user are interchangeable.
MCSymmetry == Permutations(Clients)

\* Two sessions of u1.
MCSameUser == {[c \in Clients |-> u1]}

\* Or a session of u2 and the identity service.
MCSessions == MCSameUser \cup {[c \in Clients |-> IF c = c1 THEN u2 ELSE None]}

\* Keys are generated by the callers, each its own; a client uses its key again
\* for its next request.
MCKeys == [c \in Clients |-> {c}]

\* u1 is whole and has a name, u2 does not exist yet.
MCStart ==
    {[k \in Key |->
        CASE k = <<"profile", u1>>  -> [CreateDefault("profile") EXCEPT !.fields.username = "a"]
          [] k = <<"settings", u1>> -> CreateDefault("settings")
          [] OTHER                  -> None]}

\* u1 edits its profile through all versions, at version 2 perhaps with an edit
\* that changes nothing; u2 is provisioned, edits its settings and asks for a name
\* that is taken.
MCCommands ==
    {Provision(u2)}
    \cup {UpdateProfile(u1, v, [bio |-> "x"]) : v \in 1..3}
    \cup {UpdateProfile(u1, 2, [bio |-> "y"])}
    \cup {UpdateProfile(u2, 1, [username |-> "a"])}
    \cup {UpdateSettings(u2, 1, [theme |-> "dark"])}

MCDeployments == {{}, {"verifier", "service_token"}}

MCFlaws ==
    [change |-> [profile |-> {<<>>},
                 settings |-> {<<>>, [token |-> "absent"], [token |-> "not_bearer"],
                               [token |-> "bad"], [if_match |-> None], [if_match |-> 0],
                               [if_match |-> MaxVersion + 1], [key |-> None],
                               [body |-> "malformed"], [body |-> "schema"], [body |-> "domain"]}],
     provision |-> [profile |-> {<<>>, [token |-> "bad"],
                                 [body |-> "malformed"], [body |-> "schema"]}]]
=============================================================================
