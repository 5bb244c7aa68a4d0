----------------------------- MODULE ProfileRows -----------------------------
(***************************************************************************)
(* What the persistence of profiles promises: the rows change by whole     *)
(* commands, one at a time.  A command applies its patch on top of the row *)
(* committed at that moment, only in the version it expects, and advances  *)
(* the version by one; provisioning creates the missing halves of a user   *)
(* together and touches nothing that exists; usernames stay unique.        *)
(***************************************************************************)
EXTENDS ProfileData

VARIABLE rows   \* the committed row of each table and user, or None

Init == rows \in Start

\* No other user has the username of this row.
UsernameFree(k, row) ==
    k[1] = "profile" =>
        \A o \in Key \ {k} :
            (o[1] = "profile" /\ rows[o] # None /\ row.fields.username # None)
                => rows[o].fields.username # row.fields.username

\* Mutant of ApplyProvision: the profile is committed first.
ApplyProvisionProfile(u) ==
    rows' = [k \in Key |-> IF k = <<"profile", u>> /\ rows[k] = None
                           THEN CreateDefault("profile") ELSE rows[k]]

ApplyProvision(u) ==
    rows' = [k \in Key |-> IF k[2] = u /\ rows[k] = None
                           THEN CreateDefault(k[1]) ELSE rows[k]]

ApplyChange(m) ==
    LET k == KeyOf(m) IN
    /\ rows[k] # None
    /\ rows[k].version = m.expected
    /\ Changes(rows[k], m.patch)
    /\ UsernameFree(k, Changed(rows[k], m.patch))
    /\ rows' = [rows EXCEPT ![k] = Changed(rows[k], m.patch)]

Next ==
    \E m \in Commands :
        \/ m.kind = "provision" /\ ApplyProvision(m.user)
        \/ m.kind = "change" /\ ApplyChange(m)

Spec == Init /\ [][Next]_rows
=============================================================================
