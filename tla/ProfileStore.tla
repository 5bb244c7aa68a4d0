---------------------------- MODULE ProfileStore ----------------------------
(***************************************************************************)
(* Execution of the five commands against PostgreSQL at READ COMMITTED:    *)
(* the handlers (application/commands), the repositories                   *)
(* (infrastructure/database/repositories) and the unit of work.            *)
(*                                                                         *)
(* A step is one SQL statement, with the code up to the next await.  A     *)
(* statement that meets a row written by an open transaction waits for its *)
(* end and then judges the row again.  What a transaction wrote is visible *)
(* to others when it commits.  Each client runs one command; replaying a   *)
(* command is the subject of Idempotency.                                  *)
(***************************************************************************)
EXTENDS ProfileData

CONSTANT Clients   \* one element per dispatched command

VARIABLES
    rows,    \* committed rows
    cmd,     \* the command of each client
    pc,      \* the statement it executes next
    held,    \* rows its open transaction has written, hence locked
    draft,   \* the aggregate in the handler's hands: the new row or, if the
             \* command changes nothing, the row it read
    out      \* its outcome

txns == <<cmd, pc, held, draft, out>>
vars == <<rows, txns>>

Control == {"idle", "profile", "settings", "select", "update", "index",
            "commit", "done"}

Outcome == {"pending", "ok", "not_found", "mismatch", "taken", "invalid",
            "txconflict", "unavailable"}

TypeOK ==
    /\ rows \in [Key -> Rows \cup {None}]
    /\ \A k \in Key : rows[k] # None => rows[k] \in Row(k[1])
    /\ cmd \in [Clients -> Commands \cup {None}]
    /\ pc \in [Clients -> Control]
    /\ held \in [Clients -> SUBSET Key]
    /\ draft \in [Clients -> Rows \cup {None}]
    /\ out \in [Clients -> Outcome]

Init ==
    /\ rows \in Start
    /\ cmd = [c \in Clients |-> None]
    /\ pc = [c \in Clients |-> "idle"]
    /\ held = [c \in Clients |-> {}]
    /\ draft = [c \in Clients |-> None]
    /\ out = [c \in Clients |-> "pending"]

-----------------------------------------------------------------------------
Goto(c, label) == pc' = [pc EXCEPT ![c] = label]

\* The unit of work is left: the locks go, with the writes unless committed.
End(c, outcome) ==
    /\ Goto(c, "done")
    /\ out' = [out EXCEPT ![c] = outcome]
    /\ held' = [held EXCEPT ![c] = {}]
    /\ UNCHANGED <<cmd, draft>>

LockedByOther(c, k) == \E d \in Clients \ {c} : k \in held[d]

\* The row that c's transaction has written at k.
Written(c, k) ==
    IF cmd[c].kind = "provision" THEN CreateDefault(k[1]) ELSE draft[c]

Begin(c) ==
    /\ pc[c] = "idle"
    /\ \E m \in Commands :
          /\ cmd' = [cmd EXCEPT ![c] = m]
          /\ Goto(c, IF m.kind = "provision" THEN "profile" ELSE "select")
    /\ UNCHANGED <<rows, held, draft, out>>

-----------------------------------------------------------------------------
(* create_default_if_absent, for the profile and then for the settings.    *)

\* Mutant of AfterInsert: an existing profile is taken for a whole user.
AfterInsertStopsEarly(c, table) ==
    IF table = "profile" /\ rows[<<"profile", cmd[c].user>>] = None
    THEN "settings" ELSE "commit"

AfterInsert(c, table) == IF table = "profile" THEN "settings" ELSE "commit"

\* INSERT ... ON CONFLICT DO NOTHING: an existing row is left as it is.
Insert(c, table) ==
    LET k == <<table, cmd[c].user>> IN
    /\ pc[c] = table
    /\ ~LockedByOther(c, k)
    /\ held' = [held EXCEPT ![c] = IF rows[k] = None THEN @ \cup {k} ELSE @]
    /\ Goto(c, AfterInsert(c, table))
    /\ UNCHANGED <<rows, cmd, draft, out>>

-----------------------------------------------------------------------------
(* The four handlers that change a versioned aggregate.                    *)

\* get_by_id, the version check, and the change in memory.
Select(c) ==
    LET row == rows[KeyOf(cmd[c])] IN
    /\ pc[c] = "select"
    /\ \/ /\ row = None
          /\ End(c, "not_found")
       \/ /\ row # None /\ row.version # cmd[c].expected
          /\ End(c, "mismatch")
       \/ /\ row # None /\ row.version = cmd[c].expected
          /\ IF Changes(row, cmd[c].patch)
             THEN /\ draft' = [draft EXCEPT ![c] = Changed(row, cmd[c].patch)]
                  /\ Goto(c, "update")
             ELSE /\ draft' = [draft EXCEPT ![c] = row]
                  /\ Goto(c, "commit")
          /\ UNCHANGED <<cmd, held, out>>
    /\ UNCHANGED rows

\* created_at (registered_at of the provisioning request) is not in the past:
\* a real change raises InvalidTimestampError.
SelectInvalidTime(c) ==
    LET row == rows[KeyOf(cmd[c])] IN
    /\ pc[c] = "select"
    /\ row # None /\ row.version = cmd[c].expected
    /\ Changes(row, cmd[c].patch)
    /\ End(c, "invalid")
    /\ UNCHANGED rows

\* Mutant of MatchesVersion: the UPDATE selects the row by its key only.
MatchesKey(c) == TRUE

\* The predicate of the UPDATE, judged on the row as committed.
MatchesVersion(c) == rows[KeyOf(cmd[c])].version = cmd[c].expected

\* UPDATE ... WHERE user_id AND version = expected_version RETURNING.
Update(c) ==
    LET k == KeyOf(cmd[c]) IN
    /\ pc[c] = "update"
    /\ ~LockedByOther(c, k)
    /\ \/ /\ MatchesVersion(c)
          /\ held' = [held EXCEPT ![c] = @ \cup {k}]
          /\ Goto(c, IF k[1] = "profile"
                        /\ draft[c].fields.username # rows[k].fields.username
                     THEN "index" ELSE "commit")
          /\ UNCHANGED <<cmd, draft, out>>
       \/ /\ ~MatchesVersion(c)
          /\ End(c, "mismatch")
    /\ UNCHANGED rows

(* The unique index on username, checked by the same UPDATE once it has    *)
(* written the row: a new entry meets the entries of committed rows and of *)
(* transactions that are past this point.                                  *)

\* NULLs do not conflict.
SameName(c, row) ==
    /\ row # None
    /\ row.fields.username # None
    /\ row.fields.username = draft[c].fields.username

Rivals(c) == {k \in Key \ {KeyOf(cmd[c])} : k[1] = "profile"}

\* Mutant of IndexOwners: uncommitted entries are not looked at.
CommittedOwners(c) ==
    {d \in Clients \ {c} : \E k \in Rivals(c) : k \in held[d] /\ SameName(c, rows[k])}

\* Open transactions that give the name away or take it.
IndexOwners(c) ==
    {d \in Clients \ {c} :
        \E k \in Rivals(c) :
            /\ k \in held[d]
            /\ \/ SameName(c, rows[k])
               \/ pc[d] = "commit" /\ SameName(c, Written(d, k))}

NameTaken(c) == \E k \in Rivals(c) : SameName(c, rows[k])

EnterIndex(c) ==
    /\ pc[c] = "index"
    /\ IndexOwners(c) = {}
    /\ ~NameTaken(c)
    /\ Goto(c, "commit")
    /\ UNCHANGED <<rows, cmd, held, draft, out>>

\* Mutant of UsernameTaken: the violation is not recognised by its name.
UsernameTakenRaw(c) ==
    /\ pc[c] = "index"
    /\ IndexOwners(c) = {}
    /\ NameTaken(c)
    /\ End(c, "integrity_error")
    /\ UNCHANGED rows

\* Mutant of UsernameTaken: the transaction is left open.
UsernameTakenKeepsLocks(c) ==
    /\ pc[c] = "index"
    /\ IndexOwners(c) = {}
    /\ NameTaken(c)
    /\ Goto(c, "done")
    /\ out' = [out EXCEPT ![c] = "taken"]
    /\ UNCHANGED <<rows, cmd, held, draft>>

\* IntegrityError on profiles_username_key, as UsernameAlreadyTakenError.
UsernameTaken(c) ==
    /\ pc[c] = "index"
    /\ IndexOwners(c) = {}
    /\ NameTaken(c)
    /\ End(c, "taken")
    /\ UNCHANGED rows

-----------------------------------------------------------------------------
(* The end of the unit of work.                                            *)

\* Mutant of Commits: the second half is committed on its own, or not at all.
CommitsProfileOnly(c) ==
    rows' = [k \in Key |-> IF k \in held[c] /\ k[1] = "profile"
                           THEN Written(c, k) ELSE rows[k]]

Commits(c) ==
    rows' = [k \in Key |-> IF k \in held[c] THEN Written(c, k) ELSE rows[k]]

Commit(c) ==
    /\ pc[c] = "commit"
    /\ Commits(c)
    /\ End(c, "ok")

\* The commit took place, its acknowledgement was lost.
CommitUnknown(c) ==
    /\ pc[c] = "commit"
    /\ Commits(c)
    /\ End(c, "unavailable")

\* Cancellation, a lost connection or a crash: everything is rolled back.
Abort(c) ==
    /\ pc[c] \notin {"idle", "done"}
    /\ End(c, "unavailable")
    /\ UNCHANGED rows

\* The clients whose transaction must end before c can go on.
WaitsFor(c) ==
    CASE pc[c] \in Tables  -> {d \in Clients \ {c} : <<pc[c], cmd[c].user>> \in held[d]}
      [] pc[c] = "update"  -> {d \in Clients \ {c} : KeyOf(cmd[c]) \in held[d]}
      [] pc[c] = "index"   -> IndexOwners(c)
      [] OTHER             -> {}

\* PostgreSQL breaks a cycle of waiting transactions (40P01), which the unit of
\* work reports as TransactionConflictError.
DeadlockVictim(c) ==
    /\ \E S \in SUBSET Clients :
          /\ c \in S
          /\ \A x \in S : \E y \in S : y \in WaitsFor(x)
          /\ \A y \in S : \E x \in S : y \in WaitsFor(x)
    /\ End(c, "txconflict")
    /\ UNCHANGED rows

-----------------------------------------------------------------------------
Statement(c) ==
    \/ \E t \in Tables : Insert(c, t)
    \/ Select(c) \/ Update(c) \/ EnterIndex(c) \/ UsernameTaken(c) \/ Commit(c)

Next ==
    \E c \in Clients :
        \/ Begin(c) \/ Insert(c, "profile") \/ Insert(c, "settings")
        \/ Select(c) \/ SelectInvalidTime(c)
        \/ Update(c) \/ EnterIndex(c) \/ UsernameTaken(c)
        \/ Commit(c) \/ CommitUnknown(c) \/ Abort(c) \/ DeadlockVictim(c)

Spec == Init /\ [][Next]_vars

\* A statement that can run does, and the server looks for deadlocks.
LiveSpec ==
    /\ Spec
    /\ \A c \in Clients : WF_vars(Statement(c)) /\ WF_vars(DeadlockVictim(c))

-----------------------------------------------------------------------------
(* Properties.                                                             *)

\* No two committed profiles share a username, whatever the order in which
\* transactions take it, give it up and roll back.
UsernamesUnique == Unique(rows)

\* A version (the ETag of the answer) names one content: an answered row is
\* the committed row of its version, also when another client got that version,
\* so that no client edits on top of something that was never stored.
VersionNamesContent ==
    \A c \in Clients :
        (out[c] = "ok" /\ cmd[c].kind = "change") =>
            LET row == rows[KeyOf(cmd[c])] IN
            /\ row # None
            /\ draft[c].version <= row.version
            /\ draft[c].version = row.version => draft[c] = row
            /\ \A d \in Clients :
                  (/\ out[d] = "ok" /\ cmd[d].kind = "change"
                   /\ KeyOf(cmd[d]) = KeyOf(cmd[c])
                   /\ draft[d].version = draft[c].version)
                      => draft[d] = draft[c]

\* Provisioning that reports success leaves a user with both halves, also when
\* it found one of them or raced with another provisioning.
ProvisionedIsWhole ==
    \A c \in Clients :
        (out[c] = "ok" /\ cmd[c].kind = "provision") =>
            \A t \in Tables : rows[<<t, cmd[c].user>>] # None

\* Every command ends: row locks and the username index make clients wait for
\* each other only until somebody commits, fails or is chosen as a victim.
EveryCommandEnds ==
    \A c \in Clients : (pc[c] # "idle") ~> (pc[c] = "done")

Abstract == INSTANCE ProfileRows

\* The statements of concurrent transactions amount to whole commands applied
\* one at a time: no update is lost, no half-provisioned user appears.
ImplementsProfileRows == Abstract!Spec
=============================================================================
