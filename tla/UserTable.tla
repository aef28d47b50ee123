----------------------------- MODULE UserTable -----------------------------
(***************************************************************************)
(* The users table of PostgreSQL as internal/repository/postgres.go uses   *)
(* it: each SQL statement is one atomic step on one row.  A row keeps what *)
(* readers of a user can tell apart: the profile (names, preferences) and  *)
(* the active flag, and the soft-delete mark.                              *)
(***************************************************************************)
CONSTANTS
    UserIDs,
    Profiles,  \* values of the columns UpdateUserRequest can set, active apart
    NoRow      \* an id that was never inserted

Row  == [profile : Profiles, active : BOOLEAN, deleted : BOOLEAN]
View == [profile : Profiles, active : BOOLEAN]

ASSUME NoRowAssumption == NoRow \notin Row

VARIABLE rows

RowsTypeOK == rows \in [UserIDs -> Row \cup {NoRow}]
RowsInit == rows = [u \in UserIDs |-> NoRow]

\* WHERE id = $1 AND deleted_at IS NULL
Live(u) == rows[u] # NoRow /\ ~rows[u].deleted

\* What GetByID scans from a live row.
ViewOf(u) == [profile |-> rows[u].profile, active |-> rows[u].active]

\* Create: an id already in the table violates its primary key.
Insert(u) ==
    /\ rows[u] = NoRow
    /\ \E pr \in Profiles :
          rows' = [rows EXCEPT ![u] = [profile |-> pr, active |-> TRUE, deleted |-> FALSE]]

\* Update: a field the request leaves out is one set to what it already was.
\* No row matches when the user is deleted, which is no error.
Update(u) ==
    IF Live(u)
    THEN \E v \in View :
            rows' = [rows EXCEPT ![u] =
                [profile |-> v.profile, active |-> v.active, deleted |-> FALSE]]
    ELSE UNCHANGED rows

\* Delete of a live row.
SoftDelete(u) ==
    rows' = [rows EXCEPT ![u] = [profile |-> rows[u].profile, active |-> FALSE, deleted |-> TRUE]]

\* What UserDirectory calls the current state of a user, in the table.
Unborn == [status |-> "no row"]
Gone   == [status |-> "deleted"]

Standing(u) ==
    IF Live(u) THEN ViewOf(u) ELSE IF rows[u] = NoRow THEN Unborn ELSE Gone
============================================================================
