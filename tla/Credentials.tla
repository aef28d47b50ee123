----------------------------- MODULE Credentials -----------------------------
(***************************************************************************)
(* The password columns of the users table and everything that writes      *)
(* them: account creation and ChangePassword (internal/service/            *)
(* user_service.go), the upgrade of legacy hashes at login (auth_service.go*)
(* with internal/auth/password.go) and the operators' tools                *)
(* MigrateUserPassword, ForcePasswordReset and ValidateHashType (internal/ *)
(* migrations/password_migration.go).  Each SQL statement is a step.       *)
(*                                                                         *)
(* A hash is the algorithm and the password it was made of; an attempt     *)
(* with a wrong password changes nothing and is not a step.                *)
(***************************************************************************)
CONSTANTS
    UserIDs, Procs,
    Passwords,
    Unhashable,               \* passwords validatePassword refuses (empty, < 8, > 72 bytes)
    EnableLegacyAuth,         \* config.FeatureFlags
    EnablePasswordMigration,
    EnableV1API,
    MigratorCalled,           \* TRUE when something calls MigrateUserPassword; nothing does yet
    Faulty,                   \* TRUE when a statement may fail and a goroutine may die
    NoRow, Blank, NoPassword  \* no such user; the hash ''; a user told to reset

Legacy == {"md5", "sha1"}
Hash   == [alg : Legacy \cup {"bcrypt"}, pw : Passwords]
Types  == {"md5", "sha1", "bcrypt", "unknown", "reset_required"}

\* type is password_hash_type; lapsed says that last_login_at is NULL or before
\* the cutoff of ForcePasswordReset.
Row == [hash : Hash \cup {Blank}, type : Types, lapsed : BOOLEAN,
        status : {"active", "inactive", "deleted"}]

ASSUME CredentialsAssumption ==
    /\ Unhashable \subseteq Passwords
    /\ {EnableLegacyAuth, EnablePasswordMigration, EnableV1API, MigratorCalled,
        Faulty} \subseteq BOOLEAN
    /\ NoRow \notin Row
    /\ Blank \notin Hash
    /\ NoPassword \notin Passwords

VARIABLES
    rows,
    req,
    acked,      \* history: the password each user was last told is theirs
    overtaken,  \* history: the requests whose check of a password another write has made void
    undone      \* history: users over whose password an overtaken upgrade has written

vars == <<rows, req, acked, overtaken, undone>>

Idle == [pc |-> "idle"]
Requests ==
    {Idle}
        \cup [pc : {"login_hash"}, user : UserIDs, pw : Passwords, v1 : BOOLEAN]
        \cup [pc : {"login_migrate", "tool_migrate"}, user : UserIDs, pw : Passwords]
        \cup [pc : {"login_finish"}, user : UserIDs, pw : Passwords, v1 : BOOLEAN, failed : BOOLEAN]
        \cup [pc : {"change_write"}, user : UserIDs, pw : Passwords, old : Passwords]
        \cup [pc : {"validate_write"}, user : UserIDs, type : Types]

TypeOK ==
    /\ rows \in [UserIDs -> Row \cup {NoRow}]
    /\ req \in [Procs -> Requests]
    /\ acked \in [UserIDs -> Passwords \cup {NoPassword}]
    /\ overtaken \in SUBSET Procs
    /\ undone \in SUBSET UserIDs

\* Accounts older than migration 4, which filled the type column from the hash.
InitialRow == { r \in Row : r.hash # Blank /\ r.type = r.hash.alg /\ r.status = "active" }

Init ==
    /\ rows \in [UserIDs -> InitialRow \cup {NoRow}]
    /\ req = [p \in Procs |-> Idle]
    /\ acked = [u \in UserIDs |-> IF rows[u] = NoRow THEN NoPassword ELSE rows[u].hash.pw]
    /\ overtaken = {}
    /\ undone = {}

----------------------------------------------------------------------------
Live(u) == rows[u] # NoRow /\ rows[u].status # "deleted"

Goto(p, r) == req' = [req EXCEPT ![p] = r]

\* The requests that have checked a password of u and are about to write a hash.
Writers(u) ==
    {p \in Procs : /\ req[p].pc \in {"login_migrate", "tool_migrate", "change_write"}
                   /\ req[p].user = u}

\* The password a writer has checked.
Checked(r) == IF r.pc = "change_write" THEN r.old ELSE r.pw

\* CheckPassword: is pw the password of h, and does h want to be upgraded?
Valid(pw, h) ==
    /\ h # Blank
    /\ h.pw = pw
    /\ h.alg \in Legacy => EnableLegacyAuth

\* Mutant: SHA1 hashes are not upgraded.
NeedsMigrationMD5(h) == h.alg = "md5"

NeedsMigration(h) == h.alg \in Legacy

\* Mutant: the answer of auth.DetectHashType, whose "unknown" is "".
DetectedAsAuth(h) == IF h = Blank THEN "" ELSE h.alg

\* detectHashType; an empty hash is "unknown".
Detected(h) == IF h = Blank THEN "unknown" ELSE h.alg

\* UPDATE users SET password_hash = ... WHERE id = u: the type column stays.
WriteHash(u, pw) == rows' = [rows EXCEPT ![u].hash = [alg |-> "bcrypt", pw |-> pw]]

\* p has written another password for u: what other writers have checked is past.
Overtake(p, u) == overtaken' = (overtaken \cup Writers(u)) \ {p}

\* p has written an upgrade, which is another password only if p was overtaken.
Upgraded(p, u) ==
    IF p \in overtaken
    THEN Overtake(p, u) /\ undone' = undone \cup {u}
    ELSE UNCHANGED <<overtaken, undone>>

----------------------------------------------------------------------------
(* CreateUser and CreateUserV1: an INSERT, which leaves the type at its default *)

Insert(u, alg, pw) ==
    /\ rows[u] = NoRow
    /\ rows' = [rows EXCEPT ![u] =
           [hash |-> [alg |-> alg, pw |-> pw], type |-> "unknown", lapsed |-> TRUE,
            status |-> "active"]]
    /\ acked' = [acked EXCEPT ![u] = pw]
    /\ UNCHANGED <<req, overtaken, undone>>

CreateUser(u, pw) == pw \notin Unhashable /\ Insert(u, "bcrypt", pw)

CreateUserV1(u, pw) == EnableV1API /\ Insert(u, "md5", pw)

----------------------------------------------------------------------------
(* Login and LoginV1: find the user, read and check the hash, upgrade it, record *)

LoginFind(p, u, pw, v1) ==
    /\ req[p] = Idle
    /\ Live(u)
    /\ IF v1 THEN EnableV1API ELSE rows[u].status = "active"
    /\ Goto(p, [pc |-> "login_hash", user |-> u, pw |-> pw, v1 |-> v1])
    /\ UNCHANGED <<rows, acked, overtaken, undone>>

\* A login with nothing left to do to the hash; failed says that its UPDATE failed.
Finishing(r, v1, failed) ==
    [pc |-> "login_finish", user |-> r.user, pw |-> r.pw, v1 |-> v1, failed |-> failed]

LoginCheck(p) ==
    /\ req[p].pc = "login_hash"
    /\ LET r == req[p]  h == rows[r.user].hash IN
         IF ~Live(r.user) \/ ~Valid(r.pw, h)
         THEN Goto(p, Idle)
         ELSE IF NeedsMigration(h) /\ EnablePasswordMigration /\ ~r.v1 /\ r.pw \notin Unhashable
         THEN Goto(p, [pc |-> "login_migrate", user |-> r.user, pw |-> r.pw])
         ELSE Goto(p, Finishing(r, r.v1, FALSE))
    /\ UNCHANGED <<rows, acked, overtaken, undone>>

\* UpdatePasswordHash; its error is dropped.
LoginMigrate(p) ==
    /\ req[p].pc = "login_migrate"
    /\ LET r == req[p] IN
         \/ /\ WriteHash(r.user, r.pw)
            /\ Upgraded(p, r.user)
            /\ Goto(p, Finishing(r, FALSE, FALSE))
         \/ /\ Faulty
            /\ overtaken' = overtaken \ {p}
            /\ Goto(p, Finishing(r, FALSE, TRUE))
            /\ UNCHANGED <<rows, undone>>
    /\ UNCHANGED acked

\* UpdateLastLogin, deleted user or not.
LoginFinish(p) ==
    /\ req[p].pc = "login_finish"
    /\ rows' = [rows EXCEPT ![req[p].user].lapsed = FALSE]
    /\ Goto(p, Idle)
    /\ UNCHANGED <<acked, overtaken, undone>>

----------------------------------------------------------------------------
(* PasswordMigrator.MigrateUserPassword, to be called "after successful legacy *)
(* password validation": no flag and no rule for passwords stands before it.   *)

MigrateCheck(p, u, pw) ==
    /\ MigratorCalled
    /\ req[p] = Idle
    /\ Live(u) /\ Valid(pw, rows[u].hash) /\ NeedsMigration(rows[u].hash)
    /\ Goto(p, [pc |-> "tool_migrate", user |-> u, pw |-> pw])
    /\ UNCHANGED <<rows, acked, overtaken, undone>>

\* Mutant: only the type is written, the hash being left to UpdatePasswordHash.
MigrateTypeOnly(p) ==
    /\ req[p].pc = "tool_migrate"
    /\ rows' = [rows EXCEPT ![req[p].user].type = "bcrypt"]
    /\ Upgraded(p, req[p].user)
    /\ Goto(p, Idle)
    /\ UNCHANGED acked

MigrateUserPassword(p) ==
    /\ req[p].pc = "tool_migrate"
    /\ rows' = [rows EXCEPT ![req[p].user] =
          [@ EXCEPT !.hash = [alg |-> "bcrypt", pw |-> req[p].pw], !.type = "bcrypt"]]
    /\ Upgraded(p, req[p].user)
    /\ Goto(p, Idle)
    /\ UNCHANGED acked

----------------------------------------------------------------------------
(* ChangePassword: read and check the hash, then write the new one *)

\* Mutant: the old password is hashed again.
ChangeWriteOld(p) ==
    /\ req[p].pc = "change_write"
    /\ LET u == req[p].user IN
         /\ UNCHANGED rows
         /\ acked' = [acked EXCEPT ![u] = req[p].pw]
         /\ Overtake(p, u)
         /\ undone' = undone \ {u}
    /\ Goto(p, Idle)

\* Mutant: a user told to reset has no old password to be asked for.
ChangeCheckReset(p, u, old, new) ==
    /\ req[p] = Idle
    /\ Live(u) /\ (rows[u].hash = Blank \/ Valid(old, rows[u].hash))
    /\ new \notin Unhashable
    /\ Goto(p, [pc |-> "change_write", user |-> u, pw |-> new, old |-> old])
    /\ UNCHANGED <<rows, acked, overtaken, undone>>

ChangeCheck(p, u, old, new) ==
    /\ req[p] = Idle
    /\ Live(u) /\ Valid(old, rows[u].hash)
    /\ new \notin Unhashable
    /\ Goto(p, [pc |-> "change_write", user |-> u, pw |-> new, old |-> old])
    /\ UNCHANGED <<rows, acked, overtaken, undone>>

ChangeWrite(p) ==
    /\ req[p].pc = "change_write"
    /\ LET u == req[p].user IN
         /\ WriteHash(u, req[p].pw)
         /\ acked' = [acked EXCEPT ![u] = req[p].pw]
         /\ Overtake(p, u)
         /\ undone' = undone \ {u}
    /\ Goto(p, Idle)

----------------------------------------------------------------------------
(* ForcePasswordReset: one UPDATE over every row the type column calls legacy *)

ToReset(u) == Live(u) /\ rows[u].type \in Legacy /\ rows[u].lapsed

ForcePasswordReset ==
    /\ rows' = [u \in UserIDs |->
           IF ToReset(u)
           THEN [hash |-> Blank, type |-> "reset_required", lapsed |-> TRUE,
                 status |-> rows[u].status]
           ELSE rows[u]]
    /\ acked' = [u \in UserIDs |-> IF ToReset(u) THEN NoPassword ELSE acked[u]]
    /\ overtaken' = overtaken \cup UNION {Writers(u) : u \in {i \in UserIDs : ToReset(i)}}
    /\ undone' = {u \in undone : ~ToReset(u)}
    /\ UNCHANGED req

(* ValidateHashType: read hash and type, then write the type when it differs *)

ValidateRead(p, u) ==
    /\ req[p] = Idle
    /\ rows[u] # NoRow
    /\ Detected(rows[u].hash) # rows[u].type
    /\ Goto(p, [pc |-> "validate_write", user |-> u, type |-> Detected(rows[u].hash)])
    /\ UNCHANGED <<rows, acked, overtaken, undone>>

ValidateWrite(p) ==
    /\ req[p].pc = "validate_write"
    /\ rows' = [rows EXCEPT ![req[p].user].type = req[p].type]
    /\ Goto(p, Idle)
    /\ UNCHANGED <<acked, overtaken, undone>>

----------------------------------------------------------------------------
(* UpdateUser's active flag and DeleteUser, as far as logins see them *)

SetStatus(u) ==
    /\ Live(u)
    /\ \E s \in {"active", "inactive", "deleted"} : rows' = [rows EXCEPT ![u].status = s]
    /\ UNCHANGED <<req, acked, overtaken, undone>>

(* The last login slips behind the cutoff. *)
Lapse(u) ==
    /\ rows[u] # NoRow
    /\ rows' = [rows EXCEPT ![u].lapsed = TRUE]
    /\ UNCHANGED <<req, acked, overtaken, undone>>

(* A statement fails or its goroutine dies: the request is over. *)
Fail(p) ==
    /\ Faulty
    /\ req[p] # Idle
    /\ Goto(p, Idle)
    /\ overtaken' = overtaken \ {p}
    /\ UNCHANGED <<rows, acked, undone>>

----------------------------------------------------------------------------
Login(p) ==
    \/ \E u \in UserIDs, pw \in Passwords, v1 \in BOOLEAN : LoginFind(p, u, pw, v1)
    \/ LoginCheck(p) \/ LoginMigrate(p) \/ LoginFinish(p)

Migrate(p) ==
    \/ \E u \in UserIDs, pw \in Passwords : MigrateCheck(p, u, pw)
    \/ MigrateUserPassword(p)

ChangePassword(p) ==
    \/ \E u \in UserIDs, old, new \in Passwords : ChangeCheck(p, u, old, new)
    \/ ChangeWrite(p)

ValidateHashType(p) ==
    \/ \E u \in UserIDs : ValidateRead(p, u)
    \/ ValidateWrite(p)

Next ==
    \/ \E u \in UserIDs, pw \in Passwords : CreateUser(u, pw) \/ CreateUserV1(u, pw)
    \/ \E p \in Procs : Login(p) \/ Migrate(p) \/ ChangePassword(p) \/ ValidateHashType(p) \/ Fail(p)
    \/ ForcePasswordReset
    \/ \E u \in UserIDs : SetStatus(u) \/ Lapse(u)

Spec == Init /\ [][Next]_vars

----------------------------------------------------------------------------
\* The stored hash is what the user was last told: their password, or a reset.
AsAcknowledged(u) ==
    IF acked[u] = NoPassword
    THEN rows[u].hash = Blank
    ELSE rows[u].hash # Blank /\ rows[u].hash.pw = acked[u]

(* A password once confirmed is the one that is stored, and an account told   *)
(* to reset has none, unless an upgrade whose check was overtaken wrote over  *)
(* it (auth_service.go:83-91 and password_migration.go:101-112 against        *)
(* user_service.go:236-259 and password_migration.go:148-173).  A reset also  *)
(* gives way to a change that checked the old password before it: that user   *)
(* has a new one confirmed.                                                   *)
CredentialsAsAcknowledged ==
    \A u \in UserIDs : rows[u] # NoRow /\ u \notin undone => AsAcknowledged(u)

(* A request that is about to write a hash has been given the password stored *)
(* at that moment, unless the password was changed or reset since it checked: *)
(* upgrades do not make each other's checks void, and nobody comes to write   *)
(* without the current password (user_service.go:239-258, auth_service.go:    *)
(* 68-91).                                                                    *)
ChecksHold ==
    \A u \in UserIDs : \A p \in Writers(u) \ overtaken :
        rows[u].hash # Blank /\ rows[u].hash.pw = Checked(req[p])

\* No MD5 or SHA1 hash to crack: there is none, or it is bcrypt.
Strong(u) == rows[u].hash = Blank \/ rows[u].hash.alg = "bcrypt"

(* With password migration on, a v2 login that was given a password           *)
(* validatePassword allows leaves no legacy hash, whatever other requests did *)
(* since the hash was read, unless the error of its UPDATE was dropped.       *)
(* config.go:83-84 promises the same of every successful login; a shorter     *)
(* password, which the v1 API let in, is never upgraded (auth_service.go:     *)
(* 83-91, password.go:164-186).                                               *)
UpgradedAtLogin ==
    EnablePasswordMigration =>
        \A p \in Procs :
            /\ req[p].pc = "login_finish"
            /\ ~req[p].v1 /\ req[p].pw \notin Unhashable /\ ~req[p].failed
            => Strong(req[p].user)

(* A row counted as bcrypt (GetStats, password_migration.go:50) holds no      *)
(* legacy hash, although ValidateHashType writes the type it derived from a   *)
(* hash read one statement earlier (:181-192) and the type column is left     *)
(* alone by UpdatePasswordHash and ChangePassword.                            *)
CountedBcryptIsStrong ==
    \A u \in UserIDs : rows[u] # NoRow /\ rows[u].type = "bcrypt" => Strong(u)

\* The password of u has been erased and no request is about to write another.
Sealed(u) ==
    /\ rows[u] # NoRow /\ rows[u].hash = Blank
    /\ Writers(u) = {}

(* A forced reset is undone by requests that checked the old password before  *)
(* it, and by nothing that comes later: neither a login nor ChangePassword    *)
(* finds a password that matches '', and no other request writes one          *)
(* (password_migration.go:157 with password.go:64-88).                        *)
ResetHolds == [][\A u \in UserIDs : Sealed(u) => Sealed(u)']_vars

(* What "Password changed successfully" (handlers/users.go:307) tells the     *)
(* user: the new password is the stored one, until it is changed or reset.    *)
ChangedPasswordIsStored ==
    \A u \in UserIDs : rows[u] # NoRow /\ acked[u] # NoPassword => AsAcknowledged(u)

(* "forces password reset for users with legacy hashes"                       *)
(* (password_migration.go:145): for no one else.                              *)
ResetsOnlyLegacy ==
    [][ForcePasswordReset =>
         \A u \in UserIDs : ToReset(u) /\ rows[u].hash # Blank => rows[u].hash.alg \in Legacy]_vars
============================================================================
