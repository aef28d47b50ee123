-------------------------- MODULE CredentialsProofs --------------------------
(* Safety of Credentials for every set of users, goroutines and passwords and *)
(* every setting of the feature flags.                                        *)
EXTENDS Credentials, TLAPS

(* The inductive invariant ties every request in flight to the state: its     *)
(* user exists, a login that must have upgraded the hash left no legacy one,  *)
(* and a request about to write a hash, if it was not overtaken, has checked  *)
(* the password that is stored.                                               *)
Upgrading(r) ==
    /\ r.pc = "login_finish" /\ EnablePasswordMigration
    /\ ~r.v1 /\ r.pw \notin Unhashable /\ ~r.failed

RequestOK(r) ==
    r # Idle => rows[r.user] # NoRow /\ (Upgrading(r) => Strong(r.user))

Writing(r) == r.pc \in {"login_migrate", "tool_migrate", "change_write"}

CheckOK(r) ==
    Writing(r) => rows[r.user].hash # Blank /\ rows[r.user].hash.pw = Checked(r)

Inv ==
    /\ TypeOK
    /\ CredentialsAsAcknowledged
    /\ \A p \in Procs : RequestOK(req[p])
    /\ \A p \in Procs : p \notin overtaken => CheckOK(req[p])

LEMMA RequestFields ==
  ASSUME NEW r \in Requests, r # Idle
  PROVE  /\ r.user \in UserIDs
         /\ r.pc # "validate_write" => r.pw \in Passwords
         /\ r.pc = "login_hash" => r.v1 \in BOOLEAN
         /\ r.pc = "validate_write" => r.type \in Types
         /\ r.pc # "idle"
  BY DEF Requests, Idle

LEMMA FinishingType ==
  ASSUME NEW r, r.user \in UserIDs, r.pw \in Passwords, NEW v1 \in BOOLEAN, NEW failed \in BOOLEAN
  PROVE  LET n == Finishing(r, v1, failed)
         IN  /\ n \in Requests
             /\ n.pc = "login_finish" /\ n.user = r.user /\ n.pw = r.pw
             /\ n.v1 = v1 /\ n.failed = failed
  BY DEF Finishing, Requests

LEMMA IdleType == Idle \in Requests /\ Idle.pc = "idle"
  BY DEF Requests, Idle

(* Assigning one field of a row.                                              *)
LEMMA FieldUpdate ==
  ASSUME NEW r \in Row
  PROVE  /\ \A h \in Hash \cup {Blank} :
              [r EXCEPT !.hash = h] \in Row /\ [r EXCEPT !.hash = h].hash = h
         /\ \A l \in BOOLEAN :
              [r EXCEPT !.lapsed = l] \in Row /\ [r EXCEPT !.lapsed = l].hash = r.hash
         /\ \A t \in Types :
              [r EXCEPT !.type = t] \in Row /\ [r EXCEPT !.type = t].hash = r.hash
         /\ \A s \in {"active", "inactive", "deleted"} :
              [r EXCEPT !.status = s] \in Row /\ [r EXCEPT !.status = s].hash = r.hash
  BY DEF Row

(* Every step that leaves the hashes alone: it may only put in flight a       *)
(* request that fits the state.                                               *)
LEMMA SameHashStep ==
  ASSUME Inv,
         rows' \in [UserIDs -> Row \cup {NoRow}],
         \A u \in UserIDs : /\ rows[u] = NoRow => rows'[u] = NoRow
                            /\ rows[u] # NoRow => rows'[u] # NoRow /\ rows'[u].hash = rows[u].hash,
         UNCHANGED <<acked, undone>>,
         req' \in [Procs -> Requests],
         overtaken' \in SUBSET Procs,
         \A p \in Procs : \/ req'[p] = req[p] /\ (p \in overtaken => p \in overtaken')
                          \/ req'[p] = Idle
                          \/ RequestOK(req'[p]) /\ CheckOK(req'[p])
  PROVE  Inv'
<1>1. TypeOK'
  BY DEF Inv, TypeOK
<1>2. CredentialsAsAcknowledged'
  BY DEF Inv, CredentialsAsAcknowledged, AsAcknowledged
<1>3. ASSUME NEW p \in Procs
      PROVE  RequestOK(req[p])' /\ (p \notin overtaken' => CheckOK(req[p])')
  <2>1. RequestOK(req'[p]) /\ (p \notin overtaken' => CheckOK(req'[p]))
    BY IdleType DEF Inv, RequestOK, CheckOK, Writing
  <2>2. req'[p] # Idle => req'[p].user \in UserIDs
    BY RequestFields
  <2>3. CASE req'[p] = Idle
    BY <2>3, IdleType DEF RequestOK, CheckOK, Writing
  <2>4. CASE req'[p] # Idle
    <3> DEFINE u == req'[p].user
    <3>1. u \in UserIDs /\ rows[u] # NoRow
      BY <2>1, <2>2, <2>4 DEF RequestOK
    <3>2. rows'[u] # NoRow /\ rows'[u].hash = rows[u].hash
      BY <3>1
    <3> QED
      BY <2>1, <3>2 DEF RequestOK, CheckOK, Strong, Upgrading, Writing, Checked
  <2> QED
    BY <2>3, <2>4
<1> QED
  BY <1>1, <1>2, <1>3 DEF Inv

(* The same for the steps that do not touch the table at all.                 *)
LEMMA MoveStep ==
  ASSUME Inv, NEW p \in Procs, NEW r \in Requests, RequestOK(r), CheckOK(r), Goto(p, r),
         UNCHANGED <<rows, acked, undone>>,
         overtaken' = overtaken \/ overtaken' = overtaken \ {p}
  PROVE  Inv'
<1>1. /\ req' \in [Procs -> Requests]
      /\ req'[p] = r /\ \A q \in Procs \ {p} : req'[q] = req[q]
  BY DEF Inv, TypeOK, Goto
<1>2. rows' \in [UserIDs -> Row \cup {NoRow}] /\ overtaken' \in SUBSET Procs
  BY DEF Inv, TypeOK
<1>3. \A q \in Procs : \/ req'[q] = req[q] /\ (q \in overtaken => q \in overtaken')
                       \/ RequestOK(req'[q]) /\ CheckOK(req'[q])
  BY <1>1
<1> QED
  BY <1>1, <1>2, <1>3, SameHashStep

LEMMA IdleOK == RequestOK(Idle) /\ CheckOK(Idle)
  BY IdleType DEF RequestOK, CheckOK, Writing

LEMMA InsertInv ==
  ASSUME Inv, NEW u \in UserIDs, NEW alg \in {"bcrypt", "md5"}, NEW pw \in Passwords,
         Insert(u, alg, pw)
  PROVE  Inv'
<1> DEFINE h == [alg |-> alg, pw |-> pw]
           row == [hash |-> h, type |-> "unknown", lapsed |-> TRUE, status |-> "active"]
<1>1. h \in Hash /\ h.pw = pw
  BY DEF Hash, Legacy
<1>r. row \in Row /\ row.hash = h
  <2> HIDE DEF h
  <2> QED
    BY <1>1 DEF Row, Types
<1>2. row \in Row /\ row.hash = h /\ row # NoRow /\ h # Blank
  <2> HIDE DEF h, row
  <2> QED
    BY <1>1, <1>r, CredentialsAssumption
<1>3. /\ rows[u] = NoRow
      /\ rows' = [rows EXCEPT ![u] = row]
      /\ acked' = [acked EXCEPT ![u] = pw]
      /\ req' = req /\ overtaken' = overtaken /\ undone' = undone
  BY DEF Insert
<1> HIDE DEF h, row
<1>4. TypeOK'
  BY <1>2, <1>3 DEF Inv, TypeOK
<1>5. CredentialsAsAcknowledged'
  <2> SUFFICES ASSUME NEW i \in UserIDs, rows'[i] # NoRow, i \notin undone
               PROVE  AsAcknowledged(i)'
    BY <1>3 DEF CredentialsAsAcknowledged
  <2>1. CASE i = u
    <3>1. rows'[i].hash = h /\ acked'[i] = pw
      BY <1>2, <1>3, <2>1 DEF Inv, TypeOK
    <3> QED
      BY <1>1, <1>2, <3>1, CredentialsAssumption DEF AsAcknowledged
  <2>2. CASE i # u
    <3>1. rows'[i] = rows[i] /\ acked'[i] = acked[i]
      BY <1>3, <2>2 DEF Inv, TypeOK
    <3> QED
      BY <3>1 DEF Inv, CredentialsAsAcknowledged, AsAcknowledged
  <2> QED
    BY <2>1, <2>2
<1>6. ASSUME NEW p \in Procs
      PROVE  RequestOK(req[p])' /\ (p \notin overtaken' => CheckOK(req[p])')
  <2>1. CASE req[p] = Idle
    BY <1>3, <2>1, IdleType DEF RequestOK, CheckOK, Writing
  <2>2. CASE req[p] # Idle
    <3>1. req[p].user \in UserIDs /\ rows[req[p].user] # NoRow
      BY <2>2, RequestFields DEF Inv, TypeOK, RequestOK
    <3>2. rows'[req[p].user] = rows[req[p].user]
      BY <1>3, <3>1 DEF Inv, TypeOK
    <3> QED
      BY <1>3, <3>2 DEF Inv, RequestOK, CheckOK, Strong, Upgrading, Writing, Checked
  <2> QED
    BY <2>1, <2>2
<1> QED
  BY <1>4, <1>5, <1>6 DEF Inv

(* A user's row gets a bcrypt hash.  Outside the histories it is of the       *)
(* password acknowledged, and of the password other writers have checked.     *)
LEMMA HashStep ==
  ASSUME Inv, NEW p \in Procs, NEW u \in UserIDs, NEW pw \in Passwords, rows[u] # NoRow,
         NEW row \in Row, row.hash = [alg |-> "bcrypt", pw |-> pw],
         rows' = [rows EXCEPT ![u] = row],
         NEW r \in Requests, Goto(p, r),
         r # Idle => r.user = u /\ r.pc = "login_finish",
         acked' \in [UserIDs -> Passwords \cup {NoPassword}],
         overtaken' \in SUBSET Procs,
         undone' \in SUBSET UserIDs,
         \A i \in UserIDs \ {u} : acked'[i] = acked[i] /\ (i \in undone <=> i \in undone'),
         u \notin undone' => acked'[u] = pw,
         \A q \in Procs \ {p} :
            /\ q \in overtaken => q \in overtaken'
            /\ q \in Writers(u) /\ q \notin overtaken' => Checked(req[q]) = pw
  PROVE  Inv'
<1> DEFINE h == [alg |-> "bcrypt", pw |-> pw]
<1>1. h \in Hash /\ h.pw = pw /\ h.alg = "bcrypt"
  BY DEF Hash
<1>2. row.hash = h /\ req' = [req EXCEPT ![p] = r]
  BY DEF Goto
<1> HIDE DEF h
<1>3. h # Blank
  BY <1>1, CredentialsAssumption
<1>4. /\ rows'[u] \in Row /\ rows'[u].hash = h
      /\ \A i \in UserIDs \ {u} : rows'[i] = rows[i]
  BY <1>2 DEF Inv, TypeOK
<1>5. rows'[u] # NoRow
  BY <1>4, CredentialsAssumption
<1>6. TypeOK'
  <2>1. rows' \in [UserIDs -> Row \cup {NoRow}]
    BY <1>2, <1>4 DEF Inv, TypeOK
  <2> QED
    BY <1>2, <2>1 DEF Inv, TypeOK
<1>7. CredentialsAsAcknowledged'
  <2> SUFFICES ASSUME NEW i \in UserIDs, rows'[i] # NoRow, i \notin undone'
               PROVE  AsAcknowledged(i)'
    BY DEF CredentialsAsAcknowledged
  <2>1. CASE i = u
    BY <1>1, <1>3, <1>4, <2>1, CredentialsAssumption DEF AsAcknowledged
  <2>2. CASE i # u
    BY <1>4, <2>2 DEF Inv, CredentialsAsAcknowledged, AsAcknowledged
  <2> QED
    BY <2>1, <2>2
<1>8. ASSUME NEW q \in Procs
      PROVE  RequestOK(req[q])' /\ (q \notin overtaken' => CheckOK(req[q])')
  <2>0. CASE req'[q] = Idle
    BY <2>0, IdleType DEF RequestOK, CheckOK, Writing
  <2>1. CASE q = p /\ r # Idle
    <3>1. req'[q] = r /\ r.user = u /\ r.pc = "login_finish"
      BY <1>2, <2>1 DEF Inv, TypeOK
    <3> QED
      BY <1>1, <1>4, <1>5, <3>1 DEF RequestOK, CheckOK, Strong, Writing
  <2>2. CASE q # p /\ req'[q] # Idle
    <3>1. /\ req'[q] = req[q] /\ req[q].user \in UserIDs /\ RequestOK(req[q])
          /\ q \notin overtaken' => CheckOK(req[q])
      BY <1>2, <2>2, RequestFields DEF Inv, TypeOK
    <3>2. CASE req[q].user = u
      <4>1. q \notin overtaken' /\ Writing(req[q]) => Checked(req[q]) = pw
        BY <2>2, <3>2 DEF Writers, Writing
      <4> QED
        BY <1>1, <1>3, <1>4, <1>5, <3>1, <3>2, <4>1
           DEF RequestOK, CheckOK, Strong, Upgrading, Writing, Checked
    <3>3. CASE req[q].user # u
      <4>1. rows'[req[q].user] = rows[req[q].user]
        BY <1>4, <3>1, <3>3
      <4> QED
        BY <3>1, <4>1 DEF RequestOK, CheckOK, Strong, Upgrading, Writing, Checked
    <3> QED
      BY <3>2, <3>3
  <2> QED
    BY <1>2, <2>0, <2>1, <2>2 DEF Inv, TypeOK
<1> QED
  BY <1>6, <1>7, <1>8 DEF Inv

(* UpdatePasswordHash and MigrateUserPassword write such a row.               *)
LEMMA NewHashRow ==
  ASSUME NEW row \in Row, NEW pw \in Passwords, NEW t \in Types
  PROVE  LET h == [alg |-> "bcrypt", pw |-> pw]
             new == [row EXCEPT !.hash = h, !.type = t]
         IN  /\ [row EXCEPT !.hash = h] \in Row /\ [row EXCEPT !.hash = h].hash = h
             /\ new \in Row /\ new.hash = h
<1> DEFINE h == [alg |-> "bcrypt", pw |-> pw]
<1>1. h \in Hash
  BY DEF Hash
<1> HIDE DEF h
<1>2. /\ [row EXCEPT !.hash = h] \in Row /\ [row EXCEPT !.hash = h].hash = h
      /\ [row EXCEPT !.hash = h, !.type = t] \in Row
      /\ [row EXCEPT !.hash = h, !.type = t].hash = h
  BY <1>1 DEF Row
<1> QED
  BY <1>2 DEF h

LEMMA WriteHashRow ==
  ASSUME Inv, NEW u \in UserIDs, NEW pw \in Passwords, rows[u] # NoRow, WriteHash(u, pw)
  PROVE  \E row \in Row : row.hash = [alg |-> "bcrypt", pw |-> pw] /\ rows' = [rows EXCEPT ![u] = row]
<1> DEFINE row == [rows[u] EXCEPT !.hash = [alg |-> "bcrypt", pw |-> pw]]
<1>1. rows[u] \in Row /\ "bcrypt" \in Types
  BY DEF Inv, TypeOK, Types
<1>2. row \in Row /\ row.hash = [alg |-> "bcrypt", pw |-> pw]
  BY <1>1, NewHashRow
<1>3. rows' = [rows EXCEPT ![u] = row]
  BY DEF WriteHash
<1> QED
  BY <1>2, <1>3

LEMMA ChangeWriteInv ==
  ASSUME Inv, NEW p \in Procs, ChangeWrite(p)
  PROVE  Inv'
<1> DEFINE u == req[p].user
           pw == req[p].pw
<1>1. req[p] \in Requests /\ req[p] # Idle /\ req[p].pc = "change_write"
  BY IdleType DEF Inv, TypeOK, ChangeWrite
<1>2. u \in UserIDs /\ pw \in Passwords /\ rows[u] # NoRow
  BY <1>1, RequestFields DEF Inv, RequestOK
<1>3. /\ WriteHash(u, pw)
      /\ acked' = [acked EXCEPT ![u] = pw]
      /\ overtaken' = (overtaken \cup Writers(u)) \ {p}
      /\ undone' = undone \ {u}
      /\ Goto(p, Idle)
  BY DEF ChangeWrite, Overtake
<1> HIDE DEF u, pw
<1>4. acked' \in [UserIDs -> Passwords \cup {NoPassword}] /\ acked'[u] = pw
  BY <1>2, <1>3 DEF Inv, TypeOK
<1>5. \A i \in UserIDs \ {u} : acked'[i] = acked[i] /\ (i \in undone <=> i \in undone')
  BY <1>2, <1>3 DEF Inv, TypeOK
<1>6. overtaken' \in SUBSET Procs /\ undone' \in SUBSET UserIDs
  BY <1>3 DEF Inv, TypeOK, Writers
<1>7. \A q \in Procs \ {p} :
         /\ q \in overtaken => q \in overtaken'
         /\ q \in Writers(u) /\ q \notin overtaken' => Checked(req[q]) = pw
  BY <1>3
<1>8. PICK row \in Row : row.hash = [alg |-> "bcrypt", pw |-> pw] /\ rows' = [rows EXCEPT ![u] = row]
  BY <1>2, <1>3, WriteHashRow
<1> QED
  BY <1>2, <1>3, <1>4, <1>5, <1>6, <1>7, <1>8, IdleType, HashStep

(* An upgrade writes the password it has checked: the stored one, and with it *)
(* the acknowledged one, if it was not overtaken.                             *)
LEMMA UpgradeStep ==
  ASSUME Inv, NEW p \in Procs, NEW u \in UserIDs, NEW pw \in Passwords, rows[u] # NoRow,
         req[p].user = u, req[p].pw = pw, req[p].pc \in {"login_migrate", "tool_migrate"},
         NEW row \in Row, row.hash = [alg |-> "bcrypt", pw |-> pw],
         rows' = [rows EXCEPT ![u] = row],
         NEW r \in Requests, Goto(p, r),
         r # Idle => r.user = u /\ r.pc = "login_finish",
         Upgraded(p, u), acked' = acked
  PROVE  Inv'
<1>1. /\ overtaken' \in SUBSET Procs /\ undone' \in SUBSET UserIDs
      /\ acked' \in [UserIDs -> Passwords \cup {NoPassword}]
  BY DEF Inv, TypeOK, Upgraded, Overtake, Writers
<1>2. \A i \in UserIDs \ {u} : acked'[i] = acked[i] /\ (i \in undone <=> i \in undone')
  BY DEF Upgraded
<1>3. p \notin overtaken => rows[u].hash # Blank /\ rows[u].hash.pw = pw
  BY DEF Inv, CheckOK, Writing, Checked
<1>4. u \notin undone' => acked'[u] = pw
  <2> SUFFICES ASSUME u \notin undone' PROVE acked[u] = pw
    OBVIOUS
  <2>1. p \notin overtaken /\ u \notin undone
    BY DEF Upgraded
  <2> QED
    BY <1>3, <2>1 DEF Inv, CredentialsAsAcknowledged, AsAcknowledged
<1>5. ASSUME NEW q \in Procs \ {p}
      PROVE  /\ q \in overtaken => q \in overtaken'
             /\ q \in Writers(u) /\ q \notin overtaken' => Checked(req[q]) = pw
  <2>1. CASE p \in overtaken
    BY <2>1 DEF Upgraded, Overtake
  <2>2. CASE p \notin overtaken
    <3>1. overtaken' = overtaken
      BY <2>2 DEF Upgraded
    <3>2. q \in Writers(u) /\ q \notin overtaken => Checked(req[q]) = rows[u].hash.pw
      BY DEF Inv, CheckOK, Writers, Writing
    <3> QED
      BY <1>3, <2>2, <3>1, <3>2
  <2> QED
    BY <2>1, <2>2
<1> QED
  BY <1>1, <1>2, <1>4, <1>5, HashStep

LEMMA LoginMigrateInv ==
  ASSUME Inv, NEW p \in Procs, LoginMigrate(p)
  PROVE  Inv'
<1> DEFINE u == req[p].user
           pw == req[p].pw
           r == Finishing(req[p], FALSE, FALSE)
           n == Finishing(req[p], FALSE, TRUE)
<1>1. req[p] \in Requests /\ req[p] # Idle /\ req[p].pc = "login_migrate"
  BY IdleType DEF Inv, TypeOK, LoginMigrate
<1>2. u \in UserIDs /\ pw \in Passwords /\ rows[u] # NoRow
  BY <1>1, RequestFields DEF Inv, RequestOK
<1>3. /\ r \in Requests /\ r.user = u /\ r.pc = "login_finish"
      /\ n \in Requests /\ n.user = u /\ n.pc = "login_finish" /\ n.failed
  BY <1>2, FinishingType
<1>4. \/ WriteHash(u, pw) /\ Upgraded(p, u) /\ Goto(p, r)
      \/ overtaken' = overtaken \ {p} /\ Goto(p, n) /\ UNCHANGED <<rows, undone>>
  BY DEF LoginMigrate
<1>5. acked' = acked /\ req[p].user = u /\ req[p].pw = pw
  BY DEF LoginMigrate
<1> HIDE DEF u, pw, r, n
<1>6. CASE WriteHash(u, pw) /\ Upgraded(p, u) /\ Goto(p, r)
  <2>1. PICK row \in Row : row.hash = [alg |-> "bcrypt", pw |-> pw] /\ rows' = [rows EXCEPT ![u] = row]
    BY <1>2, <1>6, WriteHashRow
  <2> QED
    BY <1>1, <1>2, <1>3, <1>5, <1>6, <2>1, UpgradeStep
<1>7. CASE overtaken' = overtaken \ {p} /\ Goto(p, n) /\ UNCHANGED <<rows, undone>>
  <2>1. RequestOK(n) /\ CheckOK(n)
    BY <1>2, <1>3 DEF RequestOK, CheckOK, Upgrading, Writing
  <2> QED
    BY <1>3, <1>5, <1>7, <2>1, MoveStep
<1> QED
  BY <1>4, <1>6, <1>7

LEMMA MigrateUserPasswordInv ==
  ASSUME Inv, NEW p \in Procs, MigrateUserPassword(p)
  PROVE  Inv'
<1> DEFINE u == req[p].user
           pw == req[p].pw
           h == [alg |-> "bcrypt", pw |-> pw]
           row == [rows[u] EXCEPT !.hash = h, !.type = "bcrypt"]
<1>1. req[p] \in Requests /\ req[p] # Idle /\ req[p].pc = "tool_migrate"
  BY IdleType DEF Inv, TypeOK, MigrateUserPassword
<1>2. u \in UserIDs /\ pw \in Passwords /\ rows[u] # NoRow
  BY <1>1, RequestFields DEF Inv, RequestOK
<1>r. rows[u] \in Row /\ "bcrypt" \in Types
  BY <1>2 DEF Inv, TypeOK, Types
<1>3. row \in Row /\ row.hash = h
  BY <1>2, <1>r, NewHashRow
<1>4. /\ rows' = [rows EXCEPT ![u] = row] /\ Upgraded(p, u) /\ Goto(p, Idle) /\ acked' = acked
      /\ req[p].user = u /\ req[p].pw = pw /\ h = [alg |-> "bcrypt", pw |-> pw]
  BY DEF MigrateUserPassword
<1> HIDE DEF u, pw, h, row
<1> QED
  BY <1>1, <1>2, <1>3, <1>4, IdleType, UpgradeStep

LEMMA ForcePasswordResetInv ==
  ASSUME Inv, ForcePasswordReset
  PROVE  Inv'
<1> DEFINE wiped(u) == [hash |-> Blank, type |-> "reset_required", lapsed |-> TRUE,
                        status |-> rows[u].status]
<1>1. /\ rows' = [u \in UserIDs |-> IF ToReset(u) THEN wiped(u) ELSE rows[u]]
      /\ acked' = [u \in UserIDs |-> IF ToReset(u) THEN NoPassword ELSE acked[u]]
      /\ overtaken' = overtaken \cup UNION {Writers(u) : u \in {i \in UserIDs : ToReset(i)}}
      /\ undone' = {u \in undone : ~ToReset(u)}
      /\ req' = req
  BY DEF ForcePasswordReset
<1>2. \A u \in UserIDs : ToReset(u) => wiped(u) \in Row /\ wiped(u).hash = Blank
  BY DEF Inv, TypeOK, ToReset, Live, Row, Types
<1>3. ASSUME NEW u \in UserIDs, ToReset(u)
      PROVE  rows'[u] # NoRow /\ rows'[u].hash = Blank
  <2>1. wiped(u) \in Row /\ rows'[u] = wiped(u) /\ wiped(u).hash = Blank
    BY <1>1, <1>2, <1>3
  <2> HIDE DEF wiped
  <2> QED
    BY <2>1, CredentialsAssumption
<1> HIDE DEF wiped
<1>4. TypeOK'
  <2>1. rows' \in [UserIDs -> Row \cup {NoRow}]
    BY <1>1, <1>2 DEF Inv, TypeOK
  <2>2. /\ acked' \in [UserIDs -> Passwords \cup {NoPassword}]
        /\ overtaken' \in SUBSET Procs /\ undone' \in SUBSET UserIDs
    BY <1>1 DEF Inv, TypeOK, Writers
  <2> QED
    BY <1>1, <2>1, <2>2 DEF Inv, TypeOK
<1>5. CredentialsAsAcknowledged'
  <2> SUFFICES ASSUME NEW u \in UserIDs, rows'[u] # NoRow, u \notin undone'
               PROVE  AsAcknowledged(u)'
    BY DEF CredentialsAsAcknowledged
  <2>1. CASE ToReset(u)
    BY <1>1, <1>3, <2>1 DEF AsAcknowledged
  <2>2. CASE ~ToReset(u)
    BY <1>1, <2>2 DEF Inv, CredentialsAsAcknowledged, AsAcknowledged
  <2> QED
    BY <2>1, <2>2
<1>6. ASSUME NEW p \in Procs
      PROVE  RequestOK(req[p])' /\ (p \notin overtaken' => CheckOK(req[p])')
  <2>0. CASE req[p] = Idle
    BY <1>1, <2>0, IdleType DEF RequestOK, CheckOK, Writing
  <2> SUFFICES ASSUME req[p] # Idle
               PROVE  RequestOK(req[p])' /\ (p \notin overtaken' => CheckOK(req[p])')
    BY <2>0
  <2> DEFINE u == req[p].user
  <2>1. /\ u \in UserIDs /\ RequestOK(req[p])
        /\ p \notin overtaken' => CheckOK(req[p])
    BY <1>1, RequestFields DEF Inv, TypeOK
  <2>2. CASE ToReset(u)
    <3>1. Writing(req[p]) => p \in overtaken'
      BY <1>1, <2>1, <2>2 DEF Writers, Writing
    <3> QED
      BY <1>1, <1>3, <2>1, <2>2, <3>1 DEF RequestOK, CheckOK, Strong, Writing
  <2>3. CASE ~ToReset(u)
    <3>1. rows'[u] = rows[u]
      BY <1>1, <2>1, <2>3
    <3> QED
      BY <1>1, <2>1, <3>1 DEF RequestOK, CheckOK, Strong, Upgrading, Writing, Checked
  <2> QED
    BY <2>2, <2>3
<1> QED
  BY <1>4, <1>5, <1>6 DEF Inv

-----------------------------------------------------------------------------
LEMMA InitInv == Init => Inv
<1> SUFFICES ASSUME Init PROVE Inv
  OBVIOUS
<1>1. ASSUME NEW u \in UserIDs
      PROVE  \/ rows[u] = NoRow /\ acked[u] = NoPassword
             \/ /\ rows[u] \in Row /\ rows[u] # NoRow /\ rows[u].hash \in Hash
                /\ acked[u] = rows[u].hash.pw
  <2>1. CASE rows[u] = NoRow
    BY <2>1 DEF Init
  <2>2. CASE rows[u] # NoRow
    <3>1. rows[u] \in InitialRow /\ acked[u] = rows[u].hash.pw
      BY <2>2 DEF Init
    <3>2. rows[u] \in Row /\ rows[u].hash \in Hash
      BY <3>1 DEF InitialRow, Row
    <3> QED
      BY <2>2, <3>1, <3>2
  <2> QED
    BY <2>1, <2>2
<1>2. TypeOK
  <2>1. rows \in [UserIDs -> Row \cup {NoRow}]
    BY <1>1 DEF Init
  <2>2. acked \in [UserIDs -> Passwords \cup {NoPassword}]
    BY <1>1 DEF Init, Hash
  <2> QED
    BY <2>1, <2>2, IdleType DEF Init, TypeOK
<1>3. CredentialsAsAcknowledged
  <2> SUFFICES ASSUME NEW u \in UserIDs, rows[u] # NoRow PROVE AsAcknowledged(u)
    BY DEF CredentialsAsAcknowledged
  <2>1. rows[u].hash \in Hash /\ acked[u] = rows[u].hash.pw
    BY <1>1
  <2>2. rows[u].hash.pw \in Passwords
    BY <2>1 DEF Hash
  <2> QED
    BY <2>1, <2>2, CredentialsAssumption DEF AsAcknowledged
<1>4. \A p \in Procs : RequestOK(req[p]) /\ CheckOK(req[p])
  BY IdleOK DEF Init
<1> QED
  BY <1>2, <1>3, <1>4 DEF Inv

LEMMA LoginCheckInv ==
  ASSUME Inv, NEW p \in Procs, LoginCheck(p)
  PROVE  Inv'
<1> DEFINE r == req[p]
           u == r.user
           h == rows[u].hash
           m == [pc |-> "login_migrate", user |-> u, pw |-> r.pw]
           n == Finishing(r, r.v1, FALSE)
           upgrade == /\ NeedsMigration(h) /\ EnablePasswordMigration
                      /\ ~r.v1 /\ r.pw \notin Unhashable
<1>1. r \in Requests /\ r # Idle /\ r.pc = "login_hash"
  BY IdleType DEF Inv, TypeOK, LoginCheck
<1>2. u \in UserIDs /\ r.pw \in Passwords /\ r.v1 \in BOOLEAN /\ rows[u] # NoRow
  BY <1>1, RequestFields DEF Inv, RequestOK
<1>3. UNCHANGED <<rows, acked, overtaken, undone>>
  BY DEF LoginCheck
<1>4. \/ Goto(p, Idle)
      \/ Valid(r.pw, h) /\ upgrade /\ Goto(p, m)
      \/ Valid(r.pw, h) /\ ~upgrade /\ Goto(p, n)
  BY DEF LoginCheck
<1>5. CASE Goto(p, Idle)
  BY <1>3, <1>5, IdleType, IdleOK, MoveStep
<1>6. CASE Valid(r.pw, h) /\ Goto(p, m)
  <2>1. m \in Requests
    BY <1>2 DEF Requests
  <2>2. RequestOK(m)
    BY <1>2 DEF RequestOK, Upgrading
  <2>3. CheckOK(m)
    BY <1>6 DEF CheckOK, Writing, Checked, Valid
  <2> QED
    BY <1>3, <1>6, <2>1, <2>2, <2>3, MoveStep
<1>7. CASE Valid(r.pw, h) /\ ~upgrade /\ Goto(p, n)
  <2>1. /\ n \in Requests /\ n.pc = "login_finish" /\ n.user = u
        /\ n.pw = r.pw /\ n.v1 = r.v1
    BY <1>2, FinishingType
  <2>2. h = Blank \/ h \in Hash
    BY <1>2 DEF Inv, TypeOK, Row
  <2>3. ~NeedsMigration(h) => Strong(u)
    BY <2>2 DEF NeedsMigration, Hash, Legacy, Strong
  <2> HIDE DEF n
  <2>4. Upgrading(n) => Strong(u)
    BY <1>7, <2>1, <2>3 DEF Upgrading
  <2>5. RequestOK(n) /\ CheckOK(n)
    BY <1>2, <2>1, <2>4 DEF RequestOK, CheckOK, Writing
  <2> QED
    BY <1>3, <1>7, <2>1, <2>5, MoveStep
<1> QED
  BY <1>4, <1>5, <1>6, <1>7

(* The steps that assign one field of a row other than the hash.              *)
LEMMA RowStep ==
  ASSUME Inv, NEW u \in UserIDs, rows[u] # NoRow,
         NEW row \in Row, row.hash = rows[u].hash, rows' = [rows EXCEPT ![u] = row],
         UNCHANGED <<acked, overtaken, undone>>,
         UNCHANGED req \/ \E p \in Procs : Goto(p, Idle)
  PROVE  Inv'
<1>1. row # NoRow
  BY CredentialsAssumption
<1>2. rows' \in [UserIDs -> Row \cup {NoRow}]
  BY DEF Inv, TypeOK
<1>3. \A i \in UserIDs : /\ rows[i] = NoRow => rows'[i] = NoRow
                         /\ rows[i] # NoRow => rows'[i] # NoRow /\ rows'[i].hash = rows[i].hash
  BY <1>1 DEF Inv, TypeOK
<1>4. req' \in [Procs -> Requests] /\ \A q \in Procs : req'[q] = req[q] \/ req'[q] = Idle
  BY IdleType DEF Inv, TypeOK, Goto
<1>5. overtaken' \in SUBSET Procs
  BY DEF Inv, TypeOK
<1> QED
  BY <1>2, <1>3, <1>4, <1>5, SameHashStep

LEMMA StepInv == Inv /\ [Next]_vars => Inv'
<1> SUFFICES ASSUME Inv, [Next]_vars PROVE Inv'
  OBVIOUS
<1>0. \A u \in UserIDs : rows[u] # NoRow => rows[u] \in Row
  BY DEF Inv, TypeOK
<1>1. ASSUME NEW u \in UserIDs, NEW pw \in Passwords, CreateUser(u, pw) PROVE Inv'
  BY <1>1, InsertInv DEF CreateUser
<1>2. ASSUME NEW u \in UserIDs, NEW pw \in Passwords, CreateUserV1(u, pw) PROVE Inv'
  BY <1>2, InsertInv DEF CreateUserV1
<1>3. ASSUME NEW p \in Procs, NEW u \in UserIDs, NEW pw \in Passwords, NEW v1 \in BOOLEAN,
             LoginFind(p, u, pw, v1)
      PROVE  Inv'
  <2> DEFINE r == [pc |-> "login_hash", user |-> u, pw |-> pw, v1 |-> v1]
  <2>1. r \in Requests
    BY DEF Requests
  <2>2. RequestOK(r) /\ CheckOK(r)
    BY <1>3 DEF RequestOK, CheckOK, Upgrading, Writing, LoginFind, Live
  <2> QED
    BY <1>3, <2>1, <2>2, MoveStep DEF LoginFind
<1>4. ASSUME NEW p \in Procs, LoginCheck(p) PROVE Inv'
  BY <1>4, LoginCheckInv
<1>5. ASSUME NEW p \in Procs, Migrate(p) \/ LoginMigrate(p) PROVE Inv'
  <2>1. ASSUME NEW u \in UserIDs, NEW pw \in Passwords, MigrateCheck(p, u, pw) PROVE Inv'
    <3> DEFINE r == [pc |-> "tool_migrate", user |-> u, pw |-> pw]
    <3>1. r \in Requests
      BY DEF Requests
    <3>2. RequestOK(r) /\ CheckOK(r)
      BY <2>1 DEF RequestOK, CheckOK, Upgrading, Writing, Checked, MigrateCheck, Live, Valid
    <3> QED
      BY <2>1, <3>1, <3>2, MoveStep DEF MigrateCheck
  <2> QED
    BY <1>5, <2>1, LoginMigrateInv, MigrateUserPasswordInv DEF Migrate
<1>6. ASSUME NEW p \in Procs, LoginFinish(p) PROVE Inv'
  <2> DEFINE u == req[p].user
             row == [rows[u] EXCEPT !.lapsed = FALSE]
  <2>1. u \in UserIDs /\ rows[u] # NoRow
    BY <1>6, RequestFields, IdleType DEF Inv, TypeOK, RequestOK, LoginFinish
  <2>2. row \in Row /\ row.hash = rows[u].hash
    BY <1>0, <2>1, FieldUpdate
  <2>3. rows' = [rows EXCEPT ![u] = row]
    BY <1>6 DEF LoginFinish
  <2> HIDE DEF row, u
  <2> QED
    BY <1>6, <2>1, <2>2, <2>3, RowStep DEF LoginFinish
<1>7. ASSUME NEW p \in Procs, NEW u \in UserIDs, NEW old \in Passwords, NEW new \in Passwords,
             ChangeCheck(p, u, old, new)
      PROVE  Inv'
  <2> DEFINE r == [pc |-> "change_write", user |-> u, pw |-> new, old |-> old]
  <2>1. r \in Requests
    BY DEF Requests
  <2>2. RequestOK(r) /\ CheckOK(r)
    BY <1>7 DEF RequestOK, CheckOK, Upgrading, Writing, Checked, ChangeCheck, Live, Valid
  <2> QED
    BY <1>7, <2>1, <2>2, MoveStep DEF ChangeCheck
<1>8. ASSUME NEW p \in Procs, ChangeWrite(p) PROVE Inv'
  BY <1>8, ChangeWriteInv
<1>9. ASSUME NEW p \in Procs, NEW u \in UserIDs, ValidateRead(p, u) PROVE Inv'
  <2> DEFINE t == Detected(rows[u].hash)
             r == [pc |-> "validate_write", user |-> u, type |-> t]
  <2>1. t \in Types /\ rows[u] # NoRow
    BY <1>0, <1>9 DEF ValidateRead, Detected, Row, Hash, Legacy, Types
  <2> HIDE DEF t
  <2>2. r \in Requests
    BY <2>1 DEF Requests
  <2>3. RequestOK(r) /\ CheckOK(r)
    BY <2>1 DEF RequestOK, CheckOK, Upgrading, Writing
  <2> QED
    BY <1>9, <2>2, <2>3, MoveStep DEF ValidateRead, t
<1>10. ASSUME NEW p \in Procs, ValidateWrite(p) PROVE Inv'
  <2> DEFINE u == req[p].user
             row == [rows[u] EXCEPT !.type = req[p].type]
  <2>1. u \in UserIDs /\ rows[u] # NoRow /\ req[p].type \in Types
    BY <1>10, RequestFields, IdleType DEF Inv, TypeOK, RequestOK, ValidateWrite
  <2>2. row \in Row /\ row.hash = rows[u].hash
    BY <1>0, <2>1, FieldUpdate
  <2>3. rows' = [rows EXCEPT ![u] = row]
    BY <1>10 DEF ValidateWrite
  <2> HIDE DEF row, u
  <2> QED
    BY <1>10, <2>1, <2>2, <2>3, RowStep DEF ValidateWrite
<1>11. ASSUME NEW p \in Procs, Fail(p) PROVE Inv'
  BY <1>11, IdleType, IdleOK, MoveStep DEF Fail
<1>12. CASE ForcePasswordReset
  BY <1>12, ForcePasswordResetInv
<1>13. ASSUME NEW u \in UserIDs, SetStatus(u) PROVE Inv'
  <2>1. PICK s \in {"active", "inactive", "deleted"} : rows' = [rows EXCEPT ![u].status = s]
    BY <1>13 DEF SetStatus
  <2> DEFINE row == [rows[u] EXCEPT !.status = s]
  <2>2. rows[u] # NoRow
    BY <1>13 DEF SetStatus, Live
  <2>3. row \in Row /\ row.hash = rows[u].hash
    BY <1>0, <2>2, FieldUpdate
  <2>4. rows' = [rows EXCEPT ![u] = row]
    BY <2>1
  <2> HIDE DEF row
  <2> QED
    BY <1>13, <2>2, <2>3, <2>4, RowStep DEF SetStatus
<1>14. ASSUME NEW u \in UserIDs, Lapse(u) PROVE Inv'
  <2> DEFINE row == [rows[u] EXCEPT !.lapsed = TRUE]
  <2>1. rows[u] # NoRow
    BY <1>14 DEF Lapse
  <2>2. row \in Row /\ row.hash = rows[u].hash
    BY <1>0, <2>1, FieldUpdate
  <2>3. rows' = [rows EXCEPT ![u] = row]
    BY <1>14 DEF Lapse
  <2> HIDE DEF row
  <2> QED
    BY <1>14, <2>1, <2>2, <2>3, RowStep DEF Lapse
<1>15. CASE UNCHANGED vars
  <2>1. TypeOK'
    BY <1>15 DEF Inv, TypeOK, vars
  <2>2. CredentialsAsAcknowledged'
    BY <1>15 DEF Inv, CredentialsAsAcknowledged, AsAcknowledged, vars
  <2>3. \A p \in Procs : RequestOK(req[p])' /\ (p \notin overtaken' => CheckOK(req[p])')
    BY <1>15 DEF Inv, RequestOK, CheckOK, Strong, Upgrading, Writing, Checked, vars
  <2> QED
    BY <2>1, <2>2, <2>3 DEF Inv
<1> QED
  BY <1>1, <1>2, <1>3, <1>4, <1>5, <1>6, <1>7, <1>8, <1>9, <1>10, <1>11, <1>12, <1>13, <1>14,
     <1>15 DEF Next, Login, ChangePassword, ValidateHashType

(* The inductive invariant holds in every reachable state.                    *)
THEOREM SpecInv == Spec => []Inv
<1>1. Init => Inv
  BY InitInv
<1>2. Inv /\ [Next]_vars => Inv'
  BY StepInv
<1> QED
  BY <1>1, <1>2, PTL DEF Spec

(* Every reachable state has the declared types.                              *)
THEOREM TypeCorrect == Spec => []TypeOK
<1>1. Inv => TypeOK
  BY DEF Inv
<1> QED
  BY <1>1, SpecInv, PTL

(* The stored hash is of the password the user was last told is theirs, or    *)
(* none after a forced reset, unless an upgrade wrote that had been overtaken *)
(* by a change or a reset.                                                    *)
THEOREM AcknowledgedPasswordsKept == Spec => []CredentialsAsAcknowledged
<1>1. Inv => CredentialsAsAcknowledged
  BY DEF Inv
<1> QED
  BY <1>1, SpecInv, PTL

(* Whoever is about to write a hash has checked the password that is stored,  *)
(* or was overtaken: any number of logins, tools and changes of one user make *)
(* each other's checks void in no other way.                                  *)
THEOREM ChecksStayTrue == Spec => []ChecksHold
<1>1. Inv => ChecksHold
  BY DEF Inv, CheckOK, ChecksHold, Writers, Writing
<1> QED
  BY <1>1, SpecInv, PTL

(* A login that had to upgrade its user's hash and did leaves no MD5 or SHA1  *)
(* hash behind, even though its check and its UPDATE are separate statements. *)
THEOREM LoginsUpgrade == Spec => []UpgradedAtLogin
<1>1. Inv => UpgradedAtLogin
  BY IdleType DEF Inv, RequestOK, UpgradedAtLogin, Upgrading
<1> QED
  BY <1>1, SpecInv, PTL

-----------------------------------------------------------------------------
(* The types the tools may count as bcrypt, in the table and on their way     *)
(* there: by the time ValidateHashType writes its verdict the hash may be     *)
(* another one, but a hash that was strong when it was read still is.         *)
VerdictOK(r) == r.pc = "validate_write" /\ r.type = "bcrypt" => Strong(r.user)

TypesInv ==
    /\ CountedBcryptIsStrong
    /\ \A p \in Procs : VerdictOK(req[p])

(* A step whose hashes stay strong, that calls bcrypt only rows that were     *)
(* called so or are strong, and puts no new verdict in flight.                *)
LEMMA StrongStep ==
  ASSUME Inv, TypesInv, req' \in [Procs -> Requests],
         \A u \in UserIDs : rows[u] # NoRow /\ Strong(u) => Strong(u)',
         \A u \in UserIDs : rows'[u] # NoRow /\ rows'[u].type = "bcrypt" =>
            (rows[u] # NoRow /\ rows[u].type = "bcrypt") \/ Strong(u)',
         \A p \in Procs : req'[p] = req[p] \/ VerdictOK(req[p])'
  PROVE  TypesInv'
<1>1. CountedBcryptIsStrong'
  BY DEF TypesInv, CountedBcryptIsStrong
<1>2. ASSUME NEW p \in Procs, req'[p] = req[p],
             req[p].pc = "validate_write", req[p].type = "bcrypt"
      PROVE  Strong(req[p].user)'
  <2> DEFINE u == req[p].user
  <2>1. req[p] # Idle /\ req[p] \in Requests
    BY <1>2, IdleType DEF Inv, TypeOK
  <2>2. u \in UserIDs /\ rows[u] # NoRow /\ Strong(u)
    BY <1>2, <2>1, RequestFields DEF Inv, RequestOK, TypesInv, VerdictOK
  <2>3. PICK i \in UserIDs : i = u
    BY <2>2
  <2>4. Strong(i)'
    BY <2>2, <2>3
  <2> QED
    BY <1>2, <2>3, <2>4 DEF Strong
<1>3. ASSUME NEW p \in Procs PROVE VerdictOK(req[p])'
  BY <1>2, <1>3 DEF VerdictOK
<1> QED
  BY <1>1, <1>3 DEF TypesInv

(* Steps that do not touch the table.                                         *)
LEMMA MoveTypes ==
  ASSUME Inv, TypesInv, NEW p \in Procs, NEW r \in Requests, Goto(p, r), UNCHANGED rows,
         VerdictOK(r)
  PROVE  TypesInv'
<1>1. req' \in [Procs -> Requests] /\ \A q \in Procs : req'[q] = req[q] \/ req'[q] = r
  BY DEF Inv, TypeOK, Goto
<1>2. \A u \in UserIDs : rows'[u] = rows[u] /\ (Strong(u) => Strong(u)')
  BY DEF Strong
<1>3. \A q \in Procs : req'[q] = req[q] \/ VerdictOK(req[q])'
  BY <1>1 DEF VerdictOK, Strong
<1> QED
  BY <1>1, <1>2, <1>3, StrongStep

(* Steps that write one row: a bcrypt hash, or the hash that was there with a *)
(* type it deserves.                                                          *)
LEMMA RowTypes ==
  ASSUME Inv, TypesInv, NEW u \in UserIDs, rows[u] # NoRow,
         NEW row \in Row, rows' = [rows EXCEPT ![u] = row],
         \/ row.hash.alg = "bcrypt"
         \/ /\ row.hash = rows[u].hash
            /\ row.type = "bcrypt" => rows[u].type = "bcrypt" \/ Strong(u),
         UNCHANGED req \/ \E p \in Procs, r \in Requests : Goto(p, r) /\ r.pc # "validate_write"
  PROVE  TypesInv'
<1>1. rows'[u] = row /\ \A i \in UserIDs \ {u} : rows'[i] = rows[i]
  BY DEF Inv, TypeOK
<1>2. \A i \in UserIDs : Strong(i) => Strong(i)'
  BY <1>1 DEF Strong
<1>3. ASSUME NEW i \in UserIDs, rows'[i] # NoRow, rows'[i].type = "bcrypt"
      PROVE  (rows[i] # NoRow /\ rows[i].type = "bcrypt") \/ Strong(i)'
  BY <1>1, <1>3 DEF Strong
<1>4. /\ req' \in [Procs -> Requests]
      /\ \A q \in Procs : req'[q] = req[q] \/ req'[q].pc # "validate_write"
  BY DEF Inv, TypeOK, Goto
<1>5. \A q \in Procs : req'[q] = req[q] \/ VerdictOK(req[q])'
  BY <1>4 DEF VerdictOK
<1> QED
  BY <1>2, <1>3, <1>4, <1>5, StrongStep

(* UpdatePasswordHash writes a bcrypt hash.                                   *)
LEMMA WriteHashTypes ==
  ASSUME Inv, TypesInv, NEW u \in UserIDs, NEW pw \in Passwords, rows[u] # NoRow,
         WriteHash(u, pw),
         NEW p \in Procs, NEW r \in Requests, Goto(p, r), r.pc # "validate_write"
  PROVE  TypesInv'
<1>1. PICK row \in Row :
         row.hash = [alg |-> "bcrypt", pw |-> pw] /\ rows' = [rows EXCEPT ![u] = row]
  BY WriteHashRow
<1>2. row.hash.alg = "bcrypt"
  BY <1>1
<1> QED
  BY <1>1, <1>2, RowTypes

LEMMA InsertTypes ==
  ASSUME Inv, TypesInv, NEW u \in UserIDs, NEW alg, NEW pw, Insert(u, alg, pw)
  PROVE  TypesInv'
<1> DEFINE h == [alg |-> alg, pw |-> pw]
           row == [hash |-> h, type |-> "unknown", lapsed |-> TRUE, status |-> "active"]
<1>1. rows[u] = NoRow /\ rows' = [rows EXCEPT ![u] = row] /\ req' = req
  BY DEF Insert
<1>2. row.type = "unknown"
  OBVIOUS
<1> HIDE DEF row
<1>3. rows'[u] = row /\ \A i \in UserIDs \ {u} : rows'[i] = rows[i]
  BY <1>1 DEF Inv, TypeOK
<1>4. CountedBcryptIsStrong'
  <2> SUFFICES ASSUME NEW i \in UserIDs, rows'[i] # NoRow, rows'[i].type = "bcrypt"
               PROVE  Strong(i)'
    BY DEF CountedBcryptIsStrong
  <2>1. i # u /\ rows'[i] = rows[i]
    BY <1>2, <1>3
  <2> QED
    BY <2>1 DEF TypesInv, CountedBcryptIsStrong, Strong
<1>5. ASSUME NEW p \in Procs, req[p].pc = "validate_write", req[p].type = "bcrypt"
      PROVE  Strong(req[p].user)'
  <2>1. req[p] # Idle /\ req[p] \in Requests
    BY <1>5, IdleType DEF Inv, TypeOK
  <2>2. req[p].user \in UserIDs /\ rows[req[p].user] # NoRow /\ Strong(req[p].user)
    BY <1>5, <2>1, RequestFields DEF Inv, RequestOK, TypesInv, VerdictOK
  <2>3. rows'[req[p].user] = rows[req[p].user]
    BY <1>1, <1>3, <2>2
  <2> QED
    BY <1>1, <2>2, <2>3 DEF Strong
<1>6. \A p \in Procs : VerdictOK(req[p])'
  BY <1>1, <1>5 DEF VerdictOK
<1> QED
  BY <1>4, <1>6 DEF TypesInv

LEMMA ResetTypes ==
  ASSUME Inv, TypesInv, ForcePasswordReset
  PROVE  TypesInv'
<1>1. req' = req /\ req' \in [Procs -> Requests]
  BY DEF Inv, TypeOK, ForcePasswordReset
<1>2. ASSUME NEW u \in UserIDs
      PROVE  \/ rows'[u] = rows[u]
             \/ rows'[u].hash = Blank /\ rows'[u].type = "reset_required"
  BY DEF ForcePasswordReset
<1>3. \A u \in UserIDs : Strong(u) => Strong(u)'
  BY <1>2 DEF Strong
<1>4. \A u \in UserIDs : rows'[u] # NoRow /\ rows'[u].type = "bcrypt" =>
         (rows[u] # NoRow /\ rows[u].type = "bcrypt") \/ Strong(u)'
  BY <1>2
<1> QED
  BY <1>1, <1>3, <1>4, StrongStep

LEMMA TypesStep == Inv /\ TypesInv /\ [Next]_vars => TypesInv'
<1> SUFFICES ASSUME Inv, TypesInv, [Next]_vars PROVE TypesInv'
  OBVIOUS
<1>0. \A u \in UserIDs : rows[u] # NoRow => rows[u] \in Row
  BY DEF Inv, TypeOK
<1>i. Idle \in Requests /\ Idle.pc # "validate_write"
  BY IdleType
<1>1. ASSUME NEW u \in UserIDs, NEW pw \in Passwords, CreateUser(u, pw) \/ CreateUserV1(u, pw)
      PROVE  TypesInv'
  BY <1>1, InsertTypes DEF CreateUser, CreateUserV1
<1>2. ASSUME NEW p \in Procs, NEW u \in UserIDs, NEW pw \in Passwords, NEW v1 \in BOOLEAN,
             LoginFind(p, u, pw, v1)
      PROVE  TypesInv'
  <2> DEFINE r == [pc |-> "login_hash", user |-> u, pw |-> pw, v1 |-> v1]
  <2>1. r \in Requests /\ r.pc = "login_hash" /\ Goto(p, r) /\ UNCHANGED rows
    BY <1>2 DEF Requests, LoginFind
  <2> HIDE DEF r
  <2> QED
    BY <2>1, MoveTypes DEF VerdictOK
<1>3. ASSUME NEW p \in Procs, LoginCheck(p) PROVE TypesInv'
  <2> DEFINE r == req[p]
             m == [pc |-> "login_migrate", user |-> r.user, pw |-> r.pw]
             n == Finishing(r, r.v1, FALSE)
  <2>1. r.user \in UserIDs /\ r.pw \in Passwords /\ r.v1 \in BOOLEAN
    BY <1>3, IdleType, RequestFields DEF Inv, TypeOK, LoginCheck
  <2>2. m \in Requests /\ m.pc = "login_migrate" /\ n \in Requests /\ n.pc = "login_finish"
    BY <2>1, FinishingType DEF Requests
  <2>3. UNCHANGED rows /\ (Goto(p, Idle) \/ Goto(p, m) \/ Goto(p, n))
    BY <1>3 DEF LoginCheck
  <2> HIDE DEF m, n
  <2> QED
    BY <1>i, <2>2, <2>3, MoveTypes DEF VerdictOK
<1>4. ASSUME NEW p \in Procs, LoginMigrate(p) PROVE TypesInv'
  <2> DEFINE u == req[p].user
             pw == req[p].pw
             r == Finishing(req[p], FALSE, FALSE)
             n == Finishing(req[p], FALSE, TRUE)
  <2>1. req[p] \in Requests /\ req[p] # Idle /\ req[p].pc = "login_migrate"
    BY <1>4, IdleType DEF Inv, TypeOK, LoginMigrate
  <2>2. u \in UserIDs /\ pw \in Passwords /\ rows[u] # NoRow
    BY <2>1, RequestFields DEF Inv, RequestOK
  <2>3. /\ r \in Requests /\ r.pc = "login_finish"
        /\ n \in Requests /\ n.pc = "login_finish"
    BY <2>2, FinishingType
  <2>4. \/ WriteHash(u, pw) /\ Goto(p, r)
        \/ Goto(p, n) /\ UNCHANGED rows
    BY <1>4 DEF LoginMigrate
  <2> HIDE DEF u, pw, r, n
  <2>5. CASE WriteHash(u, pw) /\ Goto(p, r)
    BY <2>2, <2>3, <2>5, WriteHashTypes
  <2>6. CASE Goto(p, n) /\ UNCHANGED rows
    BY <2>3, <2>6, MoveTypes DEF VerdictOK
  <2> QED
    BY <2>4, <2>5, <2>6
<1>14. ASSUME NEW p \in Procs, NEW u \in UserIDs, NEW pw \in Passwords, MigrateCheck(p, u, pw)
       PROVE  TypesInv'
  <2> DEFINE r == [pc |-> "tool_migrate", user |-> u, pw |-> pw]
  <2>1. r \in Requests /\ r.pc = "tool_migrate" /\ Goto(p, r) /\ UNCHANGED rows
    BY <1>14 DEF Requests, MigrateCheck
  <2> HIDE DEF r
  <2> QED
    BY <2>1, MoveTypes DEF VerdictOK
<1>15. ASSUME NEW p \in Procs, MigrateUserPassword(p) PROVE TypesInv'
  <2> DEFINE u == req[p].user
             pw == req[p].pw
             h == [alg |-> "bcrypt", pw |-> pw]
             typed == [rows[u] EXCEPT !.hash = h, !.type = "bcrypt"]
  <2>1. req[p] \in Requests /\ req[p] # Idle /\ req[p].pc = "tool_migrate"
    BY <1>15, IdleType DEF Inv, TypeOK, MigrateUserPassword
  <2>2. u \in UserIDs /\ pw \in Passwords /\ rows[u] # NoRow
    BY <2>1, RequestFields DEF Inv, RequestOK
  <2>3. rows' = [rows EXCEPT ![u] = typed] /\ Goto(p, Idle) /\ h.alg = "bcrypt"
    BY <1>15 DEF MigrateUserPassword
  <2>4. typed \in Row /\ typed.hash = h
    BY <1>0, <2>2, NewHashRow DEF Types
  <2> HIDE DEF u, pw, h, typed
  <2> QED
    BY <1>i, <2>2, <2>3, <2>4, RowTypes
<1>5. ASSUME NEW p \in Procs, LoginFinish(p) PROVE TypesInv'
  <2> DEFINE u == req[p].user
             row == [rows[u] EXCEPT !.lapsed = FALSE]
  <2>1. u \in UserIDs /\ rows[u] # NoRow
    BY <1>5, RequestFields, IdleType DEF Inv, TypeOK, RequestOK, LoginFinish
  <2>2. rows' = [rows EXCEPT ![u] = row] /\ Goto(p, Idle)
    BY <1>5 DEF LoginFinish
  <2> HIDE DEF u
  <2>3. row \in Row /\ row.hash = rows[u].hash /\ row.type = rows[u].type
    BY <1>0, <2>1 DEF Row
  <2> HIDE DEF row
  <2> QED
    BY <1>i, <2>1, <2>2, <2>3, RowTypes
<1>6. ASSUME NEW p \in Procs, NEW u \in UserIDs, NEW old \in Passwords, NEW new \in Passwords,
             ChangeCheck(p, u, old, new)
      PROVE  TypesInv'
  <2> DEFINE r == [pc |-> "change_write", user |-> u, pw |-> new, old |-> old]
  <2>1. r \in Requests /\ r.pc = "change_write" /\ Goto(p, r) /\ UNCHANGED rows
    BY <1>6 DEF Requests, ChangeCheck
  <2> HIDE DEF r
  <2> QED
    BY <2>1, MoveTypes DEF VerdictOK
<1>7. ASSUME NEW p \in Procs, ChangeWrite(p) PROVE TypesInv'
  <2>1. req[p] \in Requests /\ req[p] # Idle /\ req[p].pc = "change_write"
    BY <1>7, IdleType DEF Inv, TypeOK, ChangeWrite
  <2>2. req[p].user \in UserIDs /\ req[p].pw \in Passwords /\ rows[req[p].user] # NoRow
    BY <2>1, RequestFields DEF Inv, RequestOK
  <2>3. WriteHash(req[p].user, req[p].pw) /\ Goto(p, Idle)
    BY <1>7 DEF ChangeWrite
  <2> QED
    BY <1>i, <2>2, <2>3, WriteHashTypes
<1>8. ASSUME NEW p \in Procs, NEW u \in UserIDs, ValidateRead(p, u) PROVE TypesInv'
  <2> DEFINE t == Detected(rows[u].hash)
             r == [pc |-> "validate_write", user |-> u, type |-> t]
  <2>1. t \in Types /\ rows[u] # NoRow
    BY <1>0, <1>8 DEF ValidateRead, Detected, Row, Hash, Legacy, Types
  <2>2. t = "bcrypt" => Strong(u)
    BY DEF Detected, Strong
  <2> HIDE DEF t
  <2>3. r \in Requests /\ r.user = u /\ r.type = t
    BY <2>1 DEF Requests
  <2>4. VerdictOK(r)
    BY <2>2 DEF VerdictOK
  <2> QED
    BY <1>8, <2>3, <2>4, MoveTypes DEF ValidateRead, t
<1>9. ASSUME NEW p \in Procs, ValidateWrite(p) PROVE TypesInv'
  <2> DEFINE u == req[p].user
             row == [rows[u] EXCEPT !.type = req[p].type]
  <2>1. u \in UserIDs /\ rows[u] # NoRow /\ req[p].type \in Types
    BY <1>9, RequestFields, IdleType DEF Inv, TypeOK, RequestOK, ValidateWrite
  <2>2. row \in Row /\ row.hash = rows[u].hash /\ row.type = req[p].type
    BY <1>0, <2>1 DEF Row
  <2>3. rows' = [rows EXCEPT ![u] = row] /\ Goto(p, Idle)
    BY <1>9 DEF ValidateWrite
  <2>4. req[p].type = "bcrypt" => Strong(u)
    BY <1>9 DEF TypesInv, VerdictOK, ValidateWrite
  <2> HIDE DEF row, u
  <2> QED
    BY <1>i, <2>1, <2>2, <2>3, <2>4, RowTypes
<1>10. ASSUME NEW p \in Procs, Fail(p) PROVE TypesInv'
  BY <1>i, <1>10, MoveTypes DEF Fail, VerdictOK
<1>11. CASE ForcePasswordReset
  BY <1>11, ResetTypes
<1>12. ASSUME NEW u \in UserIDs, SetStatus(u) \/ Lapse(u) PROVE TypesInv'
  <2>1. rows[u] # NoRow /\ req' = req
    BY <1>12 DEF SetStatus, Lapse, Live
  <2>2. PICK row \in Row : /\ rows' = [rows EXCEPT ![u] = row]
                           /\ row.hash = rows[u].hash /\ row.type = rows[u].type
    <3>1. /\ \A s \in {"active", "inactive", "deleted"} :
                LET n == [rows[u] EXCEPT !.status = s]
                IN  n \in Row /\ n.hash = rows[u].hash /\ n.type = rows[u].type
          /\ LET n == [rows[u] EXCEPT !.lapsed = TRUE]
             IN  n \in Row /\ n.hash = rows[u].hash /\ n.type = rows[u].type
      BY <1>0, <2>1 DEF Row
    <3>2. \/ \E s \in {"active", "inactive", "deleted"} :
                rows' = [rows EXCEPT ![u] = [rows[u] EXCEPT !.status = s]]
          \/ rows' = [rows EXCEPT ![u] = [rows[u] EXCEPT !.lapsed = TRUE]]
      BY <1>12 DEF SetStatus, Lapse
    <3> QED
      BY <3>1, <3>2
  <2> QED
    BY <2>1, <2>2, RowTypes
<1>13. CASE UNCHANGED vars
  BY <1>13 DEF vars, TypesInv, CountedBcryptIsStrong, VerdictOK, Strong
<1> QED
  BY <1>1, <1>2, <1>3, <1>4, <1>5, <1>6, <1>7, <1>8, <1>9, <1>10, <1>11, <1>12, <1>13, <1>14,
     <1>15 DEF Next, Login, Migrate, ChangePassword, ValidateHashType

(* No account counted as bcrypt keeps an MD5 or SHA1 hash, however logins,    *)
(* password changes, resets and ValidateHashType interleave: the type column  *)
(* may be out of date, but never in that direction.                           *)
THEOREM BcryptCountIsTrue == Spec => []CountedBcryptIsStrong
<1>1. Init => TypesInv
  <2> SUFFICES ASSUME Init, NEW u \in UserIDs, rows[u] # NoRow, rows[u].type = "bcrypt"
               PROVE  Strong(u)
    BY IdleType DEF Init, TypesInv, CountedBcryptIsStrong, VerdictOK
  <2>1. rows[u] \in InitialRow
    BY DEF Init
  <2> QED
    BY <2>1 DEF InitialRow, Strong
<1>2. Inv /\ TypesInv /\ [Next]_vars => TypesInv'
  BY TypesStep
<1>3. TypesInv => CountedBcryptIsStrong
  BY DEF TypesInv
<1> QED
  BY <1>1, <1>2, <1>3, SpecInv, PTL DEF Spec

-----------------------------------------------------------------------------
(* A request that is about to write the password of u.                        *)
WritingTo(r, u) == Writing(r) /\ r.user = u

LEMMA SealedStep ==
  ASSUME NEW u \in UserIDs, Sealed(u),
         rows'[u] = rows[u] \/ (rows'[u] # NoRow /\ rows'[u].hash = Blank),
         \A q \in Procs : req'[q] = req[q] \/ ~WritingTo(req'[q], u)
  PROVE  Sealed(u)'
  BY DEF Sealed, Writers, Writing, WritingTo

(* The steps of one request.                                                  *)
LEMMA SealedMove ==
  ASSUME TypeOK, NEW u \in UserIDs, Sealed(u), NEW p \in Procs, NEW r, Goto(p, r), ~WritingTo(r, u),
         rows'[u] = rows[u] \/ (rows'[u] # NoRow /\ rows'[u].hash = Blank)
  PROVE  Sealed(u)'
<1>1. \A q \in Procs : req'[q] = req[q] \/ req'[q] = r
  BY DEF TypeOK, Goto
<1> QED
  BY <1>1, SealedStep

(* Assigning a field of a row keeps an erased hash erased.                    *)
LEMMA SealedField ==
  ASSUME Inv, NEW u \in UserIDs, Sealed(u), NEW i \in UserIDs, NEW row \in Row,
         rows' = [rows EXCEPT ![i] = row], i # u \/ row.hash = rows[u].hash
  PROVE  rows'[u] = rows[u] \/ (rows'[u] # NoRow /\ rows'[u].hash = Blank)
  BY CredentialsAssumption DEF Inv, TypeOK, Sealed

LEMMA SealedStays ==
  ASSUME Inv, [Next]_vars, NEW u \in UserIDs, Sealed(u)
  PROVE  Sealed(u)'
<1>0. TypeOK /\ rows[u] # NoRow /\ rows[u].hash = Blank /\ \A i \in UserIDs : rows[i] # NoRow => rows[i] \in Row
  BY DEF Inv, TypeOK, Sealed
<1>i. ~WritingTo(Idle, u)
  BY IdleType DEF Writing, WritingTo
<1>w. \A p \in Procs : ~WritingTo(req[p], u)
  BY DEF Sealed, Writers, Writing, WritingTo
<1>1. ASSUME NEW i \in UserIDs, NEW pw \in Passwords, CreateUser(i, pw) \/ CreateUserV1(i, pw)
      PROVE  Sealed(u)'
  <2>1. i # u /\ req' = req
    BY <1>0, <1>1 DEF CreateUser, CreateUserV1, Insert
  <2>2. rows'[u] = rows[u]
    BY <1>0, <1>1, <2>1 DEF CreateUser, CreateUserV1, Insert, TypeOK
  <2> QED
    BY <2>1, <2>2, SealedStep
<1>2. ASSUME NEW p \in Procs, NEW i \in UserIDs, NEW pw \in Passwords, NEW v1 \in BOOLEAN,
             LoginFind(p, i, pw, v1)
      PROVE  Sealed(u)'
  <2> DEFINE r == [pc |-> "login_hash", user |-> i, pw |-> pw, v1 |-> v1]
  <2>1. Goto(p, r) /\ rows' = rows /\ ~WritingTo(r, u)
    BY <1>2 DEF LoginFind, Writing, WritingTo
  <2> QED
    BY <1>0, <2>1, SealedMove
<1>3. ASSUME NEW p \in Procs, LoginCheck(p) PROVE Sealed(u)'
  <2> DEFINE i == req[p].user
             m == [pc |-> "login_migrate", user |-> i, pw |-> req[p].pw]
             n == Finishing(req[p], req[p].v1, FALSE)
  <2>1. /\ rows' = rows
        /\ Goto(p, Idle) \/ (Valid(req[p].pw, rows[i].hash) /\ (Goto(p, m) \/ Goto(p, n)))
    BY <1>3 DEF LoginCheck
  <2>2. ~Valid(req[p].pw, rows[u].hash)
    BY <1>0 DEF Valid
  <2>3. Valid(req[p].pw, rows[i].hash) => i # u
    BY <2>2
  <2>4. ~WritingTo(n, u) /\ (i # u => ~WritingTo(m, u))
    BY DEF Finishing, Writing, WritingTo
  <2> HIDE DEF i, m, n
  <2> QED
    BY <1>0, <1>i, <2>1, <2>3, <2>4, SealedMove
<1>4. ASSUME NEW p \in Procs, LoginMigrate(p) \/ MigrateUserPassword(p) \/ ChangeWrite(p)
      PROVE  Sealed(u)'
  <2> DEFINE i == req[p].user
  <2>1. i # u
    BY <1>w, <1>4 DEF LoginMigrate, MigrateUserPassword, ChangeWrite, Writing, WritingTo
  <2>2. rows'[u] = rows[u]
    BY <1>0, <1>4, <2>1 DEF LoginMigrate, MigrateUserPassword, ChangeWrite, WriteHash, TypeOK
  <2>3. PICK r : Goto(p, r) /\ ~WritingTo(r, u)
    BY <1>4, <1>i DEF LoginMigrate, MigrateUserPassword, ChangeWrite, Finishing, Writing, WritingTo
  <2> QED
    BY <1>0, <2>2, <2>3, SealedMove
<1>5. ASSUME NEW p \in Procs, LoginFinish(p) PROVE Sealed(u)'
  <2> DEFINE i == req[p].user
             row == [rows[i] EXCEPT !.lapsed = FALSE]
  <2>1. i \in UserIDs /\ rows[i] # NoRow
    BY <1>5, RequestFields, IdleType DEF Inv, TypeOK, RequestOK, LoginFinish
  <2>2. rows' = [rows EXCEPT ![i] = row] /\ Goto(p, Idle)
    BY <1>5 DEF LoginFinish
  <2> HIDE DEF i
  <2>3. row \in Row /\ row.hash = rows[i].hash
    BY <1>0, <2>1, FieldUpdate
  <2> HIDE DEF row
  <2>4. rows'[u] = rows[u] \/ (rows'[u] # NoRow /\ rows'[u].hash = Blank)
    BY <2>1, <2>2, <2>3, SealedField
  <2> QED
    BY <1>0, <1>i, <2>2, <2>4, SealedMove
<1>6. ASSUME NEW p \in Procs, NEW i \in UserIDs, NEW old \in Passwords, NEW new \in Passwords,
             ChangeCheck(p, i, old, new)
      PROVE  Sealed(u)'
  <2> DEFINE r == [pc |-> "change_write", user |-> i, pw |-> new, old |-> old]
  <2>1. i # u
    BY <1>0, <1>6 DEF ChangeCheck, Valid
  <2>2. Goto(p, r) /\ rows' = rows /\ ~WritingTo(r, u)
    BY <1>6, <2>1 DEF ChangeCheck, Writing, WritingTo
  <2> QED
    BY <1>0, <2>2, SealedMove
<1>7. ASSUME NEW p \in Procs, NEW i \in UserIDs, ValidateRead(p, i) PROVE Sealed(u)'
  <2> DEFINE r == [pc |-> "validate_write", user |-> i, type |-> Detected(rows[i].hash)]
  <2>1. Goto(p, r) /\ rows' = rows /\ ~WritingTo(r, u)
    BY <1>7 DEF ValidateRead, Writing, WritingTo
  <2> QED
    BY <1>0, <2>1, SealedMove
<1>8. ASSUME NEW p \in Procs, ValidateWrite(p) PROVE Sealed(u)'
  <2> DEFINE i == req[p].user
             row == [rows[i] EXCEPT !.type = req[p].type]
  <2>1. i \in UserIDs /\ rows[i] # NoRow /\ req[p].type \in Types
    BY <1>8, RequestFields, IdleType DEF Inv, TypeOK, RequestOK, ValidateWrite
  <2>2. rows' = [rows EXCEPT ![i] = row] /\ Goto(p, Idle)
    BY <1>8 DEF ValidateWrite
  <2> HIDE DEF i
  <2>3. row \in Row /\ row.hash = rows[i].hash
    BY <1>0, <2>1, FieldUpdate
  <2> HIDE DEF row
  <2>4. rows'[u] = rows[u] \/ (rows'[u] # NoRow /\ rows'[u].hash = Blank)
    BY <2>1, <2>2, <2>3, SealedField
  <2> QED
    BY <1>0, <1>i, <2>2, <2>4, SealedMove
<1>9. ASSUME NEW p \in Procs, Fail(p) PROVE Sealed(u)'
  BY <1>0, <1>i, <1>9, SealedMove DEF Fail
<1>10. CASE ForcePasswordReset
  <2> DEFINE row == [hash |-> Blank, type |-> "reset_required", lapsed |-> TRUE,
                     status |-> rows[u].status]
  <2>1. row \in Row /\ row.hash = Blank
    BY <1>0 DEF Row, Types
  <2>2. req' = req /\ (rows'[u] = rows[u] \/ rows'[u] = row)
    BY <1>10 DEF ForcePasswordReset
  <2> HIDE DEF row
  <2> QED
    BY <2>1, <2>2, CredentialsAssumption, SealedStep
<1>11. ASSUME NEW i \in UserIDs, SetStatus(i) \/ Lapse(i) PROVE Sealed(u)'
  <2>1. rows[i] # NoRow /\ req' = req
    BY <1>11 DEF SetStatus, Lapse, Live
  <2>2. PICK row \in Row : rows' = [rows EXCEPT ![i] = row] /\ row.hash = rows[i].hash
    <3>1. /\ \A s \in {"active", "inactive", "deleted"} :
                [rows[i] EXCEPT !.status = s] \in Row /\ [rows[i] EXCEPT !.status = s].hash = rows[i].hash
          /\ [rows[i] EXCEPT !.lapsed = TRUE] \in Row /\ [rows[i] EXCEPT !.lapsed = TRUE].hash = rows[i].hash
      BY <1>0, <2>1, FieldUpdate
    <3>2. \/ \E s \in {"active", "inactive", "deleted"} :
                rows' = [rows EXCEPT ![i] = [rows[i] EXCEPT !.status = s]]
          \/ rows' = [rows EXCEPT ![i] = [rows[i] EXCEPT !.lapsed = TRUE]]
      BY <1>11 DEF SetStatus, Lapse
    <3> QED
      BY <3>1, <3>2
  <2>3. rows'[u] = rows[u] \/ (rows'[u] # NoRow /\ rows'[u].hash = Blank)
    BY <2>2, SealedField
  <2> QED
    BY <2>1, <2>3, SealedStep
<1>12. ASSUME NEW p \in Procs, NEW i \in UserIDs, NEW pw \in Passwords, MigrateCheck(p, i, pw)
       PROVE  Sealed(u)'
  <2> DEFINE r == [pc |-> "tool_migrate", user |-> i, pw |-> pw]
  <2>1. i # u
    BY <1>0, <1>12 DEF MigrateCheck, Valid
  <2>2. Goto(p, r) /\ rows' = rows /\ ~WritingTo(r, u)
    BY <1>12, <2>1 DEF MigrateCheck, Writing, WritingTo
  <2> QED
    BY <1>0, <2>2, SealedMove
<1>13. CASE UNCHANGED vars
  BY <1>13, SealedStep DEF vars
<1> QED
  BY <1>1, <1>2, <1>3, <1>4, <1>5, <1>6, <1>7, <1>8, <1>9, <1>10, <1>11, <1>12, <1>13
     DEF Next, Login, Migrate, ChangePassword, ValidateHashType

(* A forced reset stays in force for ever once the requests that had checked  *)
(* the old password before it are gone: nothing in the code gives the account *)
(* a password again.                                                          *)
THEOREM ResetsHold == Spec => ResetHolds
<1>1. Inv /\ [Next]_vars => [\A u \in UserIDs : Sealed(u) => Sealed(u)']_vars
  BY SealedStays
<1> QED
  BY <1>1, SpecInv, PTL DEF Spec, ResetHolds

-----------------------------------------------------------------------------
(* A confirmed change of password is lost to upgrades alone: with             *)
(* EnablePasswordMigration off, and as long as nothing calls                  *)
(* MigrateUserPassword, the stored password is always the one the user was    *)
(* last told, whatever runs beside the change.                                *)
THEOREM ChangesKeptWithoutMigration ==
  ASSUME ~EnablePasswordMigration, ~MigratorCalled
  PROVE  Spec => []ChangedPasswordIsStored
<1> DEFINE Upgrade(r) == r.pc \in {"login_migrate", "tool_migrate"}
           NoUpgrade == \A p \in Procs : ~Upgrade(req[p])
           NothingUndone == undone = {}
<1>1. Init => NoUpgrade /\ NothingUndone
  BY IdleType DEF Init
<1>2. Inv /\ NoUpgrade /\ [Next]_vars => NoUpgrade'
  <2> SUFFICES ASSUME Inv, NoUpgrade, [Next]_vars PROVE NoUpgrade'
    OBVIOUS
  <2>1. ASSUME NEW p \in Procs, NEW r, Goto(p, r), ~Upgrade(r) PROVE NoUpgrade'
    BY <2>1 DEF Goto, Inv, TypeOK
  <2>2. ASSUME NEW p \in Procs, Login(p) \/ Migrate(p) PROVE NoUpgrade'
    <3>1. ~LoginMigrate(p) /\ ~MigrateUserPassword(p) /\ \A u, pw : ~MigrateCheck(p, u, pw)
      BY DEF LoginMigrate, MigrateUserPassword, MigrateCheck
    <3>2. ASSUME NEW u, NEW pw, NEW v1, LoginFind(p, u, pw, v1) PROVE NoUpgrade'
      BY <2>1, <3>2 DEF LoginFind
    <3>3. ASSUME LoginCheck(p) PROVE NoUpgrade'
      <4> DEFINE n == Finishing(req[p], req[p].v1, FALSE)
      <4>1. n.pc = "login_finish" /\ (Goto(p, Idle) \/ Goto(p, n))
        BY <3>3 DEF LoginCheck, Finishing
      <4> HIDE DEF n
      <4> QED
        BY <2>1, <4>1, IdleType
    <3>4. ASSUME LoginFinish(p) PROVE NoUpgrade'
      BY <2>1, <3>4, IdleType DEF LoginFinish
    <3> QED
      BY <2>2, <3>1, <3>2, <3>3, <3>4 DEF Login, Migrate
  <2>3. ASSUME NEW p \in Procs, ChangePassword(p) \/ ValidateHashType(p) \/ Fail(p)
        PROVE  NoUpgrade'
    <3>1. ASSUME NEW u, NEW old, NEW new, ChangeCheck(p, u, old, new) PROVE NoUpgrade'
      BY <2>1, <3>1 DEF ChangeCheck
    <3>2. ASSUME NEW u, ValidateRead(p, u) PROVE NoUpgrade'
      BY <2>1, <3>2 DEF ValidateRead
    <3>3. ASSUME ChangeWrite(p) \/ ValidateWrite(p) \/ Fail(p) PROVE NoUpgrade'
      BY <2>1, <3>3, IdleType DEF ChangeWrite, ValidateWrite, Fail
    <3> QED
      BY <2>3, <3>1, <3>2, <3>3 DEF ChangePassword, ValidateHashType
  <2>4. ASSUME UNCHANGED req PROVE NoUpgrade'
    BY <2>4
  <2> QED
    BY <2>2, <2>3, <2>4
       DEF Next, CreateUser, CreateUserV1, Insert, ForcePasswordReset, SetStatus, Lapse, vars
<1>3. NoUpgrade /\ NothingUndone /\ [Next]_vars => NothingUndone'
  <2> SUFFICES ASSUME NoUpgrade, NothingUndone, [Next]_vars PROVE NothingUndone'
    OBVIOUS
  <2>1. \A p \in Procs : ~LoginMigrate(p) /\ ~MigrateUserPassword(p)
    BY DEF LoginMigrate, MigrateUserPassword
  <2> QED
    BY <2>1
       DEF Next, Login, Migrate, ChangePassword, ValidateHashType, CreateUser, CreateUserV1, Insert,
           LoginFind, LoginCheck, LoginFinish, MigrateCheck, ChangeCheck, ChangeWrite,
           ValidateRead, ValidateWrite, ForcePasswordReset, SetStatus, Lapse, Fail, vars
<1>4. CredentialsAsAcknowledged /\ NothingUndone => ChangedPasswordIsStored
  BY DEF CredentialsAsAcknowledged, ChangedPasswordIsStored
<1> QED
  BY <1>1, <1>2, <1>3, <1>4, SpecInv, AcknowledgedPasswordsKept, PTL DEF Spec
=============================================================================
