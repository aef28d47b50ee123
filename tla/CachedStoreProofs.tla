-------------------------- MODULE CachedStoreProofs --------------------------
(* Safety of CachedUserStore for every set of users, profiles and goroutines. *)
EXTENDS CachedStore, UserTableProofs

(* As for UserService: the property lasts because the copies on their way to  *)
(* the cache are current too, and nothing about a user precedes its row.      *)
CopiesFresh ==
    \A u \in UserIDs, p \in Procs :
        At(p, "set", u) /\ u \notin raced => Live(u) /\ req[p].copy = ViewOf(u)

NothingBeforeInsert ==
    \A u \in UserIDs : rows[u] = NoRow => cache[u] = Miss /\ \A p \in Procs : ~At(p, "set", u)

Inv == TypeOK /\ StaleOnlyIfRaced /\ CopiesFresh /\ NothingBeforeInsert

(* p is one of those that may be about to correct an entry.                   *)
Corrects(p) == req[p].pc \in {"update_select", "set"}

LEMMA RequestFields ==
  ASSUME TypeOK, NEW p \in Procs
  PROVE  /\ req[p].pc \in Statements \cup {"set"} => req[p].user \in UserIDs
         /\ req[p].pc = "set" => req[p].copy \in View
         /\ req[p].pc = "purge" => req[p].todo \subseteq UserIDs /\ req[p].found \subseteq UserIDs
         /\ req[p].pc \in Statements \cup {"idle", "set", "purge"}
  BY DEF TypeOK, Requests, Running, Sets, Purges, Idle, Statements

LEMMA RequestTypes ==
  /\ Idle \in Requests /\ Idle.pc = "idle"
  /\ \A u \in UserIDs, pc \in Statements : [pc |-> pc, user |-> u] \in Requests
  /\ \A u \in UserIDs, v \in View : [pc |-> "set", user |-> u, copy |-> v] \in Requests
  /\ \A U, V \in SUBSET UserIDs : [pc |-> "purge", todo |-> U, found |-> V] \in Requests
  BY DEF Requests, Running, Sets, Purges, Idle

(* A goroutine moves without touching rows, entries or raced.  It may take a  *)
(* copy of the current row, and does not give up correcting a live user.      *)
LEMMA MoveStep ==
  ASSUME Inv, NEW p \in Procs, NEW r \in Requests, Goto(p, r),
         UNCHANGED <<rows, cache, raced>>,
         \A u \in UserIDs : r.pc = "set" /\ r.user = u => Live(u) /\ r.copy = ViewOf(u),
         \A u \in UserIDs : Corrects(p) /\ req[p].user = u /\ Live(u) => r.pc = "set" /\ r.user = u
  PROVE  Inv'
<1>1. \A q \in Procs : req'[q] = IF q = p THEN r ELSE req[q]
  BY DEF Inv, TypeOK, Goto
<1>2. TypeOK'
  BY DEF Inv, TypeOK, RowsTypeOK, Goto
<1>3. StaleOnlyIfRaced'
  <2> SUFFICES ASSUME NEW u \in UserIDs, cache[u] # Miss, u \notin raced, ~Fresh(u)
               PROVE  Correcting(u)'
    BY DEF StaleOnlyIfRaced, Fresh, Live, ViewOf
  <2>1. Live(u)
    BY DEF Inv, StaleOnlyIfRaced, Correcting
  <2>2. PICK q \in Procs : At(q, "update_select", u) \/ (At(q, "set", u) /\ req[q].copy = ViewOf(u))
    BY DEF Inv, StaleOnlyIfRaced, Correcting
  <2>3. CASE q = p
    BY <1>1, <2>1, <2>2, <2>3 DEF Correcting, Corrects, At, Live, ViewOf
  <2>4. CASE q # p
    BY <1>1, <2>1, <2>2, <2>4 DEF Correcting, At, Live, ViewOf
  <2> QED
    BY <2>3, <2>4
<1>4. CopiesFresh'
  BY <1>1 DEF Inv, CopiesFresh, At, Live, ViewOf
<1>5. NothingBeforeInsert'
  BY <1>1 DEF Inv, NothingBeforeInsert, At, Live
<1> QED
  BY <1>2, <1>3, <1>4, <1>5 DEF Inv

(* Entries go, and what is no longer raced is what nobody holds a copy of.    *)
LEMMA DropStep ==
  ASSUME Inv, NEW U \in SUBSET UserIDs, Drop(U), UNCHANGED rows,
         \/ UNCHANGED req
         \/ \E p \in Procs, r \in Requests : Goto(p, r) /\ r.pc # "set" /\ ~Corrects(p)
  PROVE  Inv'
<1>1. \A q \in Procs : req'[q] = req[q] \/ (req'[q].pc # "set" /\ ~Corrects(q))
  BY DEF Inv, TypeOK, Goto
<1>2. TypeOK'
  <2>1. req' \in [Procs -> Requests]
    BY DEF Inv, TypeOK, Goto
  <2> QED
    BY <2>1 DEF Inv, TypeOK, RowsTypeOK, Drop
<1>3. \A u \in UserIDs : /\ cache'[u] = IF u \in U THEN Miss ELSE cache[u]
                         /\ u \in raced' <=> u \in raced /\ (u \in U => Setting(Procs, u))
  BY DEF Drop
<1>4. StaleOnlyIfRaced'
  <2> SUFFICES ASSUME NEW u \in UserIDs, cache'[u] # Miss, u \notin raced', ~Fresh(u)'
               PROVE  Correcting(u)'
    BY DEF StaleOnlyIfRaced
  <2>1. u \notin raced /\ cache[u] # Miss /\ ~Fresh(u)
    BY <1>3 DEF Fresh, Live, ViewOf
  <2>2. Correcting(u)
    BY <2>1 DEF Inv, StaleOnlyIfRaced
  <2> QED
    BY <1>1, <2>2 DEF Correcting, Corrects, At, Live, ViewOf
<1>5. CopiesFresh'
  <2> SUFFICES ASSUME NEW u \in UserIDs, NEW q \in Procs, At(q, "set", u)', u \notin raced'
               PROVE  (Live(u) /\ req[q].copy = ViewOf(u))'
    BY DEF CopiesFresh
  <2>1. req'[q] = req[q] /\ At(q, "set", u)
    BY <1>1 DEF At
  <2>2. u \notin raced
    BY <1>3, <2>1 DEF Setting
  <2> QED
    BY <2>1, <2>2 DEF Inv, CopiesFresh, Live, ViewOf
<1>6. NothingBeforeInsert'
  BY <1>1, <1>3 DEF Inv, NothingBeforeInsert, At
<1> QED
  BY <1>2, <1>4, <1>5, <1>6 DEF Inv

(* A statement of p changes the row of u, and p then reads it back or leaves. *)
LEMMA WriteStep ==
  ASSUME Inv, NEW p \in Procs, NEW u \in UserIDs, ~Corrects(p), rows[u] # NoRow,
         NEW row \in Row, rows' = [rows EXCEPT ![u] = row],
         NEW recaches \in BOOLEAN, Overtake(u, recaches),
         NEW r \in Requests, Goto(p, r), r.pc # "set",
         recaches => ~row.deleted /\ r = [pc |-> "update_select", user |-> u],
         UNCHANGED cache
  PROVE  Inv'
<1>1. \A q \in Procs : req'[q] = IF q = p THEN r ELSE req[q]
  BY DEF Inv, TypeOK, Goto
<1>2. /\ rows'[u] = row /\ row # NoRow
      /\ \A i \in UserIDs : i # u => rows'[i] = rows[i]
  BY NoRowAssumption DEF Inv, TypeOK, RowsTypeOK
<1>3. /\ raced \subseteq raced' /\ raced' \subseteq raced \cup {u}
      /\ Setting(Procs, u) \/ (~recaches /\ cache[u] # Miss) => u \in raced'
  BY DEF Overtake
<1>4. TypeOK'
  BY <1>3 DEF Inv, TypeOK, RowsTypeOK, Goto
<1>5. StaleOnlyIfRaced'
  <2> SUFFICES ASSUME NEW i \in UserIDs, cache[i] # Miss, i \notin raced', ~Fresh(i)'
               PROVE  Correcting(i)'
    BY DEF StaleOnlyIfRaced
  <2>1. CASE i = u
    <3>1. Live(u)' /\ r = [pc |-> "update_select", user |-> u]
      BY <1>2, <1>3, <2>1 DEF Live
    <3>2. At(p, "update_select", u)'
      BY <1>1, <3>1 DEF At
    <3> QED
      BY <2>1, <3>1, <3>2 DEF Correcting
  <2>2. CASE i # u
    <3>1. rows'[i] = rows[i] /\ Correcting(i)
      BY <1>2, <1>3, <2>2 DEF Inv, StaleOnlyIfRaced, Fresh, Live, ViewOf
    <3>2. PICK q \in Procs : At(q, "update_select", i) \/ (At(q, "set", i) /\ req[q].copy = ViewOf(i))
      BY <3>1 DEF Correcting
    <3>3. req'[q] = req[q]
      BY <1>1, <3>2 DEF Corrects, At
    <3> QED
      BY <3>1, <3>2, <3>3 DEF Correcting, At, Live, ViewOf
  <2> QED
    BY <2>1, <2>2
<1>6. CopiesFresh'
  <2> SUFFICES ASSUME NEW i \in UserIDs, NEW q \in Procs, At(q, "set", i)', i \notin raced'
               PROVE  (Live(i) /\ req[q].copy = ViewOf(i))'
    BY DEF CopiesFresh
  <2>1. req'[q] = req[q] /\ At(q, "set", i)
    BY <1>1 DEF At
  <2>2. i # u /\ i \notin raced
    BY <1>3, <2>1 DEF Setting
  <2> QED
    BY <1>2, <2>1, <2>2 DEF Inv, CopiesFresh, Live, ViewOf
<1>7. NothingBeforeInsert'
  BY <1>1, <1>2 DEF Inv, NothingBeforeInsert, At
<1> QED
  BY <1>4, <1>5, <1>6, <1>7 DEF Inv

-----------------------------------------------------------------------------
LEMMA InvalidateInv ==
  ASSUME Inv, NEW p \in Procs, NEW u \in UserIDs, NEW pc \in Statements, pc # "update_select",
         req[p] = Idle, Invalidate(u), Step(p, pc, u), UNCHANGED rows
  PROVE  Inv'
<1> DEFINE r == [pc |-> pc, user |-> u]
<1>1. r \in Requests /\ r.pc # "set" /\ Goto(p, r) /\ ~Corrects(p)
  BY RequestTypes DEF Step, Corrects, Statements
<1> HIDE DEF r
<1>2. CASE Drop({u})
  BY <1>1, <1>2, DropStep
<1>3. CASE UNCHANGED <<cache, raced>>
  BY <1>1, <1>3, MoveStep
<1> QED
  BY <1>2, <1>3 DEF Invalidate

LEMMA GetMissInv ==
  ASSUME Inv, NEW p \in Procs, NEW u \in UserIDs, GetMiss(p, u)
  PROVE  Inv'
<1> DEFINE r == [pc |-> "get_select", user |-> u]
<1>1. r \in Requests /\ r.pc # "set" /\ Goto(p, r) /\ ~Corrects(p)
  BY RequestTypes DEF GetMiss, Step, Corrects, Statements
<1> HIDE DEF r
<1> QED
  BY <1>1, MoveStep DEF GetMiss

LEMMA CreateExecInv ==
  ASSUME Inv, NEW p \in Procs, NEW u \in UserIDs, CreateExec(p, u)
  PROVE  Inv'
<1> DEFINE r == [pc |-> "create_select", user |-> u]
<1>1. /\ r \in Requests /\ r.pc = "create_select" /\ req' = [req EXCEPT ![p] = r] /\ ~Corrects(p)
      /\ UNCHANGED <<cache, raced>>
  BY RequestTypes DEF CreateExec, Step, Goto, Corrects, Statements
<1>2. \A q \in Procs : req'[q] = IF q = p THEN r ELSE req[q]
  BY <1>1 DEF Inv, TypeOK
<1> HIDE DEF r
<1>3. /\ rows[u] = NoRow
      /\ \E row \in Row : ~row.deleted /\ rows' = [rows EXCEPT ![u] = row] /\ Live(u)'
  BY InsertStep DEF Inv, TypeOK, CreateExec
<1>4. \A i \in UserIDs : i # u => rows'[i] = rows[i]
  BY <1>3 DEF Inv, TypeOK, RowsTypeOK
<1>5. cache[u] = Miss /\ \A q \in Procs : ~At(q, "set", u)
  BY <1>3 DEF Inv, NothingBeforeInsert
<1>6. TypeOK'
  BY <1>1, <1>3 DEF Inv, TypeOK, RowsTypeOK
<1>7. StaleOnlyIfRaced'
  <2> SUFFICES ASSUME NEW i \in UserIDs, cache[i] # Miss, i \notin raced, ~Fresh(i)'
               PROVE  Correcting(i)'
    BY <1>1 DEF StaleOnlyIfRaced
  <2>1. rows'[i] = rows[i]
    BY <1>4, <1>5
  <2>2. Correcting(i)
    BY <1>1, <2>1 DEF Inv, StaleOnlyIfRaced, Fresh, Live, ViewOf
  <2>3. PICK q \in Procs : At(q, "update_select", i) \/ (At(q, "set", i) /\ req[q].copy = ViewOf(i))
    BY <2>2 DEF Correcting
  <2>4. req'[q] = req[q]
    BY <1>1, <1>2, <2>3 DEF Corrects, At
  <2> QED
    BY <2>1, <2>2, <2>3, <2>4 DEF Correcting, At, Live, ViewOf
<1>8. CopiesFresh'
  BY <1>1, <1>2, <1>4, <1>5 DEF Inv, CopiesFresh, At, Live, ViewOf
<1>9. NothingBeforeInsert'
  BY <1>1, <1>2, <1>3, <1>4 DEF Inv, NothingBeforeInsert, At, Live
<1> QED
  BY <1>6, <1>7, <1>8, <1>9 DEF Inv

LEMMA UpdateExecInv ==
  ASSUME Inv, NEW p \in Procs, UpdateExec(p)
  PROVE  Inv'
<1>1. PICK u \in UserIDs : u = req[p].user
  BY RequestFields DEF Inv, UpdateExec, Statements
<1> DEFINE r == [pc |-> "update_select", user |-> u]
<1>2. /\ r \in Requests /\ r.pc = "update_select" /\ Goto(p, r) /\ ~Corrects(p)
      /\ Update(u) /\ Overtake(u, TRUE) /\ UNCHANGED cache
  BY <1>1, RequestTypes DEF UpdateExec, Step, Corrects, Statements
<1>3. CASE Live(u)
  <2>1. PICK row \in Row : ~row.deleted /\ rows' = [rows EXCEPT ![u] = row]
    BY <1>2, <1>3, UpdateStep DEF Inv, TypeOK
  <2> QED
    BY <1>2, <1>3, <2>1, WriteStep DEF Live
<1>4. CASE ~Live(u)
  <2>1. rows' = rows
    BY <1>2, <1>4 DEF Update
  <2>2. CASE Setting(Procs, u)
    <3>1. u \in raced
      BY <1>4, <2>2 DEF Setting, Inv, CopiesFresh
    <3>2. raced' = raced
      BY <1>2, <3>1 DEF Overtake
    <3> HIDE DEF r
    <3> QED
      BY <1>2, <2>1, <3>2, MoveStep
  <2>3. CASE ~Setting(Procs, u)
    <3>1. raced' = raced
      BY <1>2, <2>3 DEF Overtake
    <3> HIDE DEF r
    <3> QED
      BY <1>2, <2>1, <3>1, MoveStep
  <2> QED
    BY <2>2, <2>3
<1> QED
  BY <1>3, <1>4

LEMMA SelectInv ==
  ASSUME Inv, NEW p \in Procs, Select(p)
  PROVE  Inv'
<1>1. PICK u \in UserIDs : u = req[p].user
  BY RequestFields DEF Inv, Select, Statements
<1> DEFINE r == [pc |-> "set", user |-> u, copy |-> ViewOf(u)]
<1>2. CASE Live(u) /\ Goto(p, r)
  <2>1. r \in Requests
    BY <1>2, RequestTypes, ViewType DEF Inv, TypeOK
  <2> QED
    BY <1>1, <1>2, <2>1, MoveStep DEF Select
<1>3. CASE ~Live(u) /\ Goto(p, Idle)
  BY <1>1, <1>3, RequestTypes, MoveStep DEF Select
<1> QED
  BY <1>1, <1>2, <1>3 DEF Select

LEMMA CacheSetInv ==
  ASSUME Inv, NEW p \in Procs, CacheSet(p)
  PROVE  Inv'
<1>1. PICK u \in UserIDs, c \in View : u = req[p].user /\ c = req[p].copy
  BY RequestFields DEF Inv, CacheSet
<1>2. /\ At(p, "set", u)
      /\ cache' = [cache EXCEPT ![u] = c] /\ req' = [req EXCEPT ![p] = Idle] /\ rows' = rows
      /\ raced' = IF Live(u) /\ c = ViewOf(u) /\ ~Setting(Others(p), u) THEN raced \ {u} ELSE raced
  BY <1>1 DEF CacheSet, Goto, At
<1>3. \A q \in Procs : req'[q] = IF q = p THEN Idle ELSE req[q]
  BY <1>2 DEF Inv, TypeOK
<1>4. TypeOK'
  BY <1>2, RequestTypes DEF Inv, TypeOK, RowsTypeOK
<1>5. \A i \in UserIDs : /\ cache'[i] = IF i = u THEN c ELSE cache[i]
                         /\ i # u => (i \in raced' <=> i \in raced)
  BY <1>2 DEF Inv, TypeOK
<1>6. u \notin raced' => Live(u) /\ c = ViewOf(u)
  BY <1>1, <1>2 DEF Inv, CopiesFresh
<1>7. StaleOnlyIfRaced'
  <2> SUFFICES ASSUME NEW i \in UserIDs, cache'[i] # Miss, i \notin raced', ~Fresh(i)'
               PROVE  Correcting(i)'
    BY DEF StaleOnlyIfRaced
  <2>1. i # u
    BY <1>2, <1>5, <1>6 DEF Fresh, Live, ViewOf
  <2>2. Correcting(i)
    BY <1>2, <1>5, <2>1 DEF Inv, StaleOnlyIfRaced, Fresh, Live, ViewOf
  <2>3. PICK q \in Procs : At(q, "update_select", i) \/ (At(q, "set", i) /\ req[q].copy = ViewOf(i))
    BY <2>2 DEF Correcting
  <2>4. req'[q] = req[q]
    BY <1>2, <1>3, <2>1, <2>3 DEF At
  <2> QED
    BY <1>2, <2>2, <2>3, <2>4 DEF Correcting, At, Live, ViewOf
<1>8. CopiesFresh'
  <2> SUFFICES ASSUME NEW i \in UserIDs, NEW q \in Procs, At(q, "set", i)', i \notin raced'
               PROVE  (Live(i) /\ req[q].copy = ViewOf(i))'
    BY DEF CopiesFresh
  <2>1. q # p /\ req'[q] = req[q] /\ At(q, "set", i)
    BY <1>3 DEF At, Idle
  <2>2. i \notin raced
    BY <1>2, <1>5, <2>1 DEF Setting, Others
  <2> QED
    BY <1>2, <2>1, <2>2 DEF Inv, CopiesFresh, Live, ViewOf
<1>9. NothingBeforeInsert'
  BY <1>2, <1>3, <1>5 DEF Inv, NothingBeforeInsert, At, Idle
<1> QED
  BY <1>4, <1>7, <1>8, <1>9 DEF Inv

LEMMA DeleteExecInv ==
  ASSUME Inv, NEW p \in Procs, DeleteExec(p)
  PROVE  Inv'
<1>1. PICK u \in UserIDs : u = req[p].user
  BY RequestFields DEF Inv, DeleteExec, Statements
<1>2. Idle \in Requests /\ Idle.pc # "set" /\ ~Corrects(p) /\ Goto(p, Idle) /\ UNCHANGED cache
  BY RequestTypes DEF DeleteExec, Corrects
<1>3. CASE Live(u) /\ SoftDelete(u) /\ Overtake(u, FALSE)
  <2>1. PICK row \in Row : rows' = [rows EXCEPT ![u] = row]
    BY <1>3, SoftDeleteStep DEF Inv, TypeOK
  <2> QED
    BY <1>2, <1>3, <2>1, WriteStep DEF Live
<1>4. CASE UNCHANGED <<rows, raced>>
  BY <1>2, <1>4, MoveStep
<1> QED
  BY <1>1, <1>3, <1>4 DEF DeleteExec

LEMMA LoginRow ==
  ASSUME Inv, NEW u \in UserIDs, rows[u] # NoRow, NEW pr \in Profiles
  PROVE  [profile |-> pr, active |-> rows[u].active, deleted |-> rows[u].deleted] \in Row
  BY DEF Inv, TypeOK, RowsTypeOK, Row

LEMMA LoginExecInv ==
  ASSUME Inv, NEW p \in Procs, LoginExec(p)
  PROVE  Inv'
<1>1. PICK u \in UserIDs : u = req[p].user
  BY RequestFields DEF Inv, LoginExec, Statements
<1>2. Idle \in Requests /\ Idle.pc # "set" /\ ~Corrects(p) /\ Goto(p, Idle) /\ UNCHANGED cache
  BY RequestTypes DEF LoginExec, Corrects
<1>3. CASE rows[u] # NoRow
  <2>1. Overtake(u, FALSE) /\ \E pr \in Profiles : rows' = [rows EXCEPT ![u] =
           [profile |-> pr, active |-> rows[u].active, deleted |-> rows[u].deleted]]
    BY <1>1, <1>3 DEF LoginExec
  <2>2. PICK row \in Row : rows' = [rows EXCEPT ![u] = row]
    BY <1>3, <2>1, LoginRow
  <2> QED
    BY <1>2, <1>3, <2>1, <2>2, WriteStep
<1>4. CASE rows[u] = NoRow
  BY <1>1, <1>2, <1>4, MoveStep DEF LoginExec
<1> QED
  BY <1>3, <1>4

LEMMA PurgeRequest ==
  ASSUME TypeOK, NEW p \in Procs, PurgeStart(p) \/ \E u \in UserIDs : PurgeScan(p, u)
  PROVE  \E r \in Requests : Goto(p, r) /\ r.pc = "purge"
<1>1. CASE PurgeStart(p)
  BY <1>1, RequestTypes DEF PurgeStart
<1>2. CASE \E u \in UserIDs : PurgeScan(p, u)
  <2>1. PICK u \in UserIDs : PurgeScan(p, u)
    BY <1>2
  <2> DEFINE U == req[p].todo \ {u}
             V == IF cache[u] # Miss THEN req[p].found \cup {u} ELSE req[p].found
  <2>2. U \in SUBSET UserIDs /\ V \in SUBSET UserIDs
    BY <2>1, RequestFields DEF PurgeScan
  <2>3. Goto(p, [pc |-> "purge", todo |-> U, found |-> V])
    BY <2>1 DEF PurgeScan
  <2> HIDE DEF U, V
  <2> QED
    BY <2>2, <2>3, RequestTypes
<1> QED
  BY <1>1, <1>2

LEMMA PurgeInv ==
  ASSUME Inv, NEW p \in Procs,
         PurgeStart(p) \/ (\E u \in UserIDs : PurgeScan(p, u)) \/ PurgeDel(p)
  PROVE  Inv'
<1>1. ~Corrects(p)
  <2>1. req[p] = Idle \/ req[p].pc = "purge"
    BY DEF PurgeStart, PurgeScan, PurgeDel
  <2> QED
    BY <2>1, RequestTypes DEF Corrects
<1>2. CASE PurgeStart(p) \/ \E u \in UserIDs : PurgeScan(p, u)
  <2>1. PICK r \in Requests : Goto(p, r) /\ r.pc = "purge"
    BY <1>2, PurgeRequest DEF Inv
  <2> QED
    BY <1>1, <1>2, <2>1, MoveStep DEF PurgeStart, PurgeScan
<1>3. CASE PurgeDel(p)
  <2>1. req[p].found \in SUBSET UserIDs
    BY <1>3, RequestFields DEF Inv, PurgeDel
  <2> QED
    BY <1>1, <1>3, <2>1, RequestTypes, DropStep DEF PurgeDel
<1> QED
  BY <1>2, <1>3

LEMMA FailInv ==
  ASSUME Inv, NEW p \in Procs, Fail(p)
  PROVE  Inv'
<1>1. /\ req' = [req EXCEPT ![p] = Idle] /\ UNCHANGED <<rows, cache>>
      /\ raced' = IF Repairing(p) /\ cache[req[p].user] # Miss
                  THEN raced \cup {req[p].user} ELSE raced
  BY DEF Fail, Goto
<1>2. \A q \in Procs : req'[q] = IF q = p THEN Idle ELSE req[q]
  BY <1>1 DEF Inv, TypeOK
<1>3. raced \subseteq raced' /\ raced' \subseteq UserIDs
  BY <1>1, RequestFields DEF Inv, TypeOK, Repairing, Statements
<1>4. TypeOK'
  BY <1>1, <1>3, RequestTypes DEF Inv, TypeOK, RowsTypeOK
<1>5. StaleOnlyIfRaced'
  <2> SUFFICES ASSUME NEW i \in UserIDs, cache[i] # Miss, i \notin raced', ~Fresh(i)
               PROVE  Correcting(i)'
    BY <1>1 DEF StaleOnlyIfRaced, Fresh, Live, ViewOf
  <2>1. Correcting(i)
    BY <1>3 DEF Inv, StaleOnlyIfRaced
  <2>2. PICK q \in Procs : At(q, "update_select", i) \/ (At(q, "set", i) /\ req[q].copy = ViewOf(i))
    BY <2>1 DEF Correcting
  <2>3. q # p
    <3>1. Repairing(q) /\ req[q].user = i
      BY <2>2 DEF Repairing, At
    <3> QED
      BY <1>1, <3>1
  <2> QED
    BY <1>1, <1>2, <2>1, <2>2, <2>3 DEF Correcting, At, Live, ViewOf
<1>6. CopiesFresh'
  BY <1>1, <1>2, <1>3 DEF Inv, CopiesFresh, At, Live, ViewOf, Idle
<1>7. NothingBeforeInsert'
  BY <1>1, <1>2 DEF Inv, NothingBeforeInsert, At, Idle
<1> QED
  BY <1>4, <1>5, <1>6, <1>7 DEF Inv

-----------------------------------------------------------------------------
LEMMA InitInv == Init => Inv
<1> SUFFICES ASSUME Init PROVE Inv
  OBVIOUS
<1>1. TypeOK
  BY RequestTypes DEF Init, RowsInit, TypeOK, RowsTypeOK
<1>2. StaleOnlyIfRaced /\ CopiesFresh /\ NothingBeforeInsert
  BY DEF Init, StaleOnlyIfRaced, CopiesFresh, NothingBeforeInsert, At, Idle
<1> QED
  BY <1>1, <1>2 DEF Inv

LEMMA StepInv == Inv /\ [Next]_vars => Inv'
<1> SUFFICES ASSUME Inv, [Next]_vars PROVE Inv'
  OBVIOUS
<1>1. ASSUME NEW p \in Procs, NEW u \in UserIDs, Start(p, u) PROVE Inv'
  <2>1. CASE GetMiss(p, u) \/ CreateExec(p, u)
    BY <2>1, GetMissInv, CreateExecInv
  <2>2. CASE UpdateStart(p, u) \/ DeleteStart(p, u) \/ LoginStart(p, u)
    <3>1. PICK pc \in {"update_exec", "delete_exec", "login_exec"} :
             req[p] = Idle /\ Invalidate(u) /\ Step(p, pc, u) /\ UNCHANGED rows
      BY <2>2 DEF UpdateStart, DeleteStart, LoginStart
    <3> QED
      BY <3>1, InvalidateInv DEF Statements
  <2> QED
    BY <1>1, <2>1, <2>2 DEF Start
<1>2. ASSUME NEW p \in Procs, PurgeStart(p) \/ Continue(p) \/ Fail(p) PROVE Inv'
  BY <1>2, UpdateExecInv, SelectInv, CacheSetInv, DeleteExecInv, LoginExecInv, PurgeInv, FailInv
     DEF Continue
<1>3. ASSUME NEW u \in UserIDs, Expire(u) PROVE Inv'
  BY <1>3, DropStep DEF Expire
<1>4. CASE UNCHANGED vars
  <2>1. TypeOK'
    BY <1>4 DEF Inv, TypeOK, RowsTypeOK, vars
  <2>2. StaleOnlyIfRaced' /\ CopiesFresh' /\ NothingBeforeInsert'
    BY <1>4 DEF Inv, StaleOnlyIfRaced, CopiesFresh, NothingBeforeInsert, vars,
                Fresh, Correcting, At, Live, ViewOf
  <2> QED
    BY <2>1, <2>2 DEF Inv
<1> QED
  BY <1>1, <1>2, <1>3, <1>4 DEF Next

(* The inductive invariant holds in every reachable state.                    *)
THEOREM SpecInv == Spec => []Inv
<1>1. Init => Inv
  BY InitInv
<1>2. Inv /\ [Next]_vars => Inv'
  BY StepInv
<1> QED
  BY <1>1, <1>2, PTL DEF Spec

(* Every reachable state has the declared types.                              *)
THEOREM TypeCorrect == Spec => []TypeOK
<1>1. Inv => TypeOK
  BY DEF Inv
<1> QED
  BY <1>1, SpecInv, PTL

(* An entry that is out of date is about to be overwritten, unless a copy was *)
(* in flight when the row changed, a Delete or UpdateLastLogin hit an entry,  *)
(* or the one who was to correct it failed: for any number of users and of    *)
(* operations at once.                                                        *)
THEOREM EntriesFresh == Spec => []StaleOnlyIfRaced
<1>1. Inv => StaleOnlyIfRaced
  BY DEF Inv
<1> QED
  BY <1>1, SpecInv, PTL

-----------------------------------------------------------------------------
(* CachedStore implements UserDirectory.  Copies are made by Select alone.    *)

LEMMA CopiesType ==
  ASSUME TypeOK, NEW u \in UserIDs
  PROVE  Copies(u) \subseteq View
  BY RequestFields DEF TypeOK, Copies, At

LEMMA RequestCopies ==
  ASSUME TypeOK, NEW p \in Procs, NEW r \in Requests, Goto(p, r), NEW u \in UserIDs,
         cache'[u] \in {cache[u], Miss}
  PROVE  /\ Copies(u)' \subseteq Copies(u) \cup
                (IF r.pc = "set" /\ r.user = u THEN {r.copy} ELSE {})
         /\ req[p].pc # "set" /\ cache'[u] = cache[u] => Copies(u) \subseteq Copies(u)'
         /\ r.pc = "set" /\ r.user = u => r.copy \in Copies(u)'
<1>1. \A q \in Procs : req'[q] = IF q = p THEN r ELSE req[q]
  BY DEF TypeOK, Goto
<1> QED
  BY <1>1 DEF Copies, At

LEMMA ForgetStep ==
  ASSUME TypeOK, \A u \in UserIDs : Standing(u)' = Standing(u),
         \A u \in UserIDs : Copies(u)' \subseteq Copies(u)
  PROVE  Directory!Forget
<1>1. \A u \in UserIDs : Copies(u)' \in SUBSET View
  BY CopiesType
<1> QED
  BY <1>1 DEF Directory!Forget

(* A goroutine goes on to anything but the caching of a copy.                 *)
LEMMA QuietStep ==
  ASSUME TypeOK, NEW p \in Procs, NEW r \in Requests, Goto(p, r), r.pc # "set", UNCHANGED rows,
         \A u \in UserIDs : cache'[u] \in {cache[u], Miss}
  PROVE  Directory!Forget
<1>1. \A u \in UserIDs : Standing(u)' = Standing(u)
  BY DEF Standing, Live, ViewOf
<1> QED
  BY <1>1, RequestCopies, ForgetStep

LEMMA DropCopies ==
  ASSUME NEW U \in SUBSET UserIDs, Drop(U) \/ UNCHANGED <<cache, raced>>
  PROVE  \A u \in UserIDs : cache'[u] \in {cache[u], Miss}
  BY DEF Drop

LEMMA StartDirectory ==
  ASSUME TypeOK, TypeOK', NEW p \in Procs, NEW u \in UserIDs, Start(p, u)
  PROVE  Directory!Next
<1>1. CASE CreateExec(p, u)
  <2>1. PICK row \in Row : ~row.deleted /\ rows' = [rows EXCEPT ![u] = row] /\ Live(u)'
    BY <1>1, InsertStep DEF TypeOK, CreateExec
  <2>2. StandingOK /\ StandingOK'
    BY StandingType, PTL DEF TypeOK
  <2>3. Standing(u) = Unborn /\ Standing(u)' \in View
    BY <1>1, <2>1, <2>2 DEF StandingOK, CreateExec, Insert
  <2>4. \A i \in UserIDs : i # u => rows'[i] = rows[i]
    BY <2>1 DEF TypeOK, RowsTypeOK
  <2> DEFINE r == [pc |-> "create_select", user |-> u]
  <2>5. r \in Requests /\ r.pc # "set" /\ Goto(p, r) /\ req[p].pc # "set" /\ UNCHANGED cache
    BY <1>1, RequestTypes DEF CreateExec, Step, Statements
  <2> HIDE DEF r
  <2>6. \A i \in UserIDs : Copies(i)' = Copies(i)
    BY <2>5, RequestCopies
  <2>7. Directory!Create(u)
    BY <2>3, <2>4, <2>6, StandingStep DEF Directory!Create, Directory!Become
  <2> QED
    BY <2>7 DEF Directory!Next
<1>2. CASE GetMiss(p, u) \/ UpdateStart(p, u) \/ DeleteStart(p, u) \/ LoginStart(p, u)
  <2>1. PICK pc \in Statements :
           Step(p, pc, u) /\ UNCHANGED rows /\ (Drop({u}) \/ UNCHANGED <<cache, raced>>)
    BY <1>2 DEF GetMiss, UpdateStart, DeleteStart, LoginStart, Invalidate, Statements
  <2> DEFINE r == [pc |-> pc, user |-> u]
  <2>2. r \in Requests /\ r.pc # "set" /\ Goto(p, r)
    BY <2>1, RequestTypes DEF Step, Statements
  <2>3. \A i \in UserIDs : cache'[i] \in {cache[i], Miss}
    BY <2>1, DropCopies
  <2> HIDE DEF r
  <2> QED
    BY <2>1, <2>2, <2>3, QuietStep DEF Directory!Next
<1> QED
  BY <1>1, <1>2 DEF Start

LEMMA SelectDirectory ==
  ASSUME TypeOK, NEW p \in Procs, Select(p)
  PROVE  Directory!Next
<1>1. PICK u \in UserIDs : u = req[p].user
  BY RequestFields DEF Select, Statements
<1> DEFINE r == [pc |-> "set", user |-> u, copy |-> ViewOf(u)]
<1>2. CASE Live(u) /\ Goto(p, r)
  <2>1. StandingOK
    BY StandingType DEF TypeOK
  <2>2. Standing(u) \in View /\ ViewOf(u) = Standing(u)
    BY <1>2, <2>1 DEF StandingOK
  <2>3. r \in Requests
    BY <2>2, RequestTypes
  <2>4. \A i \in UserIDs : Copies(i)' = Copies(i) \cup (IF i = u THEN {Standing(u)} ELSE {})
    BY <1>2, <2>2, <2>3, RequestCopies DEF Select
  <2>5. UNCHANGED [i \in UserIDs |-> Standing(i)]
    <3>1. \A i \in UserIDs : Standing(i)' = Standing(i)
      BY DEF Select, Standing, Live, ViewOf
    <3> QED
      BY <3>1
  <2>6. [i \in UserIDs |-> Copies(i)'] =
          [[i \in UserIDs |-> Copies(i)] EXCEPT ![u] = Copies(u) \cup {Standing(u)}]
    BY <2>4
  <2>7. Directory!Read(u)
    BY <2>2, <2>5, <2>6 DEF Directory!Read
  <2> QED
    BY <2>7 DEF Directory!Next
<1>3. CASE ~Live(u) /\ Goto(p, Idle)
  BY <1>3, RequestTypes, QuietStep DEF Select, Directory!Next
<1> QED
  BY <1>1, <1>2, <1>3 DEF Select

(* The statements that write a row: those of a live one are a change of its   *)
(* user or his removal, all others nothing.                                   *)
LEMMA WriteDirectory ==
  ASSUME TypeOK, TypeOK', NEW p \in Procs, UpdateExec(p) \/ DeleteExec(p) \/ LoginExec(p)
  PROVE  Directory!Next
<1>1. PICK u \in UserIDs : u = req[p].user
  BY RequestFields DEF UpdateExec, DeleteExec, LoginExec, Statements
<1>2. PICK r \in Requests : Goto(p, r) /\ r.pc # "set"
  <2>1. CASE UpdateExec(p)
    <3> DEFINE q == [pc |-> "update_select", user |-> u]
    <3>1. q \in Requests /\ q.pc # "set" /\ Goto(p, q)
      BY <1>1, <2>1, RequestTypes DEF UpdateExec, Step, Statements
    <3> HIDE DEF q
    <3> QED
      BY <3>1
  <2>2. CASE DeleteExec(p) \/ LoginExec(p)
    BY <2>2, RequestTypes DEF DeleteExec, LoginExec
  <2> QED
    BY <2>1, <2>2
<1>3. req[p].pc # "set" /\ UNCHANGED cache
  BY DEF UpdateExec, DeleteExec, LoginExec
<1>4. \A i \in UserIDs : Copies(i)' = Copies(i)
  BY <1>2, <1>3, RequestCopies
<1>5. \A i \in UserIDs : i # u => rows'[i] = rows[i]
  BY <1>1 DEF UpdateExec, DeleteExec, LoginExec, Update, SoftDelete, TypeOK, RowsTypeOK
<1>6. StandingOK /\ StandingOK'
  BY StandingType, PTL DEF TypeOK
<1>7. CASE Live(u) /\ Live(u)'
  <2>1. Standing(u) \in View /\ Standing(u)' \in View
    BY <1>6, <1>7 DEF StandingOK
  <2>2. Directory!Change(u)
    BY <1>4, <1>5, <2>1, StandingStep DEF Directory!Change, Directory!Become
  <2> QED
    BY <2>2 DEF Directory!Next
<1>8. CASE Live(u) /\ rows'[u] # NoRow /\ ~Live(u)'
  <2>1. Standing(u) \in View /\ Standing(u)' = Gone
    BY <1>6, <1>8 DEF StandingOK
  <2>2. Directory!Remove(u)
    BY <1>4, <1>5, <2>1, StandingStep DEF Directory!Remove, Directory!Become
  <2> QED
    BY <2>2 DEF Directory!Next
<1>9. CASE Standing(u)' = Standing(u)
  <2>1. \A i \in UserIDs : Standing(i)' = Standing(i)
    BY <1>5, <1>9 DEF Standing, Live, ViewOf
  <2> QED
    BY <1>4, <2>1, ForgetStep DEF Directory!Next
<1>10. CASE UpdateExec(p)
  <2>1. CASE Live(u)
    BY <1>1, <1>7, <1>10, <2>1, UpdateStep DEF TypeOK, UpdateExec
  <2>2. CASE ~Live(u)
    BY <1>1, <1>9, <1>10, <2>2 DEF UpdateExec, Update, Standing, Live, ViewOf
  <2> QED
    BY <2>1, <2>2
<1>11. CASE DeleteExec(p)
  <2>1. CASE Live(u)
    BY <1>1, <1>8, <1>11, <2>1, SoftDeleteStep DEF TypeOK, DeleteExec
  <2>2. CASE ~Live(u)
    BY <1>1, <1>9, <1>11, <2>2 DEF DeleteExec, Standing, Live, ViewOf
  <2> QED
    BY <2>1, <2>2
<1>12. CASE LoginExec(p)
  <2>1. CASE rows[u] = NoRow
    BY <1>1, <1>9, <1>12, <2>1 DEF LoginExec, Standing, Live, ViewOf
  <2>2. CASE rows[u] # NoRow
    <3>1. PICK pr \in Profiles : rows' = [rows EXCEPT ![u] =
             [profile |-> pr, active |-> rows[u].active, deleted |-> rows[u].deleted]]
      BY <1>1, <1>12, <2>2 DEF LoginExec
    <3> DEFINE row == [profile |-> pr, active |-> rows[u].active, deleted |-> rows[u].deleted]
    <3>2. row \in Row /\ row.deleted = rows[u].deleted /\ rows' = [rows EXCEPT ![u] = row]
      BY <2>2, <3>1 DEF TypeOK, RowsTypeOK, Row
    <3> HIDE DEF row
    <3>3. rows'[u] # NoRow /\ (Live(u)' <=> Live(u))
      BY <2>2, <3>2, NoRowAssumption DEF TypeOK, RowsTypeOK, Live
    <3>4. ~Live(u) => Standing(u)' = Standing(u)
      BY <1>6, <2>2, <3>3 DEF StandingOK
    <3> QED
      BY <1>7, <1>9, <3>3, <3>4
  <2> QED
    BY <2>1, <2>2
<1> QED
  BY <1>10, <1>11, <1>12

LEMMA OtherDirectory ==
  ASSUME TypeOK, NEW p \in Procs,
         \/ PurgeStart(p) \/ (\E u \in UserIDs : PurgeScan(p, u)) \/ PurgeDel(p)
         \/ CacheSet(p) \/ Fail(p)
  PROVE  Directory!Forget
<1>1. CASE CacheSet(p)
  <2>1. PICK u \in UserIDs : u = req[p].user /\ At(p, "set", u)
    BY <1>1, RequestFields DEF CacheSet, At
  <2>2. cache' = [cache EXCEPT ![u] = req[p].copy] /\ req' = [req EXCEPT ![p] = Idle]
    BY <1>1, <2>1 DEF CacheSet, Goto
  <2>3. \A i \in UserIDs : Copies(i)' \subseteq Copies(i)
    BY <2>1, <2>2 DEF TypeOK, Copies, At, Idle
  <2>4. \A i \in UserIDs : Standing(i)' = Standing(i)
    BY <1>1 DEF CacheSet, Standing, Live, ViewOf
  <2> QED
    BY <2>3, <2>4, ForgetStep
<1>2. CASE Fail(p) \/ PurgeDel(p)
  <2>1. PICK U \in SUBSET UserIDs : Drop(U) \/ UNCHANGED cache
    BY <1>2, RequestFields DEF Fail, PurgeDel
  <2>2. \A i \in UserIDs : cache'[i] \in {cache[i], Miss}
    BY <2>1 DEF Drop
  <2> QED
    BY <1>2, <2>2, RequestTypes, QuietStep DEF Fail, PurgeDel
<1>3. CASE PurgeStart(p) \/ \E u \in UserIDs : PurgeScan(p, u)
  <2>1. PICK r \in Requests : Goto(p, r) /\ r.pc = "purge"
    BY <1>3, PurgeRequest
  <2> QED
    BY <1>3, <2>1, QuietStep DEF PurgeStart, PurgeScan
<1> QED
  BY <1>1, <1>2, <1>3

(* CachedUserStore implements UserDirectory: whatever overlaps or fails, it   *)
(* answers with what a user once was, and nothing but copies made before      *)
(* brings a deleted one back.                                                 *)
THEOREM DirectoryImplemented == Spec => ImplementsDirectory
<1>1. Init => Directory!Init
  BY DEF Init, RowsInit, Directory!Init, Standing, Live, Copies, At, Idle
<1>2. TypeOK /\ TypeOK' /\ [Next]_vars => [Directory!Next]_(Directory!dvars)
  <2> SUFFICES ASSUME TypeOK, TypeOK', [Next]_vars
               PROVE  [Directory!Next]_(Directory!dvars)
    OBVIOUS
  <2>1. ASSUME NEW p \in Procs, NEW u \in UserIDs, Start(p, u)
        PROVE  Directory!Next
    BY <2>1, StartDirectory
  <2>2. ASSUME NEW p \in Procs, PurgeStart(p) \/ Continue(p) \/ Fail(p)
        PROVE  Directory!Next
    BY <2>2, SelectDirectory, WriteDirectory, OtherDirectory DEF Continue, Directory!Next
  <2>3. ASSUME NEW u \in UserIDs, Expire(u)
        PROVE  Directory!Next
    <3>1. \A i \in UserIDs : Copies(i)' \subseteq Copies(i) /\ Standing(i)' = Standing(i)
      BY <2>3 DEF Expire, Drop, Copies, At, Standing, Live, ViewOf
    <3> QED
      BY <3>1, ForgetStep DEF Directory!Next
  <2>4. CASE UNCHANGED vars
    BY <2>4 DEF vars, Directory!dvars, Standing, Live, ViewOf, Copies, At
  <2> QED
    BY <2>1, <2>2, <2>3, <2>4 DEF Next
<1> QED
  BY <1>1, <1>2, TypeCorrect, PTL DEF Spec, ImplementsDirectory, Directory!Spec
=============================================================================
