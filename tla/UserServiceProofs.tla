-------------------------- MODULE UserServiceProofs --------------------------
(* Safety of UserService for every set of users, profiles and goroutines.     *)
EXTENDS UserService, UserTableProofs

(* The inductive invariant adds to the property what makes it last: the       *)
(* copies on their way to the cache are current too, and nothing about a user *)
(* exists before its row does.                                                *)
CopiesFresh ==
    \A u \in UserIDs, p \in Procs :
        At(p, "get_set", u) /\ u \notin raced => Live(u) /\ req[p].copy = ViewOf(u)

NothingBeforeInsert ==
    \A u \in UserIDs : rows[u] = NoRow =>
        cache[u] = Miss /\ \A p \in Procs : ~At(p, "get_set", u) /\ ~At(p, "delete_inval", u)

Inv == TypeOK /\ HitsFreshUnlessRaced /\ CopiesFresh /\ NothingBeforeInsert

LEMMA RequestUser ==
  ASSUME TypeOK, NEW p \in Procs, req[p] # Idle
  PROVE  /\ req[p].user \in UserIDs
         /\ req[p].pc = "get_set" => req[p].copy \in View
         /\ req[p].pc # "idle"
  BY DEF TypeOK, Requests, Waiting, Fills, Idle

LEMMA WaitingType ==
  ASSUME NEW u \in UserIDs, NEW pc \in {"get_select", "update_select", "update_inval", "delete_inval"}
  PROVE  [pc |-> pc, user |-> u] \in Requests
  BY DEF Requests, Waiting

LEMMA IdleType == Idle \in Requests /\ Idle.pc = "idle"
  BY DEF Requests, Idle

(* A goroutine moves without touching rows, entries or raced.  It may start a *)
(* fill with the current row, and may not abandon a pending invalidation.     *)
LEMMA MoveStep ==
  ASSUME Inv, NEW p \in Procs, NEW r \in Requests, Goto(p, r),
         UNCHANGED <<rows, cache, raced>>,
         \A u \in UserIDs : r.pc = "get_set" /\ r.user = u =>
            Live(u) /\ r.copy = ViewOf(u),
         r.pc # "delete_inval",
         \A u \in UserIDs : At(p, "delete_inval", u) => FALSE,
         \A u \in UserIDs : (At(p, "update_select", u) \/ At(p, "update_inval", u)) /\ Live(u)
            => r.pc = "update_inval" /\ r.user = u
  PROVE  Inv'
<1>1. /\ req' = [req EXCEPT ![p] = r]
      /\ rows' = rows /\ cache' = cache /\ raced' = raced
  BY DEF Goto
<1>2. TypeOK'
  BY <1>1 DEF Inv, TypeOK, RowsTypeOK
<1>3. \A q \in Procs : req'[q] = IF q = p THEN r ELSE req[q]
  BY <1>1 DEF Inv, TypeOK
<1>4. HitsFreshUnlessRaced'
  <2> SUFFICES ASSUME NEW u \in UserIDs, cache[u] # Miss, u \notin raced, ~Fresh(u)
               PROVE  Correcting(u)'
    BY <1>1 DEF HitsFreshUnlessRaced, Fresh, Live, ViewOf
  <2>1. PICK q \in Procs :
           IF Live(u) THEN At(q, "update_select", u) \/ At(q, "update_inval", u)
                      ELSE At(q, "delete_inval", u)
    BY DEF Inv, HitsFreshUnlessRaced, Correcting
  <2>2. CASE q = p
    <3>1. Live(u) /\ r.pc = "update_inval" /\ r.user = u
      BY <2>1, <2>2
    <3> QED
      BY <1>1, <1>3, <2>2, <3>1 DEF Correcting, At, Live
  <2>3. CASE q # p
    BY <1>1, <1>3, <2>1, <2>3 DEF Correcting, At, Live
  <2> QED
    BY <2>2, <2>3
<1>5. CopiesFresh'
  BY <1>1, <1>3 DEF Inv, CopiesFresh, At, Live, ViewOf
<1>6. NothingBeforeInsert'
  BY <1>1, <1>3 DEF Inv, NothingBeforeInsert, At, Live
<1> QED
  BY <1>2, <1>4, <1>5, <1>6 DEF Inv

(* An entry is dropped, by a goroutine that has then nothing left to do or by *)
(* the TTL.                                                                   *)
LEMMA DropStep ==
  ASSUME Inv, NEW u \in UserIDs, Drop(u), UNCHANGED rows,
         \/ UNCHANGED req
         \/ \E p \in Procs :
               /\ Goto(p, Idle)
               /\ At(p, "update_inval", u) \/ At(p, "delete_inval", u)
  PROVE  Inv'
<1>1. TypeOK'
  BY IdleType DEF Inv, TypeOK, RowsTypeOK, Drop, Goto
<1>2. \A q \in Procs : \/ req'[q] = req[q]
                       \/ req'[q] = Idle /\ (At(q, "update_inval", u) \/ At(q, "delete_inval", u))
  BY DEF Inv, TypeOK, Goto
<1>3. raced' \in SUBSET raced /\ \A i \in UserIDs : i \in raced /\ i \notin raced' => i = u /\ ~Filling(u)
  BY DEF Drop
<1>4. HitsFreshUnlessRaced'
  <2> SUFFICES ASSUME NEW i \in UserIDs, cache'[i] # Miss, i \notin raced', ~Fresh(i)'
               PROVE  Correcting(i)'
    BY DEF HitsFreshUnlessRaced
  <2>1. i # u /\ cache'[i] = cache[i]
    BY DEF Inv, TypeOK, Drop
  <2>2. i \notin raced /\ ~Fresh(i)
    BY <1>3, <2>1 DEF Fresh, Live, ViewOf
  <2>3. Correcting(i)
    BY <2>1, <2>2 DEF Inv, HitsFreshUnlessRaced
  <2> QED
    BY <1>2, <2>1, <2>3 DEF Correcting, At, Live
<1>5. CopiesFresh'
  <2> SUFFICES ASSUME NEW i \in UserIDs, NEW q \in Procs, At(q, "get_set", i)', i \notin raced'
               PROVE  (Live(i) /\ req[q].copy = ViewOf(i))'
    BY DEF CopiesFresh
  <2>1. req'[q] = req[q] /\ At(q, "get_set", i)
    BY <1>2 DEF At, Idle
  <2>2. i \notin raced
    BY <1>3, <2>1 DEF Filling
  <2> QED
    BY <2>1, <2>2 DEF Inv, CopiesFresh, Live, ViewOf
<1>6. NothingBeforeInsert'
  BY <1>2 DEF Inv, NothingBeforeInsert, At, Idle, Drop, TypeOK
<1> QED
  BY <1>1, <1>4, <1>5, <1>6 DEF Inv

-----------------------------------------------------------------------------
LEMMA GetSetInv ==
  ASSUME Inv, NEW p \in Procs, GetSet(p)
  PROVE  Inv'
<1> DEFINE u == req[p].user
           c == req[p].copy
<1>1. u \in UserIDs /\ c \in View /\ At(p, "get_set", u)
  BY RequestUser DEF Inv, GetSet, Idle, At
<1>2. /\ cache' = [cache EXCEPT ![u] = c]
      /\ req' = [req EXCEPT ![p] = Idle]
      /\ rows' = rows /\ raced' = raced
  BY DEF GetSet, Goto
<1> HIDE DEF u, c
<1>3. \A q \in Procs : req'[q] = req[q] \/ (q = p /\ req'[q] = Idle)
  BY <1>2 DEF Inv, TypeOK
<1>4. TypeOK'
  BY <1>1, <1>2, IdleType DEF Inv, TypeOK, RowsTypeOK
<1>5. u \notin raced => Live(u) /\ c = ViewOf(u)
  BY <1>1 DEF Inv, CopiesFresh, c
<1>6. HitsFreshUnlessRaced'
  <2> SUFFICES ASSUME NEW i \in UserIDs, cache'[i] # Miss, i \notin raced, ~Fresh(i)'
               PROVE  Correcting(i)'
    BY <1>2 DEF HitsFreshUnlessRaced
  <2>1. i # u
    BY <1>1, <1>2, <1>5 DEF Inv, TypeOK, Fresh, Live, ViewOf
  <2>2. cache[i] # Miss /\ ~Fresh(i)
    BY <1>2, <2>1 DEF Inv, TypeOK, Fresh, Live, ViewOf
  <2>3. Correcting(i)
    BY <2>2 DEF Inv, HitsFreshUnlessRaced
  <2> QED
    BY <1>1, <1>2, <1>3, <2>3 DEF Correcting, At, Live
<1>7. CopiesFresh'
  BY <1>2, <1>3 DEF Inv, CopiesFresh, At, Live, ViewOf, Idle
<1>8. NothingBeforeInsert'
  BY <1>1, <1>2, <1>3 DEF Inv, TypeOK, NothingBeforeInsert, At, Live, Idle
<1> QED
  BY <1>4, <1>6, <1>7, <1>8 DEF Inv

LEMMA FailInv ==
  ASSUME Inv, NEW p \in Procs, Fail(p)
  PROVE  Inv'
<1> DEFINE u == req[p].user
<1>1. u \in UserIDs
  BY RequestUser DEF Inv, Fail
<1>2. /\ req' = [req EXCEPT ![p] = Idle]
      /\ rows' = rows /\ cache' = cache
      /\ raced' = IF Writing(p) THEN raced \cup {u} ELSE raced
  BY DEF Fail, Goto
<1>3. \A q \in Procs : req'[q] = req[q] \/ (q = p /\ req'[q] = Idle)
  BY <1>2 DEF Inv, TypeOK
<1> HIDE DEF u
<1>4. TypeOK'
  BY <1>1, <1>2, IdleType DEF Inv, TypeOK, RowsTypeOK
<1>5. HitsFreshUnlessRaced'
  <2> SUFFICES ASSUME NEW i \in UserIDs, cache[i] # Miss, i \notin raced', ~Fresh(i)
               PROVE  Correcting(i)'
    BY <1>2 DEF HitsFreshUnlessRaced, Fresh, Live, ViewOf
  <2>1. i \notin raced /\ (Writing(p) => i # u)
    BY <1>2
  <2>2. PICK q \in Procs :
           IF Live(i) THEN At(q, "update_select", i) \/ At(q, "update_inval", i)
                      ELSE At(q, "delete_inval", i)
    BY <2>1 DEF Inv, HitsFreshUnlessRaced, Correcting
  <2>3. q # p
    BY <2>1, <2>2 DEF At, Writing, u
  <2>4. req'[q] = req[q]
    BY <1>2, <2>3 DEF Inv, TypeOK
  <2> QED
    BY <1>2, <2>2, <2>4 DEF Correcting, At, Live
<1>6. CopiesFresh'
  BY <1>2, <1>3 DEF Inv, CopiesFresh, At, Live, ViewOf, Idle
<1>7. NothingBeforeInsert'
  BY <1>2, <1>3 DEF Inv, NothingBeforeInsert, At, Idle
<1> QED
  BY <1>4, <1>5, <1>6, <1>7 DEF Inv

LEMMA CreateUserInv ==
  ASSUME Inv, NEW p \in Procs, NEW u \in UserIDs, CreateUser(p, u)
  PROVE  Inv'
<1>1. /\ rows[u] = NoRow
      /\ cache' = cache /\ req' = req /\ raced' = raced
  BY DEF CreateUser, Insert
<1>2. PICK row \in Row : ~row.deleted /\ rows' = [rows EXCEPT ![u] = row] /\ Live(u)'
  BY InsertStep DEF Inv, TypeOK, CreateUser
<1>3. TypeOK'
  BY <1>1, <1>2 DEF Inv, TypeOK, RowsTypeOK
<1>4. cache[u] = Miss /\ \A q \in Procs : ~At(q, "get_set", u) /\ ~At(q, "delete_inval", u)
  BY <1>1 DEF Inv, NothingBeforeInsert
<1>5. \A i \in UserIDs : i # u => rows'[i] = rows[i]
  BY <1>2 DEF Inv, TypeOK, RowsTypeOK
<1>6. HitsFreshUnlessRaced'
  <2> SUFFICES ASSUME NEW i \in UserIDs, cache[i] # Miss, i \notin raced, ~Fresh(i)'
               PROVE  Correcting(i)'
    BY <1>1 DEF HitsFreshUnlessRaced
  <2>1. i # u /\ rows'[i] = rows[i]
    BY <1>4, <1>5
  <2>2. Correcting(i)
    BY <1>1, <2>1 DEF Inv, HitsFreshUnlessRaced, Fresh, Live, ViewOf
  <2> QED
    BY <1>1, <2>1, <2>2 DEF Correcting, At, Live
<1>7. CopiesFresh'
  BY <1>1, <1>4, <1>5 DEF Inv, CopiesFresh, At, Live, ViewOf
<1>8. NothingBeforeInsert'
  BY <1>1, <1>2, <1>5 DEF Inv, NothingBeforeInsert, At, Live
<1> QED
  BY <1>3, <1>6, <1>7, <1>8 DEF Inv

(* A statement of goroutine p changes the row of u, which is and stays in the *)
(* table, and p goes on to where it will correct the entry.                   *)
LEMMA WriteStep ==
  ASSUME Inv, NEW p \in Procs, NEW u \in UserIDs, req[p] = Idle, Live(u),
         NEW row \in Row, rows' = [rows EXCEPT ![u] = row], Overtake(u),
         NEW pc \in {"update_select", "delete_inval"},
         pc = IF row.deleted THEN "delete_inval" ELSE "update_select",
         Goto(p, [pc |-> pc, user |-> u]),
         UNCHANGED cache
  PROVE  Inv'
<1> DEFINE r == [pc |-> pc, user |-> u]
<1>1. r \in Requests
  BY WaitingType
<1>2. req' = [req EXCEPT ![p] = r] /\ cache' = cache
  BY DEF Goto
<1>3. \A q \in Procs : req'[q] = IF q = p THEN r ELSE req[q]
  BY <1>2 DEF Inv, TypeOK
<1>4. /\ rows'[u] = row
      /\ \A i \in UserIDs : i # u => rows'[i] = rows[i]
  BY DEF Inv, TypeOK, RowsTypeOK
<1>5. row # NoRow
  BY NoRowAssumption
<1>6. raced \subseteq raced' /\ raced' \subseteq raced \cup {u} /\ (Filling(u) => u \in raced')
  BY DEF Overtake
<1>7. TypeOK'
  BY <1>1, <1>2, <1>6 DEF Inv, TypeOK, RowsTypeOK
<1>8. HitsFreshUnlessRaced'
  <2> SUFFICES ASSUME NEW i \in UserIDs, cache[i] # Miss, i \notin raced', ~Fresh(i)'
               PROVE  Correcting(i)'
    BY <1>2 DEF HitsFreshUnlessRaced
  <2>1. CASE i = u
    <3>1. Live(u)' <=> ~row.deleted
      BY <1>4, <1>5 DEF Live
    <3>2. At(p, pc, u)'
      BY <1>3 DEF At
    <3> QED
      BY <2>1, <3>1, <3>2 DEF Correcting
  <2>2. CASE i # u
    <3>1. Correcting(i) /\ rows'[i] = rows[i]
      BY <1>2, <1>4, <1>6, <2>2 DEF Inv, HitsFreshUnlessRaced, Fresh, Live, ViewOf
    <3>2. PICK q \in Procs :
             IF Live(i) THEN At(q, "update_select", i) \/ At(q, "update_inval", i)
                        ELSE At(q, "delete_inval", i)
      BY <3>1 DEF Correcting
    <3>3. q # p
      BY <3>2 DEF At, Idle
    <3> QED
      BY <1>3, <3>1, <3>2, <3>3 DEF Correcting, At, Live
  <2> QED
    BY <2>1, <2>2
<1>9. CopiesFresh'
  <2> SUFFICES ASSUME NEW i \in UserIDs, NEW q \in Procs, At(q, "get_set", i)', i \notin raced'
               PROVE  (Live(i) /\ req[q].copy = ViewOf(i))'
    BY DEF CopiesFresh
  <2>1. q # p /\ req'[q] = req[q]
    BY <1>3 DEF At
  <2>2. At(q, "get_set", i) /\ i # u
    BY <1>6, <2>1 DEF At, Filling
  <2> QED
    BY <1>4, <1>6, <2>1, <2>2 DEF Inv, CopiesFresh, Live, ViewOf
<1>10. NothingBeforeInsert'
  BY <1>2, <1>3, <1>4, <1>5 DEF Inv, NothingBeforeInsert, At
<1> QED
  BY <1>7, <1>8, <1>9, <1>10 DEF Inv

LEMMA UpdateExecInv ==
  ASSUME Inv, NEW p \in Procs, NEW u \in UserIDs, UpdateExec(p, u)
  PROVE  Inv'
<1> DEFINE r == [pc |-> "update_select", user |-> u]
<1>1. CASE Live(u)
  <2>1. PICK row \in Row : ~row.deleted /\ rows' = [rows EXCEPT ![u] = row]
    BY <1>1, UpdateStep DEF Inv, TypeOK, UpdateExec
  <2> QED
    BY <1>1, <2>1, WriteStep DEF UpdateExec
<1>2. CASE ~Live(u)
  <2>1. rows' = rows /\ cache' = cache /\ req' = [req EXCEPT ![p] = r]
    BY <1>2 DEF UpdateExec, Update, Goto
  <2>2. r \in Requests
    BY WaitingType
  <2>3. \A q \in Procs : req'[q] = IF q = p THEN r ELSE req[q]
    BY <2>1 DEF Inv, TypeOK
  <2>4. raced \subseteq raced' /\ raced' \subseteq raced \cup {u}
    BY DEF UpdateExec, Overtake
  <2>5. req[p] = Idle
    BY DEF UpdateExec
  <2>6. TypeOK'
    BY <2>1, <2>2, <2>4 DEF Inv, TypeOK, RowsTypeOK
  <2>7. HitsFreshUnlessRaced'
    <3> SUFFICES ASSUME NEW i \in UserIDs, cache[i] # Miss, i \notin raced', ~Fresh(i)
                 PROVE  Correcting(i)'
      BY <2>1 DEF HitsFreshUnlessRaced, Fresh, Live, ViewOf
    <3>1. PICK q \in Procs :
             IF Live(i) THEN At(q, "update_select", i) \/ At(q, "update_inval", i)
                        ELSE At(q, "delete_inval", i)
      BY <2>4 DEF Inv, HitsFreshUnlessRaced, Correcting
    <3>2. q # p
      BY <2>5, <3>1 DEF At, Idle
    <3> QED
      BY <2>1, <2>3, <3>1, <3>2 DEF Correcting, At, Live
  <2>8. CopiesFresh'
    BY <2>1, <2>3, <2>4 DEF Inv, CopiesFresh, At, Live, ViewOf
  <2>9. NothingBeforeInsert'
    BY <2>1, <2>3 DEF Inv, NothingBeforeInsert, At
  <2> QED
    BY <2>6, <2>7, <2>8, <2>9 DEF Inv
<1> QED
  BY <1>1, <1>2

LEMMA DeleteExecInv ==
  ASSUME Inv, NEW p \in Procs, NEW u \in UserIDs, DeleteExec(p, u)
  PROVE  Inv'
<1>1. PICK row \in Row : row.deleted /\ rows' = [rows EXCEPT ![u] = row]
  BY SoftDeleteStep DEF Inv, TypeOK, DeleteExec
<1> QED
  BY <1>1, WriteStep DEF DeleteExec

-----------------------------------------------------------------------------
LEMMA InitInv == Init => Inv
<1> SUFFICES ASSUME Init PROVE Inv
  OBVIOUS
<1>1. TypeOK
  BY IdleType DEF Init, RowsInit, TypeOK, RowsTypeOK
<1>2. HitsFreshUnlessRaced /\ CopiesFresh /\ NothingBeforeInsert
  BY DEF Init, HitsFreshUnlessRaced, CopiesFresh, NothingBeforeInsert, At, Idle
<1> QED
  BY <1>1, <1>2 DEF Inv

LEMMA StepInv == Inv /\ [Next]_vars => Inv'
<1> SUFFICES ASSUME Inv, [Next]_vars PROVE Inv'
  OBVIOUS
<1>1. ASSUME NEW p \in Procs, NEW u \in UserIDs, GetMiss(p, u) PROVE Inv'
  <2> DEFINE r == [pc |-> "get_select", user |-> u]
  <2>1. r \in Requests /\ r.pc = "get_select"
    BY WaitingType
  <2>2. Goto(p, r) /\ UNCHANGED <<rows, cache, raced>>
    BY <1>1 DEF GetMiss
  <2>3. req[p].pc = "idle"
    BY <1>1, IdleType DEF GetMiss
  <2> HIDE DEF r
  <2> QED
    BY <2>1, <2>2, <2>3, MoveStep DEF At
<1>2. ASSUME NEW p \in Procs, GetSelect(p) PROVE Inv'
  <2> DEFINE u == req[p].user
             r == [pc |-> "get_set", user |-> u, copy |-> ViewOf(u)]
  <2>1. u \in UserIDs /\ \A i \in UserIDs, pc \in {"delete_inval", "update_select", "update_inval"} : ~At(p, pc, i)
    BY <1>2, RequestUser DEF Inv, GetSelect, At, Idle
  <2>2. CASE Live(u) /\ Goto(p, r)
    <3>1. r \in Requests
      BY <2>1, <2>2, ViewType DEF Inv, TypeOK, Requests, Fills
    <3> QED
      BY <1>2, <2>1, <2>2, <3>1, MoveStep DEF GetSelect
  <2>3. CASE Goto(p, Idle)
    BY <1>2, <2>1, <2>3, IdleType, MoveStep DEF GetSelect
  <2> QED
    BY <1>2, <2>2, <2>3 DEF GetSelect
<1>3. ASSUME NEW p \in Procs, GetSet(p) PROVE Inv'
  BY <1>3, GetSetInv
<1>4. ASSUME NEW p \in Procs, NEW u \in UserIDs, CreateUser(p, u) PROVE Inv'
  BY <1>4, CreateUserInv
<1>5. ASSUME NEW p \in Procs, NEW u \in UserIDs, UpdateExec(p, u) PROVE Inv'
  BY <1>5, UpdateExecInv
<1>6. ASSUME NEW p \in Procs, UpdateSelect(p) PROVE Inv'
  <2> DEFINE u == req[p].user
             r == [pc |-> "update_inval", user |-> u]
  <2>1. u \in UserIDs /\ \A i \in UserIDs : ~At(p, "delete_inval", i) /\ ~At(p, "update_inval", i)
    BY <1>6, RequestUser DEF Inv, UpdateSelect, At, Idle
  <2>2. CASE Live(u) /\ Goto(p, r)
    <3>1. r \in Requests
      BY <2>1, WaitingType
    <3> QED
      BY <1>6, <2>1, <2>2, <3>1, MoveStep DEF UpdateSelect, At
  <2>3. CASE ~Live(u) /\ Goto(p, Idle)
    BY <1>6, <2>1, <2>3, IdleType, MoveStep DEF UpdateSelect, At
  <2> QED
    BY <1>6, <2>2, <2>3 DEF UpdateSelect
<1>7. ASSUME NEW p \in Procs, UpdateInval(p) PROVE Inv'
  <2>1. req[p].user \in UserIDs
    BY <1>7, RequestUser DEF Inv, UpdateInval, Idle
  <2> QED
    BY <1>7, <2>1, DropStep DEF UpdateInval, At
<1>8. ASSUME NEW p \in Procs, NEW u \in UserIDs, DeleteExec(p, u) PROVE Inv'
  BY <1>8, DeleteExecInv
<1>9. ASSUME NEW p \in Procs, DeleteInval(p) PROVE Inv'
  <2>1. req[p].user \in UserIDs
    BY <1>9, RequestUser DEF Inv, DeleteInval, Idle
  <2> QED
    BY <1>9, <2>1, DropStep DEF DeleteInval, At
<1>10. ASSUME NEW p \in Procs, Fail(p) PROVE Inv'
  BY <1>10, FailInv
<1>11. ASSUME NEW u \in UserIDs, Expire(u) PROVE Inv'
  BY <1>11, DropStep DEF Expire
<1>12. CASE UNCHANGED vars
  <2>1. TypeOK'
    BY <1>12 DEF Inv, TypeOK, RowsTypeOK, vars
  <2>2. HitsFreshUnlessRaced' /\ CopiesFresh' /\ NothingBeforeInsert'
    BY <1>12 DEF Inv, HitsFreshUnlessRaced, CopiesFresh, NothingBeforeInsert, vars,
                 Fresh, Correcting, At, Live, ViewOf
  <2> QED
    BY <2>1, <2>2 DEF Inv
<1> QED
  BY <1>1, <1>2, <1>3, <1>4, <1>5, <1>6, <1>7, <1>8, <1>9, <1>10, <1>11, <1>12
     DEF Next, Write, Continue

(* The inductive invariant holds in every reachable state.                    *)
THEOREM SpecInv == Spec => []Inv
<1>1. Init => Inv
  BY InitInv
<1>2. Inv /\ [Next]_vars => Inv'
  BY StepInv
<1> QED
  BY <1>1, <1>2, PTL DEF Spec

(* Every reachable state has the declared types.                              *)
THEOREM TypeCorrect == Spec => []TypeOK
<1>1. Inv => TypeOK
  BY DEF Inv
<1> QED
  BY <1>1, SpecInv, PTL

(* A cached user is the user in the table or is about to be invalidated,      *)
(* unless a read straddled a write or a writer failed: for any number of      *)
(* users and of requests at once.                                             *)
THEOREM CacheHitsFresh == Spec => []HitsFreshUnlessRaced
<1>1. Inv => HitsFreshUnlessRaced
  BY DEF Inv
<1> QED
  BY <1>1, SpecInv, PTL

-----------------------------------------------------------------------------
(* UserService implements UserDirectory.  Copies are made by GetSelect alone; *)
(* every other step leaves those there are, or drops some.                    *)

LEMMA CopiesType ==
  ASSUME TypeOK, NEW u \in UserIDs
  PROVE  Copies(u) \subseteq View
  BY RequestUser DEF TypeOK, Copies, At, Idle

LEMMA RequestCopies ==
  ASSUME TypeOK, NEW p \in Procs, NEW r \in Requests, Goto(p, r), NEW u \in UserIDs,
         UNCHANGED cache
  PROVE  /\ Copies(u)' \subseteq Copies(u) \cup
                (IF r.pc = "get_set" /\ r.user = u THEN {r.copy} ELSE {})
         /\ req[p].pc # "get_set" => Copies(u) \subseteq Copies(u)'
         /\ r.pc = "get_set" /\ r.user = u => r.copy \in Copies(u)'
<1>1. \A q \in Procs : req'[q] = IF q = p THEN r ELSE req[q]
  BY DEF TypeOK, Goto
<1> QED
  BY <1>1 DEF Copies, At

LEMMA ForgetStep ==
  ASSUME TypeOK, UNCHANGED rows, \A u \in UserIDs : Copies(u)' \subseteq Copies(u)
  PROVE  Directory!Forget
<1>1. \A u \in UserIDs : Standing(u)' = Standing(u)
  BY DEF Standing, Live, ViewOf
<1>2. \A u \in UserIDs : Copies(u)' \in SUBSET View
  BY CopiesType
<1> QED
  BY <1>1, <1>2 DEF Directory!Forget

(* A copy of the current view of u joins the others.                          *)
LEMMA CopyStep ==
  ASSUME TypeOK, NEW u \in UserIDs, Live(u), UNCHANGED rows,
         \A i \in UserIDs : Copies(i)' = Copies(i) \cup (IF i = u THEN {Standing(u)} ELSE {})
  PROVE  Directory!Read(u)
<1>1. \A i \in UserIDs : Standing(i)' = Standing(i)
  BY DEF Standing, Live, ViewOf
<1>2. UNCHANGED [i \in UserIDs |-> Standing(i)]
  BY <1>1
<1>3. [i \in UserIDs |-> Copies(i)'] =
        [[i \in UserIDs |-> Copies(i)] EXCEPT ![u] = Copies(u) \cup {Standing(u)}]
  OBVIOUS
<1>4. Standing(u) \in View
  BY StandingType DEF StandingOK, TypeOK
<1> QED
  BY <1>2, <1>3, <1>4 DEF Directory!Read

LEMMA GetSelectReads ==
  ASSUME TypeOK, NEW p \in Procs, GetSelect(p)
  PROVE  Directory!Next
<1> DEFINE u == req[p].user
           r == [pc |-> "get_set", user |-> u, copy |-> ViewOf(u)]
<1>1. u \in UserIDs
  BY RequestUser DEF GetSelect, Idle
<1>2. CASE Live(u) /\ Goto(p, r)
  <2>1. r \in Requests /\ ViewOf(u) = Standing(u) /\ Standing(u) \in View
    BY <1>1, <1>2, ViewType, StandingType DEF StandingOK, TypeOK, Requests, Fills
  <2>2. \A i \in UserIDs : Copies(i)' = Copies(i) \cup (IF i = u THEN {Standing(u)} ELSE {})
    BY <1>2, <2>1, RequestCopies DEF GetSelect
  <2>3. PICK i \in UserIDs : i = u
    BY <1>1
  <2>4. Directory!Read(i)
    BY <1>2, <2>2, <2>3, CopyStep DEF GetSelect
  <2> QED
    BY <2>4 DEF Directory!Next
<1>3. CASE Goto(p, Idle)
  <2>1. \A i \in UserIDs : Copies(i)' \subseteq Copies(i)
    BY <1>3, IdleType, RequestCopies DEF GetSelect
  <2> QED
    BY <2>1, ForgetStep DEF GetSelect, Directory!Next
<1> QED
  BY <1>2, <1>3 DEF GetSelect

LEMMA CreateUserCreates ==
  ASSUME TypeOK, TypeOK', NEW p \in Procs, NEW u \in UserIDs, CreateUser(p, u)
  PROVE  Directory!Create(u)
<1>1. PICK row \in Row : ~row.deleted /\ rows' = [rows EXCEPT ![u] = row] /\ Live(u)'
  BY InsertStep DEF TypeOK, CreateUser
<1>2. StandingOK /\ StandingOK'
  BY StandingType, PTL DEF TypeOK
<1>3. Standing(u) = Unborn /\ Standing(u)' \in View
  BY <1>1, <1>2 DEF StandingOK, CreateUser, Insert
<1>4. \A i \in UserIDs : i # u => rows'[i] = rows[i]
  BY <1>1 DEF TypeOK, RowsTypeOK
<1>5. \A i \in UserIDs : Copies(i)' = Copies(i)
  BY DEF CreateUser, Copies, At
<1> QED
  BY <1>3, <1>4, <1>5, StandingStep DEF Directory!Create, Directory!Become

LEMMA WriteChanges ==
  ASSUME TypeOK, TypeOK', NEW p \in Procs, NEW u \in UserIDs,
         UpdateExec(p, u) \/ DeleteExec(p, u)
  PROVE  Directory!Next
<1>1. \A i \in UserIDs : i # u => rows'[i] = rows[i]
  BY DEF UpdateExec, DeleteExec, Update, SoftDelete, TypeOK, RowsTypeOK
<1>2. \A i \in UserIDs : Copies(i)' = Copies(i)
  <2>1. PICK pc \in {"update_select", "delete_inval"} :
           Goto(p, [pc |-> pc, user |-> u]) /\ req[p] = Idle /\ UNCHANGED cache
    BY DEF UpdateExec, DeleteExec
  <2> DEFINE r == [pc |-> pc, user |-> u]
  <2>2. r \in Requests /\ r.pc # "get_set"
    BY WaitingType
  <2>3. req[p].pc # "get_set"
    BY <2>1 DEF Idle
  <2>4. Goto(p, r)
    BY <2>1
  <2> HIDE DEF r
  <2> QED
    BY <2>1, <2>2, <2>3, <2>4, RequestCopies
<1>3. StandingOK /\ StandingOK'
  BY StandingType, PTL DEF TypeOK
<1>4. CASE UpdateExec(p, u) /\ ~Live(u)
  BY <1>2, <1>4, ForgetStep DEF UpdateExec, Update, Directory!Next
<1>5. CASE UpdateExec(p, u) /\ Live(u)
  <2>1. Standing(u) \in View /\ Standing(u)' \in View
    BY <1>3, <1>5, UpdateStep DEF TypeOK, StandingOK, UpdateExec
  <2>2. Directory!Change(u)
    BY <1>1, <1>2, <2>1, StandingStep DEF Directory!Change, Directory!Become
  <2> QED
    BY <2>2 DEF Directory!Next
<1>6. CASE DeleteExec(p, u)
  <2>1. Standing(u) \in View /\ Standing(u)' = Gone
    BY <1>3, <1>6, SoftDeleteStep DEF TypeOK, StandingOK, DeleteExec
  <2>2. Directory!Remove(u)
    BY <1>1, <1>2, <2>1, StandingStep DEF Directory!Remove, Directory!Become
  <2> QED
    BY <2>2 DEF Directory!Next
<1> QED
  BY <1>4, <1>5, <1>6

(* The steps that make no copies and change no row.                           *)
LEMMA OtherStepsForget ==
  ASSUME TypeOK, NEW p \in Procs, NEW u \in UserIDs,
         \/ GetMiss(p, u) \/ GetSet(p) \/ UpdateSelect(p) \/ UpdateInval(p)
         \/ DeleteInval(p) \/ Fail(p) \/ Expire(u)
  PROVE  Directory!Forget
<1>1. ASSUME NEW r \in Requests, r.pc # "get_set", Goto(p, r), UNCHANGED <<rows, cache>>
      PROVE  Directory!Forget
  BY <1>1, RequestCopies, ForgetStep
<1>2. CASE GetMiss(p, u)
  <2> DEFINE r == [pc |-> "get_select", user |-> u]
  <2>1. r \in Requests /\ r.pc # "get_set" /\ Goto(p, r)
    BY <1>2, WaitingType DEF GetMiss
  <2> HIDE DEF r
  <2> QED
    BY <1>1, <1>2, <2>1 DEF GetMiss
<1>3. CASE GetSet(p)
  <2> DEFINE v == req[p].user
  <2>1. /\ v \in UserIDs /\ At(p, "get_set", v)
        /\ cache' = [cache EXCEPT ![v] = req[p].copy] /\ req' = [req EXCEPT ![p] = Idle]
    BY <1>3, RequestUser DEF GetSet, Goto, At, Idle
  <2>2. \A i \in UserIDs : Copies(i)' \subseteq Copies(i)
    BY <2>1 DEF TypeOK, Copies, At, Idle
  <2> QED
    BY <1>3, <2>2, ForgetStep DEF GetSet
<1>4. CASE UpdateSelect(p)
  <2> DEFINE v == req[p].user
             r == [pc |-> "update_inval", user |-> v]
  <2>1. v \in UserIDs
    BY <1>4, RequestUser DEF UpdateSelect, Idle
  <2>2. r \in Requests /\ r.pc # "get_set"
    BY <2>1, WaitingType
  <2>3. UNCHANGED <<rows, cache>> /\ (Goto(p, r) \/ Goto(p, Idle))
    BY <1>4 DEF UpdateSelect
  <2> HIDE DEF r
  <2> QED
    BY <1>1, <2>2, <2>3, IdleType
<1>5. CASE UpdateInval(p) \/ DeleteInval(p) \/ Expire(u)
  <2>1. PICK v \in UserIDs : Drop(v)
    BY <1>5, RequestUser DEF UpdateInval, DeleteInval, Expire, Idle
  <2>2. UNCHANGED rows /\ (UNCHANGED req \/ Goto(p, Idle))
    BY <1>5 DEF UpdateInval, DeleteInval, Expire
  <2>3. \A i \in UserIDs : Copies(i)' \subseteq Copies(i)
    BY <2>1, <2>2 DEF TypeOK, Copies, At, Idle, Drop, Goto
  <2> QED
    BY <2>2, <2>3, ForgetStep
<1>6. CASE Fail(p)
  BY <1>1, <1>6, IdleType DEF Fail
<1> QED
  BY <1>2, <1>3, <1>4, <1>5, <1>6

(* UserService implements UserDirectory, for any number of users and of       *)
(* requests at once: GetUser only ever answers with a user as he was, and     *)
(* nothing brings a deleted user back but copies made before.                 *)
THEOREM DirectoryImplemented == Spec => ImplementsDirectory
<1>1. Init => Directory!Init
  BY DEF Init, RowsInit, Directory!Init, Standing, Live, Copies, At, Idle
<1>2. TypeOK /\ TypeOK' /\ [Next]_vars => [Directory!Next]_(Directory!dvars)
  <2> SUFFICES ASSUME TypeOK, TypeOK', [Next]_vars
               PROVE  [Directory!Next]_(Directory!dvars)
    OBVIOUS
  <2>1. ASSUME NEW p \in Procs, NEW u \in UserIDs, GetMiss(p, u) \/ Write(p, u)
        PROVE  Directory!Next
    BY <2>1, OtherStepsForget, CreateUserCreates, WriteChanges DEF Write, Directory!Next
  <2>2. ASSUME NEW p \in Procs, Continue(p) \/ Fail(p)
        PROVE  Directory!Next
    <3>1. CASE GetSelect(p)
      BY <3>1, GetSelectReads
    <3>2. CASE GetSet(p) \/ UpdateSelect(p) \/ UpdateInval(p) \/ DeleteInval(p) \/ Fail(p)
      <4>1. PICK u \in UserIDs : u = req[p].user
        BY <3>2, RequestUser DEF GetSet, UpdateSelect, UpdateInval, DeleteInval, Fail, Idle
      <4> QED
        BY <3>2, OtherStepsForget DEF Directory!Next
    <3> QED
      BY <2>2, <3>1, <3>2 DEF Continue
  <2>3. ASSUME NEW u \in UserIDs, Expire(u)
        PROVE  Directory!Next
    <3>1. CASE Procs # {}
      BY <2>3, <3>1, OtherStepsForget DEF Directory!Next
    <3>2. CASE Procs = {}
      BY <2>3, <3>2, ForgetStep DEF Expire, Drop, Copies, TypeOK, Directory!Next
    <3> QED
      BY <3>1, <3>2
  <2>4. CASE UNCHANGED vars
    BY <2>4 DEF vars, Directory!dvars, Standing, Live, ViewOf, Copies, At
  <2> QED
    BY <2>1, <2>2, <2>3, <2>4 DEF Next
<1> QED
  BY <1>1, <1>2, TypeCorrect, PTL DEF Spec, ImplementsDirectory, Directory!Spec
=============================================================================
