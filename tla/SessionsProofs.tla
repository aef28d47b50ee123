--------------------------- MODULE SessionsProofs ---------------------------
(* Safety of Sessions for every set of users, ids and goroutines and every   *)
(* session lifetime.                                                         *)
EXTENDS Sessions, TLAPS

LEMMA NoExpiryValue == NoExpiry = -1
  BY DEF NoExpiry

LEMMA AgedType == \A l \in Left : Aged(l) \in Left /\ (l <= 0 => Aged(l) <= 0)
  BY SessionTTLAssumption DEF Aged, Left

(* What ageing does to one key: it disappears, or it keeps its user and its  *)
(* active flag and its TTL stays positive, or absent.                        *)
LEMMA AgedEntryType ==
  ASSUME NEW e \in Entry \cup {NoKey}
  PROVE  /\ AgedEntry(e) \in Entry \cup {NoKey}
         /\ AgedEntry(e) # NoKey =>
              /\ e \in Entry
              /\ AgedEntry(e).user = e.user
              /\ AgedEntry(e).active = e.active
              /\ AgedEntry(e).left = Aged(e.left)
              /\ e.ttl = NoExpiry => AgedEntry(e).ttl = NoExpiry
              /\ e.ttl # NoExpiry => e.ttl > 1 /\ AgedEntry(e).ttl = e.ttl - 1
<1>1. CASE e = NoKey \/ e.ttl = 1
  BY <1>1 DEF AgedEntry
<1>2. CASE ~(e = NoKey \/ e.ttl = 1)
  <2>1. e \in Entry /\ e.ttl # 1
    BY <1>2
  <2>2. e.left \in Left /\ Aged(e.left) \in Left
    BY <2>1, AgedType DEF Entry
  <2>3. e.ttl = NoExpiry \/ (e.ttl \in 2 .. SessionTTL /\ e.ttl - 1 \in 1 .. SessionTTL)
    BY <2>1, SessionTTLAssumption DEF Entry, NoExpiry
  <2> DEFINE f == [user |-> e.user, active |-> e.active, left |-> Aged(e.left),
                   ttl |-> IF e.ttl = NoExpiry THEN NoExpiry ELSE e.ttl - 1]
  <2>4. AgedEntry(e) = f
    BY <1>2 DEF AgedEntry
  <2>6. f \in Entry
    BY <2>1, <2>2, <2>3, SessionTTLAssumption DEF Entry, NoExpiry
  <2>7. e.ttl # NoExpiry => e.ttl > 1
    BY <2>3, SessionTTLAssumption
  <2> QED
    BY <2>1, <2>4, <2>6, <2>7
<1> QED
  BY <1>1, <1>2

LEMMA AgedRequestType ==
  ASSUME NEW r \in Requests
  PROVE  /\ AgedRequest(r) \in Requests
         /\ AgedRequest(r).pc = r.pc
         /\ r \in Writes => AgedRequest(r).id = r.id /\ AgedRequest(r).user = r.user
         /\ r.pc \notin {"create_set", "refresh_set", "revoke_set"} => AgedRequest(r) = r
<1>1. CASE r \in Writes
  <2>1. r.left \in Left /\ Aged(r.left) \in Left
    BY <1>1, AgedType DEF Writes, CreateSets, RefreshSets, RevokeSets, Write
  <2>2. AgedRequest(r) = [r EXCEPT !.left = Aged(@)]
    BY <1>1 DEF AgedRequest, Writes, CreateSets, RefreshSets, RevokeSets, Write
  <2> QED
    BY <1>1, <2>1, <2>2 DEF Requests, Writes, CreateSets, RefreshSets, RevokeSets, Write
<1>2. CASE r \notin Writes
  BY <1>2 DEF AgedRequest, Requests, Writes, CreateSets, RefreshSets, RevokeSets, Write,
              Idle, CreateSAdds, LogoutAlls, Lists, ListSRems, Walk
<1> QED
  BY <1>1, <1>2

(* The fields a goroutine in each place of its operation holds.              *)
LEMMA RequestFields ==
  ASSUME NEW r \in Requests
  PROVE  /\ r.pc \in {"create_set", "refresh_set", "revoke_set"} =>
              r.id \in SessionIDs /\ r.user \in Users /\ r.left \in Left
         /\ r.pc = "create_sadd" => r.id \in SessionIDs /\ r.user \in Users
         /\ r.pc = "logout_all" => r \in LogoutAlls
         /\ r.pc = "list" => r \in Lists
         /\ r.pc = "list_srem" => r \in ListSRems
  BY DEF Requests, Writes, CreateSets, RefreshSets, RevokeSets, Write,
         Idle, CreateSAdds, LogoutAlls, Lists, ListSRems, Walk

-----------------------------------------------------------------------------
(* A goroutine that moves to a place other than Refresh's SET refreshes      *)
(* nothing that was not already being refreshed.                             *)
LEMMA GotoElsewhere ==
  ASSUME TypeOK, NEW p \in Procs, NEW r \in Requests, r.pc # "refresh_set", Goto(p, r)
  PROVE  /\ req' \in [Procs -> Requests]
         /\ \A id \in SessionIDs : Refreshing(id)' => Refreshing(id)
  BY DEF TypeOK, Goto, Refreshing

(* The inductive invariant: what was ended without a race is not usable and   *)
(* nothing is about to write it back.                                        *)
EndedNotRefreshing ==
    \A id \in SessionIDs : fate[id] = "ended" => ~Usable(id) /\ ~Refreshing(id)

Inv == TypeOK /\ EndedNotRefreshing /\ KeyOutlivesSession

(* Steps that write neither a key nor a fate, and start no refresh.          *)
LEMMA QuietStep ==
  ASSUME Inv, NEW p \in Procs, NEW r \in Requests, r.pc # "refresh_set", Goto(p, r),
         UNCHANGED <<store, fate>>, tracked' \in [Users -> SUBSET SessionIDs]
  PROVE  Inv'
<1>1. req' \in [Procs -> Requests] /\ \A id \in SessionIDs : Refreshing(id)' => Refreshing(id)
  BY GotoElsewhere DEF Inv
<1>2. TypeOK'
  BY <1>1 DEF Inv, TypeOK
<1>3. EndedNotRefreshing'
  BY <1>1 DEF Inv, EndedNotRefreshing, Usable
<1>4. KeyOutlivesSession'
  BY DEF Inv, KeyOutlivesSession
<1> QED
  BY <1>2, <1>3, <1>4 DEF Inv

(* Steps that end a session: its key goes, or becomes an inactive one.       *)
LEMMA EndStep ==
  ASSUME Inv, NEW id \in SessionIDs, NEW e \in Entry \cup {NoKey},
         e # NoKey => /\ ~e.active
                      /\ e.ttl = NoExpiry => e.left <= 0
                      /\ e.ttl # NoExpiry => e.ttl >= e.left,
         store' = [store EXCEPT ![id] = e], End(id),
         req' \in [Procs -> Requests],
         \A i \in SessionIDs : Refreshing(i)' => Refreshing(i),
         UNCHANGED tracked
  PROVE  Inv'
<1>1. TypeOK'
  <2>1. fate' \in [SessionIDs -> Fates]
    BY DEF Inv, TypeOK, End, Fates
  <2>2. store' \in [SessionIDs -> Entry \cup {NoKey}]
    BY DEF Inv, TypeOK
  <2> QED
    BY <2>1, <2>2 DEF Inv, TypeOK
<1>2. EndedNotRefreshing'
  <2> SUFFICES ASSUME NEW i \in SessionIDs, fate'[i] = "ended"
               PROVE  ~Usable(i)' /\ ~Refreshing(i)'
    BY DEF EndedNotRefreshing
  <2>1. CASE i = id
    <3>1. ~Refreshing(id)
      BY <2>1 DEF Inv, TypeOK, End
    <3>2. store'[i] = e
      BY <2>1 DEF Inv, TypeOK
    <3> QED
      BY <2>1, <3>1, <3>2 DEF Usable
  <2>2. CASE i # id
    <3>1. fate[i] = "ended" /\ store'[i] = store[i]
      BY <2>2 DEF Inv, TypeOK, End
    <3> QED
      BY <3>1 DEF Inv, EndedNotRefreshing, Usable
  <2> QED
    BY <2>1, <2>2
<1>3. KeyOutlivesSession'
  <2> SUFFICES ASSUME NEW i \in SessionIDs, store'[i] # NoKey
               PROVE  IF store'[i].ttl = NoExpiry
                      THEN ~store'[i].active /\ store'[i].left <= 0
                      ELSE store'[i].ttl >= store'[i].left
    BY DEF KeyOutlivesSession
  <2>1. CASE i = id
    <3>1. store'[i] = e
      BY <2>1 DEF Inv, TypeOK
    <3> QED
      BY <3>1
  <2>2. CASE i # id
    <3>1. store'[i] = store[i]
      BY <2>2 DEF Inv, TypeOK
    <3> QED
      BY <3>1 DEF Inv, KeyOutlivesSession
  <2> QED
    BY <2>1, <2>2
<1> QED
  BY <1>1, <1>2, <1>3 DEF Inv

-----------------------------------------------------------------------------
LEMMA InitInv == Init => Inv
<1> SUFFICES ASSUME Init PROVE Inv
  OBVIOUS
<1>1. TypeOK
  BY DEF Init, TypeOK, Requests, Idle, Fates
<1>2. EndedNotRefreshing /\ KeyOutlivesSession
  BY DEF Init, EndedNotRefreshing, KeyOutlivesSession
<1> QED
  BY <1>1, <1>2 DEF Inv

LEMMA StutterInv == Inv /\ UNCHANGED vars => Inv'
<1> SUFFICES ASSUME Inv, UNCHANGED vars PROVE Inv'
  OBVIOUS
<1>1. TypeOK'
  BY DEF Inv, TypeOK, vars
<1>2. EndedNotRefreshing'
  BY DEF Inv, EndedNotRefreshing, vars, Usable, Refreshing
<1>3. KeyOutlivesSession'
  BY DEF Inv, KeyOutlivesSession, vars
<1> QED
  BY <1>1, <1>2, <1>3 DEF Inv

(* Time makes no session usable, and gives none to another user.             *)
LEMMA TickUsable ==
  ASSUME TypeOK, Tick, NEW id \in SessionIDs, Usable(id)'
  PROVE  Usable(id) /\ store'[id].user = store[id].user
<1>1. store[id] \in Entry \cup {NoKey} /\ store'[id] = AgedEntry(store[id])
  BY DEF TypeOK, Tick
<1>2. /\ store[id] \in Entry
      /\ store'[id].user = store[id].user
      /\ store'[id].active = store[id].active
      /\ store'[id].left = Aged(store[id].left)
  BY <1>1, AgedEntryType DEF Usable
<1>3. store[id].left \in Left /\ Aged(store[id].left) >= 0
  BY <1>2 DEF Entry, Usable
<1>4. store[id].left >= 0
  BY <1>3, SessionTTLAssumption DEF Aged, Left
<1> QED
  BY <1>2, <1>4, NoKeyAssumption DEF Usable

LEMMA TickInv == Inv /\ Tick => Inv'
<1> SUFFICES ASSUME Inv, Tick PROVE Inv'
  OBVIOUS
<1>1. TypeOK'
  <2>1. store' \in [SessionIDs -> Entry \cup {NoKey}]
    BY AgedEntryType DEF Inv, TypeOK, Tick
  <2>2. req' \in [Procs -> Requests]
    BY AgedRequestType DEF Inv, TypeOK, Tick
  <2> QED
    BY <2>1, <2>2 DEF Inv, TypeOK, Tick
<1>2. \A id \in SessionIDs : Refreshing(id)' => Refreshing(id)
  <2> SUFFICES ASSUME NEW id \in SessionIDs, NEW p \in Procs,
                      req'[p].pc = "refresh_set", req'[p].id = id
               PROVE  req[p].pc = "refresh_set" /\ req[p].id = id
    BY DEF Refreshing
  <2>1. req[p] \in Requests /\ req'[p] = AgedRequest(req[p])
    BY DEF Inv, TypeOK, Tick
  <2>2. req[p].pc = "refresh_set"
    BY <2>1, AgedRequestType
  <2>3. req[p] \in Writes
    BY <2>1, <2>2 DEF Requests, Writes, CreateSets, RefreshSets, RevokeSets, Write,
                      Idle, CreateSAdds, LogoutAlls, Lists, ListSRems, Walk
  <2> QED
    BY <2>1, <2>2, <2>3, AgedRequestType
<1>3. \A id \in SessionIDs : Usable(id)' => Usable(id)
  BY TickUsable DEF Inv
<1>4. EndedNotRefreshing'
  BY <1>2, <1>3 DEF Inv, EndedNotRefreshing, Tick
<1>5. KeyOutlivesSession'
  <2> SUFFICES ASSUME NEW id \in SessionIDs, store'[id] # NoKey
               PROVE  IF store'[id].ttl = NoExpiry
                      THEN ~store'[id].active /\ store'[id].left <= 0
                      ELSE store'[id].ttl >= store'[id].left
    BY DEF KeyOutlivesSession
  <2> DEFINE e == store[id]
  <2>1. e \in Entry \cup {NoKey} /\ store'[id] = AgedEntry(e)
    BY DEF Inv, TypeOK, Tick
  <2>2. /\ e \in Entry
        /\ store'[id].active = e.active
        /\ store'[id].left = Aged(e.left)
        /\ e.ttl = NoExpiry => store'[id].ttl = NoExpiry
        /\ e.ttl # NoExpiry => e.ttl > 1 /\ store'[id].ttl = e.ttl - 1
    BY <2>1, AgedEntryType
  <2>3. /\ e.left \in Left
        /\ e.ttl \in {NoExpiry} \cup 1 .. SessionTTL
    BY <2>2 DEF Entry
  <2>4. IF e.ttl = NoExpiry THEN ~e.active /\ e.left <= 0 ELSE e.ttl >= e.left
    BY <2>2, NoKeyAssumption DEF Inv, KeyOutlivesSession
  <2>5. CASE e.ttl = NoExpiry
    BY <2>2, <2>3, <2>4, <2>5, AgedType
  <2>6. CASE e.ttl # NoExpiry
    <3> HIDE DEF e
    <3>1. e.ttl - 1 >= Aged(e.left) /\ e.ttl - 1 # NoExpiry
      BY <2>2, <2>3, <2>4, <2>6, SessionTTLAssumption DEF Aged, Left, NoExpiry
    <3> QED
      BY <2>2, <2>6, <3>1
  <2> QED
    BY <2>5, <2>6
<1> QED
  BY <1>1, <1>4, <1>5 DEF Inv

-----------------------------------------------------------------------------
(* A refresh may write back only an id that was usable when it read it.      *)
LEMMA RefreshGetInv ==
  ASSUME Inv, NEW p \in Procs, NEW id \in SessionIDs, RefreshGet(p, id)
  PROVE  Inv'
<1> DEFINE r == [pc |-> "refresh_set", id |-> id, user |-> store[id].user, left |-> SessionTTL]
<1>1. store[id] \in Entry /\ fate[id] # "ended"
  BY DEF Inv, TypeOK, RefreshGet, Usable, EndedNotRefreshing
<1>2. r \in Requests
  BY <1>1, SessionTTLAssumption
     DEF Entry, Requests, Writes, CreateSets, RefreshSets, RevokeSets, Write, Left
<1>3. req' = [req EXCEPT ![p] = r] /\ UNCHANGED <<store, tracked, fate>>
  BY DEF RefreshGet, Goto
<1> HIDE DEF r
<1>4. TypeOK'
  BY <1>2, <1>3 DEF Inv, TypeOK
<1>5. EndedNotRefreshing'
  <2> SUFFICES ASSUME NEW i \in SessionIDs, fate[i] = "ended"
               PROVE  ~Usable(i) /\ ~Refreshing(i)'
    BY <1>3 DEF EndedNotRefreshing, Usable
  <2>1. ~Usable(i) /\ ~Refreshing(i) /\ i # id
    BY <1>1 DEF Inv, EndedNotRefreshing
  <2>2. ~Refreshing(i)'
    BY <1>3, <2>1 DEF r, Refreshing, Inv, TypeOK
  <2> QED
    BY <2>1, <2>2
<1>6. KeyOutlivesSession'
  BY <1>3 DEF Inv, KeyOutlivesSession
<1> QED
  BY <1>4, <1>5, <1>6 DEF Inv

LEMMA RefreshSetInv ==
  ASSUME Inv, NEW p \in Procs, RefreshSet(p)
  PROVE  Inv'
<1> DEFINE r == req[p]
           e == [user |-> r.user, active |-> TRUE, left |-> r.left, ttl |-> SessionTTL]
<1>1. r \in Requests /\ r.pc = "refresh_set"
  BY DEF Inv, TypeOK, RefreshSet
<1>2. r.id \in SessionIDs /\ r.user \in Users /\ r.left \in Left
  BY <1>1, RequestFields
<1>3. e \in Entry /\ e.ttl >= e.left /\ e.ttl # NoExpiry
  BY <1>2, SessionTTLAssumption DEF Entry, Left, NoExpiry
<1>4. /\ store' = [store EXCEPT ![r.id] = e]
      /\ Goto(p, Idle)
      /\ UNCHANGED <<tracked, fate>>
  BY DEF RefreshSet, Put
<1>5. fate[r.id] # "ended"
  BY <1>1, <1>2 DEF Inv, EndedNotRefreshing, Refreshing
<1>6. Idle \in Requests /\ Idle.pc # "refresh_set"
  BY DEF Idle, Requests
<1>7. req' \in [Procs -> Requests] /\ \A i \in SessionIDs : Refreshing(i)' => Refreshing(i)
  BY <1>4, <1>6, GotoElsewhere DEF Inv
<1> HIDE DEF r, e
<1>8. TypeOK'
  BY <1>3, <1>4, <1>7 DEF Inv, TypeOK
<1>9. EndedNotRefreshing'
  BY <1>4, <1>5, <1>7 DEF Inv, TypeOK, EndedNotRefreshing, Usable
<1>10. KeyOutlivesSession'
  BY <1>3, <1>4 DEF Inv, TypeOK, KeyOutlivesSession
<1> QED
  BY <1>8, <1>9, <1>10 DEF Inv

LEMMA CreateSetInv ==
  ASSUME Inv, NEW p \in Procs, CreateSet(p)
  PROVE  Inv'
<1> DEFINE r == req[p]
           e == [user |-> r.user, active |-> TRUE, left |-> r.left, ttl |-> SessionTTL]
           n == [pc |-> "create_sadd", id |-> r.id, user |-> r.user]
<1>1. r \in Requests /\ r.pc = "create_set"
  BY DEF Inv, TypeOK, CreateSet
<1>2. r.id \in SessionIDs /\ r.user \in Users /\ r.left \in Left
  BY <1>1, RequestFields
<1>3. e \in Entry /\ e.ttl >= e.left /\ e.ttl # NoExpiry
  BY <1>2, SessionTTLAssumption DEF Entry, Left, NoExpiry
<1>4. /\ store' = [store EXCEPT ![r.id] = e]
      /\ fate' = [fate EXCEPT ![r.id] = "open"]
      /\ Goto(p, n)
      /\ UNCHANGED tracked
  BY DEF CreateSet, Put
<1>5. n \in Requests /\ n.pc # "refresh_set"
  BY <1>2 DEF Requests, CreateSAdds
<1>6. req' \in [Procs -> Requests] /\ \A i \in SessionIDs : Refreshing(i)' => Refreshing(i)
  BY <1>4, <1>5, GotoElsewhere DEF Inv
<1> HIDE DEF r, e, n
<1>7. TypeOK'
  BY <1>3, <1>4, <1>6 DEF Inv, TypeOK, Fates
<1>8. EndedNotRefreshing'
  BY <1>4, <1>6 DEF Inv, TypeOK, EndedNotRefreshing, Usable
<1>9. KeyOutlivesSession'
  BY <1>3, <1>4 DEF Inv, TypeOK, KeyOutlivesSession
<1> QED
  BY <1>7, <1>8, <1>9 DEF Inv

LEMMA RevokeSetInv ==
  ASSUME Inv, NEW p \in Procs, RevokeSet(p)
  PROVE  Inv'
<1> DEFINE r == req[p]
           e == [user |-> r.user, active |-> FALSE, left |-> r.left, ttl |-> RevokeTTL(r.left)]
<1>1. r \in Requests /\ r.pc = "revoke_set"
  BY DEF Inv, TypeOK, RevokeSet
<1>2. r.id \in SessionIDs /\ r.user \in Users /\ r.left \in Left
  BY <1>1, RequestFields
<1>3. e \in Entry
  BY <1>2, SessionTTLAssumption DEF Entry, Left, NoExpiry, RevokeTTL
<1>4. ~e.active /\ (e.ttl = NoExpiry => e.left <= 0) /\ (e.ttl # NoExpiry => e.ttl >= e.left)
  BY <1>2, SessionTTLAssumption DEF Left, NoExpiry, RevokeTTL
<1>5. store' = [store EXCEPT ![r.id] = e] /\ End(r.id) /\ Goto(p, Idle) /\ UNCHANGED tracked
  BY DEF RevokeSet, Put
<1>6. Idle \in Requests /\ Idle.pc # "refresh_set"
  BY DEF Idle, Requests
<1>7. req' \in [Procs -> Requests] /\ \A i \in SessionIDs : Refreshing(i)' => Refreshing(i)
  BY <1>5, <1>6, GotoElsewhere DEF Inv
<1> HIDE DEF r, e
<1> QED
  BY <1>2, <1>3, <1>4, <1>5, <1>7, EndStep

LEMMA LogoutAllDelInv ==
  ASSUME Inv, NEW p \in Procs, NEW id \in SessionIDs, LogoutAllDel(p, id)
  PROVE  Inv'
<1> DEFINE n == [req[p] EXCEPT !.todo = @ \ {id}]
<1>1. req[p] \in LogoutAlls
  BY RequestFields DEF Inv, TypeOK, LogoutAllDel
<1>2. n \in Requests /\ n.pc # "refresh_set"
  BY <1>1 DEF LogoutAlls, Walk, Requests
<1>3. Goto(p, n) /\ UNCHANGED tracked
  BY DEF LogoutAllDel
<1> HIDE DEF n
<1>4. req' \in [Procs -> Requests] /\ \A i \in SessionIDs : Refreshing(i)' => Refreshing(i)
  BY <1>2, <1>3, GotoElsewhere DEF Inv
<1>5. CASE store' = [store EXCEPT ![id] = NoKey] /\ End(id)
  BY <1>3, <1>4, <1>5, EndStep
<1>6. CASE UNCHANGED <<store, fate>>
  <2>1. tracked' \in [Users -> SUBSET SessionIDs]
    BY <1>3 DEF Inv, TypeOK
  <2> QED
    BY <1>2, <1>3, <1>6, <2>1, QuietStep
<1> QED
  BY <1>5, <1>6 DEF LogoutAllDel

(* Every action, and the stuttering step.                                    *)
LEMMA StepInv == Inv /\ [Next]_vars => Inv'
<1> SUFFICES ASSUME Inv, [Next]_vars PROVE Inv'
  OBVIOUS
<1> USE DEF Inv, TypeOK
<1>i. Idle \in Requests /\ Idle.pc # "refresh_set"
  BY DEF Idle, Requests
<1>1. ASSUME NEW p \in Procs, NEW u \in Users, CreateStart(p, u) PROVE Inv'
  <2>1. PICK id \in SessionIDs :
           Goto(p, [pc |-> "create_set", id |-> id, user |-> u, left |-> SessionTTL])
    BY <1>1 DEF CreateStart
  <2>2. [pc |-> "create_set", id |-> id, user |-> u, left |-> SessionTTL] \in Requests
    BY SessionTTLAssumption DEF Requests, Writes, CreateSets, Write, Left
  <2> QED
    BY <1>1, <2>1, <2>2, QuietStep DEF CreateStart
<1>2. ASSUME NEW p \in Procs, NEW u \in Users, LogoutAllStart(p, u) PROVE Inv'
  <2>1. [pc |-> "logout_all", user |-> u, todo |-> tracked[u]] \in Requests
    BY DEF Requests, LogoutAlls, Walk
  <2> QED
    BY <1>2, <2>1, QuietStep DEF LogoutAllStart
<1>3. ASSUME NEW p \in Procs, NEW u \in Users, ListStart(p, u) PROVE Inv'
  <2>1. [pc |-> "list", user |-> u, todo |-> tracked[u]] \in Requests
    BY DEF Requests, Lists, Walk
  <2> QED
    BY <1>3, <2>1, QuietStep DEF ListStart
<1>4. ASSUME NEW p \in Procs, NEW id \in SessionIDs, Delete(p, id) PROVE Inv'
  BY <1>4, EndStep DEF Delete, Refreshing
<1>5. ASSUME NEW p \in Procs, NEW id \in SessionIDs, RevokeGet(p, id) PROVE Inv'
  <2>1. store[id] \in Entry
    BY <1>5 DEF RevokeGet, Usable
  <2>2. [pc |-> "revoke_set", id |-> id, user |-> store[id].user, left |-> store[id].left]
            \in Requests
    BY <2>1 DEF Requests, Writes, RevokeSets, Write, Entry
  <2> QED
    BY <1>5, <2>2, QuietStep DEF RevokeGet
<1>6. ASSUME NEW p \in Procs, NEW id \in SessionIDs, RefreshGet(p, id) PROVE Inv'
  BY <1>6, RefreshGetInv
<1>7. ASSUME NEW p \in Procs, CreateSet(p) PROVE Inv'
  BY <1>7, CreateSetInv
<1>8. ASSUME NEW p \in Procs, CreateSAdd(p) PROVE Inv'
  <2>1. req[p].id \in SessionIDs /\ req[p].user \in Users
    BY <1>8, RequestFields DEF CreateSAdd
  <2>2. tracked' \in [Users -> SUBSET SessionIDs]
    BY <1>8, <2>1 DEF CreateSAdd
  <2> QED
    BY <1>8, <1>i, <2>2, QuietStep DEF CreateSAdd
<1>9. ASSUME NEW p \in Procs, RevokeSet(p) PROVE Inv'
  BY <1>9, RevokeSetInv
<1>10. ASSUME NEW p \in Procs, RefreshSet(p) PROVE Inv'
  BY <1>10, RefreshSetInv
<1>11. ASSUME NEW p \in Procs, NEW id \in SessionIDs, LogoutAllDel(p, id) PROVE Inv'
  BY <1>11, LogoutAllDelInv
<1>12. ASSUME NEW p \in Procs, NEW id \in SessionIDs, ListGet(p, id) PROVE Inv'
  <2> DEFINE n == [req[p] EXCEPT !.todo = req[p].todo \ {id}]
             m == [pc |-> "list_srem", id |-> id, user |-> req[p].user,
                   todo |-> req[p].todo \ {id}]
  <2>1. req[p] \in Lists
    BY <1>12, RequestFields DEF ListGet
  <2>2. n \in Requests /\ n.pc # "refresh_set"
    BY <2>1 DEF Lists, Walk, Requests
  <2>3. m \in Requests /\ m.pc # "refresh_set"
    BY <2>1 DEF Lists, Walk, ListSRems, Requests
  <2>4. Goto(p, n) \/ Goto(p, m)
    BY <1>12 DEF ListGet
  <2> QED
    BY <1>12, <2>2, <2>3, <2>4, QuietStep DEF ListGet
<1>13. ASSUME NEW p \in Procs, LogoutAllUnset(p) PROVE Inv'
  <2>1. req[p].user \in Users
    BY <1>13, RequestFields DEF LogoutAllUnset, LogoutAlls, Walk
  <2>2. tracked' \in [Users -> SUBSET SessionIDs]
    BY <1>13, <2>1 DEF LogoutAllUnset
  <2> QED
    BY <1>13, <1>i, <2>2, QuietStep DEF LogoutAllUnset
<1>14. ASSUME NEW p \in Procs, ListSRem(p) PROVE Inv'
  <2> DEFINE n == [pc |-> "list", user |-> req[p].user, todo |-> req[p].todo]
  <2>1. req[p] \in ListSRems
    BY <1>14, RequestFields DEF ListSRem
  <2>2. n \in Requests /\ n.pc # "refresh_set"
    BY <2>1 DEF Lists, Walk, ListSRems, Requests
  <2>3. tracked' \in [Users -> SUBSET SessionIDs]
    BY <1>14, <2>1 DEF ListSRem, ListSRems
  <2> QED
    BY <1>14, <2>2, <2>3, QuietStep DEF ListSRem
<1>15. ASSUME NEW p \in Procs, ListDone(p) PROVE Inv'
  BY <1>15, <1>i, QuietStep DEF ListDone
<1>16. ASSUME NEW p \in Procs, Fail(p) PROVE Inv'
  BY <1>16, <1>i, QuietStep DEF Fail
<1>17. CASE Tick
  BY <1>17, TickInv
<1>18. CASE UNCHANGED vars
  BY <1>18, StutterInv
<1> QED
  BY <1>1, <1>2, <1>3, <1>4, <1>5, <1>6, <1>7, <1>8, <1>9, <1>10, <1>11, <1>12, <1>13, <1>14,
     <1>15, <1>16, <1>17, <1>18 DEF Next, Start, Continue

(* The inductive invariant holds in every reachable state.                    *)
THEOREM SpecInv == Spec => []Inv
<1>1. Init => Inv
  BY InitInv
<1>2. Inv /\ [Next]_vars => Inv'
  BY StepInv
<1> QED
  BY <1>1, <1>2, PTL DEF Spec

-----------------------------------------------------------------------------
(* Every reachable state has the declared types.                             *)
THEOREM TypeCorrect == Spec => []TypeOK
<1>1. Inv => TypeOK
  BY DEF Inv
<1> QED
  BY <1>1, SpecInv, PTL

(* A session that Delete, Revoke or logout-all ended, with no Refresh of it  *)
(* between GET and SET at that moment, is never accepted again by Get before *)
(* its id is issued anew, however operations interleave and fail.            *)
THEOREM EndedSessionsStayEnded == Spec => []EndedStaysEnded
<1>1. Inv => EndedStaysEnded
  BY DEF Inv, EndedNotRefreshing, EndedStaysEnded
<1> QED
  BY <1>1, SpecInv, PTL

(* No key disappears before the ExpiresAt of the session in it, and only a   *)
(* revoked session can be left under a key without expiry.                   *)
THEOREM KeysOutliveSessions == Spec => []KeyOutlivesSession
<1>1. Inv => KeyOutlivesSession
  BY DEF Inv
<1> QED
  BY <1>1, SpecInv, PTL

-----------------------------------------------------------------------------
(* One goroutine p alone, whose commands do not fail.  Every usable session  *)
(* is in its user's set, but for the one Create is about to put there; what  *)
(* Refresh holds is in the set it was read from; logout-all still has all    *)
(* usable sessions of its user ahead; and ListForUser takes out no usable    *)
(* one.                                                                      *)
Alone(p) ==
    LET q == req[p] IN
    /\ \A id \in SessionIDs : Usable(id) =>
          \/ id \in tracked[store[id].user]
          \/ q.pc = "create_sadd" /\ q.id = id /\ q.user = store[id].user
    /\ q.pc = "refresh_set" => q.id \in tracked[q.user]
    /\ q.pc = "logout_all" =>
          \A id \in SessionIDs : Usable(id) /\ store[id].user = q.user => id \in q.todo
    /\ q.pc = "list_srem" => ~Usable(q.id)

LEMMA AloneInit ==
  ASSUME NEW p \in Procs, Init
  PROVE  Alone(p)
  BY DEF Init, Alone, Usable, Idle

LEMMA AloneTick ==
  ASSUME TypeOK, NEW p \in Procs, Alone(p), Tick
  PROVE  Alone(p)'
<1>1. req[p] \in Requests /\ req'[p] = AgedRequest(req[p]) /\ tracked' = tracked
  BY DEF TypeOK, Tick
<1>2. /\ req'[p].pc = req[p].pc
      /\ req[p].pc = "refresh_set" => req'[p].id = req[p].id /\ req'[p].user = req[p].user
      /\ req[p].pc \in {"create_sadd", "logout_all", "list_srem"} => req'[p] = req[p]
  <2>1. req[p].pc = "refresh_set" => req[p] \in Writes
    BY <1>1 DEF Requests, Writes, CreateSets, RefreshSets, RevokeSets, Write,
                Idle, CreateSAdds, LogoutAlls, Lists, ListSRems, Walk
  <2> QED
    BY <1>1, <2>1, AgedRequestType
<1>3. \A id \in SessionIDs : Usable(id)' => Usable(id) /\ store'[id].user = store[id].user
  BY TickUsable
<1>4. req[p].pc = "list_srem" => req[p].id \in SessionIDs
  BY <1>1, RequestFields DEF ListSRems
<1> QED
  BY <1>1, <1>2, <1>3, <1>4 DEF Alone

LEMMA AloneStart ==
  ASSUME TypeOK, NEW p \in Procs, Alone(p), Start(p)
  PROVE  Alone(p)'
<1>1. req[p].pc = "idle" \/ req[p] = Idle
  BY DEF Start, CreateStart, LogoutAllStart, ListStart, Delete, RevokeGet, RefreshGet
<1>2. req[p].pc = "idle" /\ \A id \in SessionIDs : Usable(id) => id \in tracked[store[id].user]
  BY <1>1 DEF Alone, Idle
<1>3. ASSUME NEW u \in Users, CreateStart(p, u) PROVE Alone(p)'
  BY <1>2, <1>3 DEF CreateStart, Goto, TypeOK, Alone, Usable
<1>4. ASSUME NEW u \in Users, LogoutAllStart(p, u) \/ ListStart(p, u) PROVE Alone(p)'
  BY <1>2, <1>4 DEF LogoutAllStart, ListStart, Goto, TypeOK, Alone, Usable
<1>5. ASSUME NEW id \in SessionIDs, Delete(p, id) PROVE Alone(p)'
  <2>1. \A i \in SessionIDs : Usable(i)' => Usable(i) /\ store'[i] = store[i]
    BY <1>5 DEF Delete, TypeOK, Usable
  <2> QED
    BY <1>2, <1>5, <2>1 DEF Delete, Alone
<1>6. ASSUME NEW id \in SessionIDs, RevokeGet(p, id) \/ RefreshGet(p, id) PROVE Alone(p)'
  BY <1>2, <1>6 DEF RevokeGet, RefreshGet, Goto, TypeOK, Alone, Usable
<1> QED
  BY <1>3, <1>4, <1>5, <1>6 DEF Start

LEMMA AloneContinue ==
  ASSUME TypeOK, NEW p \in Procs, Alone(p), ~Faulty, Continue(p)
  PROVE  Alone(p)'
<1> DEFINE q == req[p]
<1>1. q \in Requests
  BY DEF TypeOK
<1>2. CASE CreateSet(p) \/ RefreshSet(p) \/ RevokeSet(p)
  <2>1. q.id \in SessionIDs /\ q.user \in Users
    BY <1>1, <1>2, RequestFields DEF CreateSet, RefreshSet, RevokeSet
  <2>2. /\ \A id \in SessionIDs : id # q.id => store'[id] = store[id]
        /\ store'[q.id].user = q.user /\ tracked' = tracked
        /\ RevokeSet(p) => ~store'[q.id].active
    BY <1>2, <2>1 DEF CreateSet, RefreshSet, RevokeSet, Put, TypeOK
  <2>3. IF CreateSet(p)
        THEN req'[p] = [pc |-> "create_sadd", id |-> q.id, user |-> q.user]
        ELSE req'[p] = Idle
    BY <1>2 DEF CreateSet, RefreshSet, RevokeSet, Goto, TypeOK
  <2>4. RefreshSet(p) => q.id \in tracked[q.user]
    BY DEF RefreshSet, Alone
  <2>5. q.pc # "create_sadd"
    BY <1>2 DEF CreateSet, RefreshSet, RevokeSet
  <2>6. \A id \in SessionIDs : id # q.id /\ Usable(id)' => id \in tracked'[store'[id].user]
    BY <2>2, <2>5 DEF Alone, Usable
  <2>7. CASE CreateSet(p)
    BY <2>2, <2>3, <2>6, <2>7 DEF Alone
  <2>8. CASE ~CreateSet(p)
    <3>1. PICK k \in SessionIDs : k = q.id
      BY <2>1
    <3>2. store'[k].user = q.user /\ (RevokeSet(p) => ~Usable(k)')
      BY <2>2, <3>1 DEF Usable
    <3>3. Usable(k)' => k \in tracked'[store'[k].user]
      BY <1>2, <2>2, <2>4, <2>8, <3>1, <3>2
    <3>4. \A id \in SessionIDs : Usable(id)' => id \in tracked'[store'[id].user]
      BY <2>6, <3>1, <3>3
    <3>5. req'[p] = Idle
      BY <2>3, <2>8
    <3> QED
      BY <3>4, <3>5 DEF Alone, Idle
  <2> QED
    BY <2>7, <2>8
<1>3. CASE CreateSAdd(p)
  <2>1. q.id \in SessionIDs /\ q.user \in Users
    BY <1>1, <1>3, RequestFields DEF CreateSAdd
  <2>2. /\ tracked' = [tracked EXCEPT ![q.user] = @ \cup {q.id}]
        /\ req'[p] = Idle /\ store' = store
    BY <1>3 DEF CreateSAdd, Goto, TypeOK
  <2>3. \A id \in SessionIDs : Usable(id) => id \in tracked'[store[id].user]
    <3> SUFFICES ASSUME NEW id \in SessionIDs, Usable(id) PROVE id \in tracked'[store[id].user]
      OBVIOUS
    <3>1. store[id].user \in Users
      BY NoKeyAssumption DEF TypeOK, Usable, Entry
    <3> QED
      BY <2>1, <2>2, <3>1 DEF Alone, TypeOK
  <2> QED
    BY <2>2, <2>3 DEF Alone, Idle, Usable
<1>4. ASSUME NEW id \in SessionIDs, LogoutAllDel(p, id) PROVE Alone(p)'
  <2>1. /\ q \in LogoutAlls /\ req'[p] = [q EXCEPT !.todo = @ \ {id}]
        /\ store' = [store EXCEPT ![id] = NoKey] /\ tracked' = tracked
    BY <1>1, <1>4, RequestFields DEF LogoutAllDel, Goto, TypeOK
  <2>2. req'[p].pc = "logout_all" /\ req'[p].user = q.user /\ req'[p].todo = q.todo \ {id}
        /\ q.pc = "logout_all"
    BY <2>1 DEF LogoutAlls, Walk
  <2>3. \A i \in SessionIDs : Usable(i)' => i # id /\ Usable(i) /\ store'[i] = store[i]
    BY <2>1 DEF TypeOK, Usable
  <2> QED
    BY <2>1, <2>2, <2>3 DEF Alone
<1>5. CASE LogoutAllUnset(p)
  <2>1. /\ q.user \in Users /\ q.pc = "logout_all" /\ q.todo = {}
        /\ tracked' = [tracked EXCEPT ![q.user] = {}] /\ req'[p] = Idle /\ store' = store
    BY <1>1, <1>5, RequestFields DEF LogoutAllUnset, Goto, TypeOK, LogoutAlls, Walk
  <2>2. \A id \in SessionIDs : Usable(id) =>
           store[id].user # q.user /\ id \in tracked[store[id].user]
    BY <2>1 DEF Alone
  <2>3. \A u \in Users : u # q.user => tracked'[u] = tracked[u]
    BY <2>1 DEF TypeOK
  <2>4. \A id \in SessionIDs : Usable(id) => store[id].user \in Users
    BY NoKeyAssumption DEF TypeOK, Usable, Entry
  <2> QED
    BY <2>1, <2>2, <2>3, <2>4 DEF Alone, Idle, Usable
<1>6. ASSUME NEW id \in SessionIDs, ListGet(p, id) PROVE Alone(p)'
  <2>1. /\ q \in Lists /\ q.pc = "list" /\ UNCHANGED <<store, tracked>>
        /\ \/ req'[p].pc = "list"
           \/ req'[p].pc = "list_srem" /\ req'[p].id = id /\ ~Usable(id)
    BY <1>1, <1>6, RequestFields DEF ListGet, Goto, TypeOK, Lists, Walk
  <2> QED
    BY <2>1 DEF Alone, Usable
<1>7. CASE ListSRem(p)
  <2>1. /\ q \in ListSRems /\ q.pc = "list_srem"
        /\ tracked' = [tracked EXCEPT ![q.user] = @ \ {q.id}]
        /\ req'[p].pc = "list" /\ store' = store
    BY <1>1, <1>7, RequestFields DEF ListSRem, Goto, TypeOK
  <2>2. q.user \in Users /\ q.id \in SessionIDs /\ ~Usable(q.id)
    BY <2>1 DEF ListSRems, Alone
  <2>3. \A u \in Users, i \in SessionIDs : i # q.id /\ i \in tracked[u] => i \in tracked'[u]
    BY <2>1, <2>2 DEF TypeOK
  <2>4. \A id \in SessionIDs : Usable(id) => store[id].user \in Users
    BY NoKeyAssumption DEF TypeOK, Usable, Entry
  <2> QED
    BY <2>1, <2>2, <2>3, <2>4 DEF Alone, Usable
<1>8. CASE ListDone(p)
  <2>1. req'[p] = Idle /\ UNCHANGED <<store, tracked>> /\ q.pc = "list"
    BY <1>8 DEF ListDone, Goto, TypeOK
  <2> QED
    BY <2>1 DEF Alone, Usable, Idle
<1> QED
  BY <1>2, <1>3, <1>4, <1>5, <1>6, <1>7, <1>8 DEF Continue

LEMMA AloneInv ==
  ASSUME NEW g \in Procs, Procs = {g}, ~Faulty
  PROVE  Spec => []Alone(g)
<1>1. Init => Alone(g)
  BY AloneInit
<1>2. TypeOK /\ Alone(g) /\ [Next]_vars => Alone(g)'
  <2> SUFFICES ASSUME TypeOK, Alone(g), [Next]_vars PROVE Alone(g)'
    OBVIOUS
  <2>1. CASE Tick
    BY <2>1, AloneTick
  <2>2. CASE Start(g) \/ Continue(g)
    BY <2>2, AloneStart, AloneContinue
  <2>3. CASE UNCHANGED vars
    BY <2>3 DEF vars, Alone, Usable
  <2> QED
    BY <2>1, <2>2, <2>3 DEF Next, Fail
<1> QED
  BY <1>1, <1>2, TypeCorrect, PTL DEF Spec

(* Operations that run one at a time and do not fail leave every session     *)
(* that Get accepts in the set its user is logged out and listed from.       *)
THEOREM AloneTracked ==
  ASSUME NEW g \in Procs, Procs = {g}, ~Faulty
  PROVE  Spec => []TrackedWhenQuiet
<1>1. Alone(g) => TrackedWhenQuiet
  BY DEF Alone, TrackedWhenQuiet, Quiet, Idle
<1> QED
  BY <1>1, AloneInv, PTL

(* And a logout-all then leaves no session of its user accepted.             *)
THEOREM AloneLogoutAllEnds ==
  ASSUME NEW g \in Procs, Procs = {g}, ~Faulty
  PROVE  Spec => LogoutAllEndsAll
<1>1. Alone(g) /\ [Next]_vars =>
        [\A p \in Procs : LogoutAllUnset(p) =>
            \A id \in SessionIDs : Usable(id)' => store'[id].user # req[p].user]_vars
  <2> SUFFICES ASSUME Alone(g), LogoutAllUnset(g), NEW id \in SessionIDs, Usable(id)'
               PROVE  store'[id].user # req[g].user
    OBVIOUS
  <2> QED
    BY DEF LogoutAllUnset, Alone, Usable
<1>2. Spec => []Alone(g)
  BY AloneInv, PTL
<1> QED
  BY <1>1, <1>2, PTL DEF Spec, LogoutAllEndsAll

(* Nor does one goroutine, whose commands may fail and which may die, ever    *)
(* bring back a session that it ended: what SessionsLostRevoke shows takes a  *)
(* Refresh beside the Revoke.                                                 *)
THEOREM AloneEndedIsFinal ==
  ASSUME NEW g \in Procs, Procs = {g}
  PROVE  Spec => []EndedIsFinal
<1> DEFINE NoRace == \A id \in SessionIDs : fate[id] # "raced"
<1>1. Init => NoRace
  BY DEF Init
<1>2. TypeOK /\ NoRace /\ [Next]_vars => NoRace'
  <2> SUFFICES ASSUME TypeOK, NoRace, [Next]_vars PROVE NoRace'
    OBVIOUS
  <2>1. ASSUME NEW id, End(id), req[g].pc # "refresh_set" PROVE NoRace'
    BY <2>1 DEF End, Refreshing, TypeOK
  <2>2. ASSUME NEW p \in Procs, CreateSet(p) PROVE NoRace'
    BY <2>2 DEF CreateSet, TypeOK
  <2>3. ASSUME NEW p \in Procs, NEW id \in SessionIDs, Delete(p, id) PROVE NoRace'
    BY <2>1, <2>3 DEF Delete, Idle
  <2>4. ASSUME NEW p \in Procs, RevokeSet(p) PROVE NoRace'
    BY <2>1, <2>4 DEF RevokeSet
  <2>5. ASSUME NEW p \in Procs, NEW id \in SessionIDs, LogoutAllDel(p, id) PROVE NoRace'
    BY <2>1, <2>5 DEF LogoutAllDel
  <2>6. CASE UNCHANGED fate
    BY <2>6
  <2>7. ASSUME NEW p \in Procs, Start(p)
        PROVE  UNCHANGED fate \/ \E id \in SessionIDs : Delete(p, id)
    BY <2>7 DEF Start, CreateStart, RevokeGet, RefreshGet, LogoutAllStart, ListStart
  <2>8. ASSUME NEW p \in Procs, Continue(p)
        PROVE  \/ UNCHANGED fate \/ CreateSet(p) \/ RevokeSet(p)
               \/ \E id \in SessionIDs : LogoutAllDel(p, id)
    BY <2>8 DEF Continue, CreateSAdd, RefreshSet, ListGet, LogoutAllUnset, ListSRem, ListDone
  <2>9. CASE Tick \/ \E p \in Procs : Fail(p)
    BY <2>6, <2>9 DEF Tick, Fail
  <2> QED
    BY <2>2, <2>3, <2>4, <2>5, <2>6, <2>7, <2>8, <2>9 DEF Next, vars
<1>3. EndedStaysEnded /\ NoRace => EndedIsFinal
  BY DEF EndedStaysEnded, EndedIsFinal
<1> QED
  BY <1>1, <1>2, <1>3, TypeCorrect, EndedSessionsStayEnded, PTL DEF Spec

-----------------------------------------------------------------------------
(* Sessions implements SessionRegister.  First what each kind of step does   *)
(* to the holders of sessions and to the SETs under way.                     *)
HoldersOK == \A id \in SessionIDs : Holder(id) \in SUBSET Users

LEMMA HolderType == TypeOK => HoldersOK
  BY NoKeyAssumption DEF TypeOK, HoldersOK, Holder, Usable, Entry

LEMMA KeptHolders ==
  ASSUME UNCHANGED store, NEW id \in SessionIDs
  PROVE  Holder(id)' = Holder(id)
  BY DEF Holder, Usable

(* Who does not go to a SET of pc adds none.                                 *)
LEMMA KeptSets ==
  ASSUME NEW pc, \A q \in Procs : req'[q] = req[q] \/ req'[q].pc # pc
  PROVE  Sets(pc)' \subseteq Sets(pc)
  BY DEF Sets

LEMMA SameSets ==
  ASSUME NEW pc,
         \A q \in Procs : req'[q] = req[q] \/ (req[q].pc # pc /\ req'[q].pc # pc)
  PROVE  Sets(pc)' = Sets(pc)
  BY DEF Sets

LEMMA NewSet ==
  ASSUME TypeOK, NEW pc, NEW p \in Procs, NEW r, Goto(p, r), r.pc = pc, req[p].pc # pc
  PROVE  Sets(pc)' = Sets(pc) \cup {<<r.id, r.user>>}
<1>1. req'[p] = r /\ \A q \in Procs : q # p => req'[q] = req[q]
  BY DEF TypeOK, Goto
<1> QED
  BY <1>1 DEF Sets

LEMMA LoseStep ==
  ASSUME TypeOK',
         \A id \in SessionIDs : Holder(id)' \subseteq Holder(id),
         \A q \in Procs : \/ req'[q] = req[q]
                          \/ req'[q].pc \notin {"create_set", "refresh_set"}
  PROVE  Register!Next
<1>1. \A id \in SessionIDs : Holder(id)' \in SUBSET Users
  <2>1. HoldersOK'
    BY HolderType, PTL
  <2> QED
    BY <2>1 DEF HoldersOK
<1>2. Sets("create_set")' \subseteq Sets("create_set")
  BY KeptSets
<1>3. Sets("refresh_set")' \subseteq Sets("refresh_set")
  BY KeptSets
<1>4. Register!Lose
  BY <1>1, <1>2, <1>3 DEF Register!Lose
<1> QED
  BY <1>4 DEF Register!Next

(* A SET of an active copy opens or extends a session, or comes too late.    *)
LEMMA SetAccepts ==
  ASSUME TypeOK, TypeOK', NEW p \in Procs, CreateSet(p) \/ RefreshSet(p)
  PROVE  Register!Next
<1> DEFINE q == req[p]
<1>1. q.id \in SessionIDs /\ q.user \in Users
  BY RequestFields DEF TypeOK, CreateSet, RefreshSet
<1>2. PICK k \in SessionIDs, u \in Users : k = q.id /\ u = q.user
  BY <1>1
<1>3. \A id \in SessionIDs : id # k => Holder(id)' = Holder(id)
  BY <1>2 DEF CreateSet, RefreshSet, Put, TypeOK, Holder, Usable
<1>4. store'[k].user = u
  BY <1>2 DEF CreateSet, RefreshSet, Put, TypeOK
<1>5. \A i \in Procs : i # p => req'[i] = req[i]
  BY DEF CreateSet, RefreshSet, Goto, TypeOK
<1>6. req'[p].pc \in {"idle", "create_sadd"}
  <2>1. req'[p] \in {Idle, [pc |-> "create_sadd", id |-> q.id, user |-> q.user]}
    BY DEF CreateSet, RefreshSet, Goto, TypeOK
  <2> QED
    BY <2>1 DEF Idle
<1>7. CASE ~Usable(k)'
  <2>1. \A id \in SessionIDs : Holder(id)' \subseteq Holder(id)
    BY <1>3, <1>7 DEF Holder
  <2> QED
    BY <1>5, <1>6, <2>1, LoseStep
<1>8. CASE Usable(k)'
  <2>1. Holder(k)' = {u}
    BY <1>4, <1>8 DEF Holder
  <2>2. [id \in SessionIDs |-> Holder(id)'] = [[id \in SessionIDs |-> Holder(id)] EXCEPT ![k] = {u}]
    BY <1>3, <2>1
  <2>3. CASE CreateSet(p)
    <3>1. q.pc = "create_set"
      BY <2>3 DEF CreateSet
    <3>2. <<k, u>> \in Sets("create_set")
      BY <1>2, <3>1 DEF Sets
    <3>3. Sets("create_set")' \subseteq Sets("create_set")
      BY <1>5, <1>6, KeptSets
    <3>4. Sets("refresh_set")' = Sets("refresh_set")
      BY <1>5, <1>6, <3>1, SameSets
    <3>5. Register!Open(k, u)
      BY <2>2, <3>2, <3>3, <3>4 DEF Register!Open, Register!Accept
    <3> QED
      BY <3>5 DEF Register!Next
  <2>4. CASE RefreshSet(p)
    <3>1. q.pc = "refresh_set"
      BY <2>4 DEF RefreshSet
    <3>2. <<k, u>> \in Sets("refresh_set")
      BY <1>2, <3>1 DEF Sets
    <3>3. Sets("refresh_set")' \subseteq Sets("refresh_set")
      BY <1>5, <1>6, KeptSets
    <3>4. Sets("create_set")' = Sets("create_set")
      BY <1>5, <1>6, <3>1, SameSets
    <3>5. Register!Extend(k, u)
      BY <2>2, <3>2, <3>3, <3>4 DEF Register!Extend, Register!Accept
    <3> QED
      BY <3>5 DEF Register!Next
  <2> QED
    BY <2>3, <2>4
<1> QED
  BY <1>7, <1>8

LEMMA CreateStartLogin ==
  ASSUME TypeOK, NEW p \in Procs, NEW u \in Users, CreateStart(p, u)
  PROVE  Register!Next
<1>1. PICK id \in SessionIDs :
         Goto(p, [pc |-> "create_set", id |-> id, user |-> u, left |-> SessionTTL])
  BY DEF CreateStart
<1> DEFINE r == [pc |-> "create_set", id |-> id, user |-> u, left |-> SessionTTL]
<1>2. req[p] = Idle /\ Idle.pc = "idle" /\ UNCHANGED store
  BY DEF CreateStart, Idle
<1>3. Sets("create_set")' = Sets("create_set") \cup {<<id, u>>}
  <2>1. r.pc = "create_set" /\ r.id = id /\ r.user = u /\ Goto(p, r)
    BY <1>1
  <2> HIDE DEF r
  <2> QED
    BY <1>2, <2>1, NewSet
<1>4. Sets("refresh_set")' = Sets("refresh_set")
  <2>1. \A q \in Procs : \/ req'[q] = req[q]
                         \/ req[q].pc # "refresh_set" /\ req'[q].pc # "refresh_set"
    BY <1>1, <1>2 DEF Goto, TypeOK
  <2> QED
    BY <2>1, SameSets
<1>5. \A i \in SessionIDs : Holder(i)' = Holder(i)
  BY <1>2, KeptHolders
<1>6. Register!Login(id, u)
  BY <1>3, <1>4, <1>5 DEF Register!Login
<1> QED
  BY <1>6 DEF Register!Next

LEMMA RefreshGetLooks ==
  ASSUME TypeOK, NEW p \in Procs, NEW id \in SessionIDs, RefreshGet(p, id)
  PROVE  Register!Next
<1> DEFINE r == [pc |-> "refresh_set", id |-> id, user |-> store[id].user, left |-> SessionTTL]
<1>1. Goto(p, r) /\ req[p] = Idle /\ Idle.pc = "idle" /\ UNCHANGED store /\ Usable(id)
  BY DEF RefreshGet, Idle
<1>2. r.pc = "refresh_set" /\ r.id = id /\ r.user = store[id].user
  OBVIOUS
<1> HIDE DEF r
<1>3. Holder(id) = {r.user}
  BY <1>1, <1>2 DEF Holder
<1>4. Sets("refresh_set")' = Sets("refresh_set") \cup {<<id, r.user>>}
  BY <1>1, <1>2, NewSet
<1>5. Sets("create_set")' = Sets("create_set")
  <2>1. \A q \in Procs : \/ req'[q] = req[q]
                         \/ req[q].pc # "create_set" /\ req'[q].pc # "create_set"
    BY <1>1, <1>2 DEF Goto, TypeOK
  <2> QED
    BY <2>1, SameSets
<1>6. {id} \X Holder(id) = {<<id, r.user>>}
  BY <1>3
<1>7. \A i \in SessionIDs : Holder(i)' = Holder(i)
  BY <1>1, KeptHolders
<1>8. Register!Look(id)
  BY <1>4, <1>5, <1>6, <1>7 DEF Register!Look
<1> QED
  BY <1>8 DEF Register!Next

(* The other steps make no session accepted and start no SET that could.     *)
LEMMA WalksLose ==
  ASSUME TypeOK, TypeOK', NEW p \in Procs, NEW id \in SessionIDs,
         LogoutAllDel(p, id) \/ ListGet(p, id)
  PROVE  Register!Next
<1>1. \A i \in SessionIDs : Holder(i)' \subseteq Holder(i)
  BY DEF LogoutAllDel, ListGet, TypeOK, Holder, Usable
<1>2. req[p] \in LogoutAlls \cup Lists
  BY RequestFields DEF LogoutAllDel, ListGet, TypeOK
<1>3. req'[p].pc \in {"list", "list_srem", "logout_all"}
  BY <1>2 DEF LogoutAllDel, ListGet, Goto, TypeOK, LogoutAlls, Lists, Walk
<1>4. \A q \in Procs : q # p => req'[q] = req[q]
  BY DEF LogoutAllDel, ListGet, Goto, TypeOK
<1> QED
  BY <1>1, <1>3, <1>4, LoseStep

LEMMA UnsetLoses ==
  ASSUME TypeOK, TypeOK', NEW p \in Procs, LogoutAllUnset(p) \/ ListSRem(p) \/ ListDone(p)
  PROVE  Register!Next
<1>1. \A i \in SessionIDs : Holder(i)' = Holder(i)
  BY KeptHolders DEF LogoutAllUnset, ListSRem, ListDone
<1>2. \A q \in Procs : req'[q] = req[q] \/ req'[q].pc \notin {"create_set", "refresh_set"}
  BY DEF LogoutAllUnset, ListSRem, ListDone, Goto, TypeOK, Idle
<1> QED
  BY <1>1, <1>2, LoseStep

LEMMA EndsLose ==
  ASSUME TypeOK, TypeOK', NEW p \in Procs, CreateSAdd(p) \/ RevokeSet(p) \/ Fail(p)
  PROVE  Register!Next
<1>1. \A i \in SessionIDs : Holder(i)' \subseteq Holder(i)
  <2>1. CASE RevokeSet(p)
    <3>1. req[p].id \in SessionIDs
      BY <2>1, RequestFields DEF RevokeSet, TypeOK
    <3>2. /\ ~store'[req[p].id].active
          /\ \A i \in SessionIDs : i # req[p].id => store'[i] = store[i]
      BY <2>1, <3>1 DEF RevokeSet, Put, TypeOK
    <3> QED
      BY <3>2 DEF Holder, Usable
  <2>2. CASE CreateSAdd(p) \/ Fail(p)
    BY <2>2, KeptHolders DEF CreateSAdd, Fail
  <2> QED
    BY <2>1, <2>2
<1>2. \A q \in Procs : req'[q] = req[q] \/ req'[q].pc \notin {"create_set", "refresh_set"}
  <2>1. Goto(p, Idle)
    BY DEF CreateSAdd, RevokeSet, Fail
  <2>2. Idle.pc \notin {"create_set", "refresh_set"}
    BY DEF Idle
  <2> QED
    BY <2>1, <2>2 DEF Goto, TypeOK
<1> QED
  BY <1>1, <1>2, LoseStep

(* Time only ends sessions, and leaves a SET to come for whom it was.        *)
LEMMA TickLoses ==
  ASSUME TypeOK, TypeOK', Tick
  PROVE  Register!Next
<1>1. \A id \in SessionIDs : Holder(id)' \subseteq Holder(id)
  BY TickUsable DEF Holder
<1>2. ASSUME NEW pc \in {"create_set", "refresh_set"}
      PROVE  Sets(pc)' \subseteq Sets(pc)
  <2> SUFFICES ASSUME NEW p \in Procs, req'[p].pc = pc
               PROVE  req[p].pc = pc /\ req'[p].id = req[p].id /\ req'[p].user = req[p].user
    BY DEF Sets
  <2>1. req[p] \in Requests /\ req'[p] = AgedRequest(req[p])
    BY DEF TypeOK, Tick
  <2>2. req[p].pc = pc
    BY <2>1, AgedRequestType
  <2>3. req[p] \in Writes
    BY <2>1, <2>2 DEF Requests, Writes, CreateSets, RefreshSets, RevokeSets, Write,
                      Idle, CreateSAdds, LogoutAlls, Lists, ListSRems, Walk
  <2> QED
    BY <2>1, <2>2, <2>3, AgedRequestType
<1>3. \A id \in SessionIDs : Holder(id)' \in SUBSET Users
  <2>1. HoldersOK'
    BY HolderType, PTL
  <2> QED
    BY <2>1 DEF HoldersOK
<1>4. Register!Lose
  BY <1>1, <1>2, <1>3 DEF Register!Lose
<1> QED
  BY <1>4 DEF Register!Next

(* Every step of Sessions is one of SessionRegister, or none, for any        *)
(* number of users, ids and goroutines: a session is accepted only for whom  *)
(* a login opened it, or a refresh had seen it accepted for.                 *)
THEOREM RegisterImplemented == Spec => ImplementsRegister
<1>1. Init => Register!Init
  BY DEF Init, Register!Init, Holder, Usable, Sets, Idle
<1>2. TypeOK /\ TypeOK' /\ [Next]_vars => [Register!Next]_(Register!rvars)
  <2> SUFFICES ASSUME TypeOK, TypeOK', [Next]_vars
               PROVE  [Register!Next]_(Register!rvars)
    OBVIOUS
  <2>1. ASSUME NEW p \in Procs, Start(p)
        PROVE  Register!Next
    <3>1. ASSUME NEW u \in Users, CreateStart(p, u)
          PROVE  Register!Next
      BY <3>1, CreateStartLogin
    <3>2. ASSUME NEW id \in SessionIDs, RefreshGet(p, id)
          PROVE  Register!Next
      BY <3>2, RefreshGetLooks
    <3>3. ASSUME NEW u \in Users, LogoutAllStart(p, u) \/ ListStart(p, u)
          PROVE  Register!Next
      <4>1. \A i \in SessionIDs : Holder(i)' = Holder(i)
        BY <3>3, KeptHolders DEF LogoutAllStart, ListStart
      <4>2. \A q \in Procs :
               req'[q] = req[q] \/ req'[q].pc \notin {"create_set", "refresh_set"}
        BY <3>3 DEF LogoutAllStart, ListStart, Goto, TypeOK
      <4> QED
        BY <4>1, <4>2, LoseStep
    <3>4. ASSUME NEW id \in SessionIDs, Delete(p, id) \/ RevokeGet(p, id)
          PROVE  Register!Next
      <4>1. \A i \in SessionIDs : Holder(i)' \subseteq Holder(i)
        BY <3>4 DEF Delete, RevokeGet, TypeOK, Holder, Usable
      <4>2. \A q \in Procs :
               req'[q] = req[q] \/ req'[q].pc \notin {"create_set", "refresh_set"}
        BY <3>4 DEF Delete, RevokeGet, Goto, TypeOK
      <4> QED
        BY <4>1, <4>2, LoseStep
    <3> QED
      BY <2>1, <3>1, <3>2, <3>3, <3>4 DEF Start
  <2>2. ASSUME NEW p \in Procs, Continue(p) \/ Fail(p)
        PROVE  Register!Next
    <3>1. CASE CreateSet(p) \/ RefreshSet(p)
      BY <3>1, SetAccepts
    <3>2. CASE CreateSAdd(p) \/ RevokeSet(p) \/ Fail(p)
      BY <3>2, EndsLose
    <3>3. ASSUME NEW id \in SessionIDs, LogoutAllDel(p, id) \/ ListGet(p, id)
          PROVE  Register!Next
      BY <3>3, WalksLose
    <3>4. CASE LogoutAllUnset(p) \/ ListSRem(p) \/ ListDone(p)
      BY <3>4, UnsetLoses
    <3> QED
      BY <2>2, <3>1, <3>2, <3>3, <3>4 DEF Continue
  <2>3. CASE Tick
    BY <2>3, TickLoses DEF Register!Next
  <2>4. CASE UNCHANGED vars
    BY <2>4 DEF vars, Register!rvars, Holder, Usable, Sets
  <2> QED
    BY <2>1, <2>2, <2>3, <2>4 DEF Next
<1> QED
  BY <1>1, <1>2, TypeCorrect, PTL DEF Spec, ImplementsRegister, Register!Spec
=============================================================================
