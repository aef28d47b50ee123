------------------------------ MODULE Sessions ------------------------------
(***************************************************************************)
(* SessionService of internal/auth/session.go: login sessions kept in      *)
(* Redis as one JSON value per session ("session:<id>", with a TTL) and    *)
(* one set of session ids per user ("user_sessions:<user>", no TTL).       *)
(*                                                                         *)
(* Every operation is a sequence of single Redis commands with no          *)
(* transaction around them, so an operation in flight is a record in req   *)
(* and every command is an action.  Local computation is part of the       *)
(* command that follows a reply.                                           *)
(*                                                                         *)
(* Time is relative: left is ExpiresAt - now of a session and ttl is what  *)
(* Redis still gives its key; Tick ages all of them.  left stops at -1,    *)
(* below which nothing in the code tells one instant from another.         *)
(***************************************************************************)
EXTENDS Integers

CONSTANTS
    Users,       \* user ids
    SessionIDs,  \* the ids generateSessionID returns: meant to be many, as written one
    Procs,       \* request-serving goroutines
    SessionTTL,  \* sessionTTL (24h), in ticks
    Faulty,      \* TRUE when Redis commands may fail and goroutines may die
    NoKey        \* a session key that is not in Redis

NoExpiry == -1   \* Redis's own answer to TTL for a key that never expires

Left  == -1 .. SessionTTL
Entry == [user : Users, active : BOOLEAN, left : Left, ttl : {NoExpiry} \cup 1 .. SessionTTL]

ASSUME SessionTTLAssumption == SessionTTL \in Nat \ {0}
ASSUME FaultyAssumption == Faulty \in BOOLEAN
ASSUME NoKeyAssumption == NoKey \notin Entry

VARIABLES
    store,    \* "session:<id>" keys
    tracked,  \* "user_sessions:<user>" sets
    req,      \* the operation each goroutine is executing
    fate      \* history: how the last Delete, Revoke or logout-all left each id

vars == <<store, tracked, req, fate>>

Idle == [pc |-> "idle"]

\* Operations between two commands; a record keeps what the goroutine holds.
Write(pc)   == [pc : {pc}, id : SessionIDs, user : Users, left : Left]
CreateSets  == Write("create_set")
RefreshSets == Write("refresh_set")
RevokeSets  == Write("revoke_set")
CreateSAdds == [pc : {"create_sadd"}, id : SessionIDs, user : Users]
Walk(pc)    == [pc : {pc}, user : Users, todo : SUBSET SessionIDs]
LogoutAlls  == Walk("logout_all")
Lists       == Walk("list")
ListSRems   == [pc : {"list_srem"}, id : SessionIDs, user : Users, todo : SUBSET SessionIDs]

Writes   == CreateSets \cup RefreshSets \cup RevokeSets
Requests == {Idle} \cup Writes \cup CreateSAdds \cup LogoutAlls \cup Lists \cup ListSRems

Fates == {"open", "ended", "raced"}

TypeOK ==
    /\ store \in [SessionIDs -> Entry \cup {NoKey}]
    /\ tracked \in [Users -> SUBSET SessionIDs]
    /\ req \in [Procs -> Requests]
    /\ fate \in [SessionIDs -> Fates]

Init ==
    /\ store = [id \in SessionIDs |-> NoKey]
    /\ tracked = [u \in Users |-> {}]
    /\ req = [p \in Procs |-> Idle]
    /\ fate = [id \in SessionIDs |-> "open"]

----------------------------------------------------------------------------
\* Get succeeds: the key is there, now is not after ExpiresAt, and it is active.
Usable(id) == store[id] # NoKey /\ store[id].left >= 0 /\ store[id].active

Refreshing(id) == \E p \in Procs : req[p].pc = "refresh_set" /\ req[p].id = id

\* id has been ended for its caller; a refresh that read it earlier is noted.
End(id) == fate' = [fate EXCEPT ![id] = IF Refreshing(id) THEN "raced" ELSE "ended"]

Goto(p, r) == req' = [req EXCEPT ![p] = r]

\* SET of the copy that r holds, with an expiration.
Put(r, active, ttl) ==
    store' = [store EXCEPT ![r.id] =
        [user |-> r.user, active |-> active, left |-> r.left, ttl |-> ttl]]

----------------------------------------------------------------------------
(* Create *)

CreateStart(p, u) ==
    /\ req[p] = Idle
    /\ \E id \in SessionIDs :
          Goto(p, [pc |-> "create_set", id |-> id, user |-> u, left |-> SessionTTL])
    /\ UNCHANGED <<store, tracked, fate>>

\* Mutant: SET without an expiration.
CreateSetNoTTL(p) ==
    /\ req[p].pc = "create_set"
    /\ Put(req[p], TRUE, NoExpiry)
    /\ fate' = [fate EXCEPT ![req[p].id] = "open"]
    /\ Goto(p, [pc |-> "create_sadd", id |-> req[p].id, user |-> req[p].user])
    /\ UNCHANGED tracked

CreateSet(p) ==
    /\ req[p].pc = "create_set"
    /\ Put(req[p], TRUE, SessionTTL)
    /\ fate' = [fate EXCEPT ![req[p].id] = "open"]
    /\ Goto(p, [pc |-> "create_sadd", id |-> req[p].id, user |-> req[p].user])
    /\ UNCHANGED tracked

\* Mutant: the session is not put in its user's set.
CreateNoSAdd(p) ==
    /\ req[p].pc = "create_sadd"
    /\ Goto(p, Idle)
    /\ UNCHANGED <<store, tracked, fate>>

CreateSAdd(p) ==
    /\ req[p].pc = "create_sadd"
    /\ tracked' = [tracked EXCEPT ![req[p].user] = @ \cup {req[p].id}]
    /\ Goto(p, Idle)
    /\ UNCHANGED <<store, fate>>

----------------------------------------------------------------------------
(* Delete: a single DEL, whether or not the key is there *)

Delete(p, id) ==
    /\ req[p] = Idle
    /\ store' = [store EXCEPT ![id] = NoKey]
    /\ End(id)
    /\ UNCHANGED <<tracked, req>>

----------------------------------------------------------------------------
(* Revoke: GET, then SET of the copy with Active = false *)

RevokeGet(p, id) ==
    /\ req[p] = Idle
    /\ Usable(id)
    /\ Goto(p, [pc |-> "revoke_set", id |-> id, user |-> store[id].user, left |-> store[id].left])
    /\ UNCHANGED <<store, tracked, fate>>

\* Mutant: the remaining time is handed to Redis as it is.
RawTTL(left) == left

\* time.Until(ExpiresAt) as SET's expiration: go-redis sends none when it is not positive.
RevokeTTL(left) == IF left > 0 THEN left ELSE NoExpiry

\* Mutant: Active is not cleared.
RevokeSetStillActive(p) ==
    /\ req[p].pc = "revoke_set"
    /\ Put(req[p], TRUE, RevokeTTL(req[p].left))
    /\ End(req[p].id)
    /\ Goto(p, Idle)
    /\ UNCHANGED tracked

RevokeSet(p) ==
    /\ req[p].pc = "revoke_set"
    /\ Put(req[p], FALSE, RevokeTTL(req[p].left))
    /\ End(req[p].id)
    /\ Goto(p, Idle)
    /\ UNCHANGED tracked

----------------------------------------------------------------------------
(* Refresh: GET, then SET of the copy with a new ExpiresAt *)

\* Mutant: the key is read without Get's checks.
RefreshGetUnchecked(p, id) ==
    /\ req[p] = Idle
    /\ store[id] # NoKey
    /\ Goto(p, [pc |-> "refresh_set", id |-> id, user |-> store[id].user, left |-> SessionTTL])
    /\ UNCHANGED <<store, tracked, fate>>

RefreshGet(p, id) ==
    /\ req[p] = Idle
    /\ Usable(id)
    /\ Goto(p, [pc |-> "refresh_set", id |-> id, user |-> store[id].user, left |-> SessionTTL])
    /\ UNCHANGED <<store, tracked, fate>>

\* Mutant: the key keeps the TTL it had.
RefreshSetKeepTTL(p) ==
    /\ req[p].pc = "refresh_set"
    /\ LET e == store[req[p].id] IN
         Put(req[p], TRUE, IF e = NoKey THEN SessionTTL ELSE e.ttl)
    /\ Goto(p, Idle)
    /\ UNCHANGED <<tracked, fate>>

\* The copy was active when it was read, and is written back as such.
RefreshSet(p) ==
    /\ req[p].pc = "refresh_set"
    /\ Put(req[p], TRUE, SessionTTL)
    /\ Goto(p, Idle)
    /\ UNCHANGED <<tracked, fate>>

----------------------------------------------------------------------------
(* DeleteAllForUser: SMEMBERS, a DEL per member, DEL of the set *)

LogoutAllStart(p, u) ==
    /\ req[p] = Idle
    /\ Goto(p, [pc |-> "logout_all", user |-> u, todo |-> tracked[u]])
    /\ UNCHANGED <<store, tracked, fate>>

\* The error of a DEL is dropped and the loop goes on.
LogoutAllDel(p, id) ==
    /\ req[p].pc = "logout_all"
    /\ id \in req[p].todo
    /\ Goto(p, [req[p] EXCEPT !.todo = @ \ {id}])
    /\ \/ store' = [store EXCEPT ![id] = NoKey] /\ End(id)
       \/ Faulty /\ UNCHANGED <<store, fate>>
    /\ UNCHANGED tracked

\* Mutant: the set goes before its members' keys have.
LogoutAllUnsetFirst(p) ==
    /\ req[p].pc = "logout_all"
    /\ tracked' = [tracked EXCEPT ![req[p].user] = {}]
    /\ Goto(p, Idle)
    /\ UNCHANGED <<store, fate>>

LogoutAllUnset(p) ==
    /\ req[p].pc = "logout_all"
    /\ req[p].todo = {}
    /\ \/ tracked' = [tracked EXCEPT ![req[p].user] = {}]
       \/ Faulty /\ UNCHANGED tracked
    /\ Goto(p, Idle)
    /\ UNCHANGED <<store, fate>>

----------------------------------------------------------------------------
(* ListForUser: SMEMBERS, a Get per member, SREM of each member whose Get failed *)

ListStart(p, u) ==
    /\ req[p] = Idle
    /\ Goto(p, [pc |-> "list", user |-> u, todo |-> tracked[u]])
    /\ UNCHANGED <<store, tracked, fate>>

\* Any error of Get counts as "expired or invalid", a failed GET command too.
ListGet(p, id) ==
    /\ req[p].pc = "list"
    /\ id \in req[p].todo
    /\ LET rest == req[p].todo \ {id} IN
         \/ Usable(id) /\ Goto(p, [req[p] EXCEPT !.todo = rest])
         \/ /\ ~Usable(id) \/ Faulty
            /\ Goto(p, [pc |-> "list_srem", id |-> id, user |-> req[p].user, todo |-> rest])
    /\ UNCHANGED <<store, tracked, fate>>

\* Mutant: what is not listed stays in the set.
ListKeepsEnded(p) ==
    /\ req[p].pc = "list_srem"
    /\ Goto(p, [pc |-> "list", user |-> req[p].user, todo |-> req[p].todo])
    /\ UNCHANGED <<store, tracked, fate>>

ListSRem(p) ==
    /\ req[p].pc = "list_srem"
    /\ LET r == req[p] IN
         /\ \/ tracked' = [tracked EXCEPT ![r.user] = @ \ {r.id}]
            \/ Faulty /\ UNCHANGED tracked
         /\ Goto(p, [pc |-> "list", user |-> r.user, todo |-> r.todo])
    /\ UNCHANGED <<store, fate>>

ListDone(p) ==
    /\ req[p].pc = "list"
    /\ req[p].todo = {}
    /\ Goto(p, Idle)
    /\ UNCHANGED <<store, tracked, fate>>

----------------------------------------------------------------------------
(* A command that fails or whose goroutine dies ends the operation.  SADD's   *)
(* error is not looked at, with the same outcome: the operation is over.      *)

Fail(p) ==
    /\ Faulty
    /\ req[p] # Idle
    /\ Goto(p, Idle)
    /\ UNCHANGED <<store, tracked, fate>>

----------------------------------------------------------------------------
(* Time *)

Aged(left) == IF left = -1 THEN -1 ELSE left - 1

AgedEntry(e) ==
    IF e = NoKey \/ e.ttl = 1
    THEN NoKey
    ELSE [user |-> e.user, active |-> e.active, left |-> Aged(e.left),
          ttl |-> IF e.ttl = NoExpiry THEN NoExpiry ELSE e.ttl - 1]

AgedRequest(r) ==
    IF r.pc \in {"create_set", "refresh_set", "revoke_set"}
    THEN [r EXCEPT !.left = Aged(@)]
    ELSE r

Tick ==
    /\ store' = [id \in SessionIDs |-> AgedEntry(store[id])]
    /\ req' = [p \in Procs |-> AgedRequest(req[p])]
    /\ UNCHANGED <<tracked, fate>>

----------------------------------------------------------------------------
Start(p) ==
    \/ \E u \in Users : CreateStart(p, u) \/ LogoutAllStart(p, u) \/ ListStart(p, u)
    \/ \E id \in SessionIDs : Delete(p, id) \/ RevokeGet(p, id) \/ RefreshGet(p, id)

Continue(p) ==
    \/ CreateSet(p) \/ CreateSAdd(p)
    \/ RevokeSet(p)
    \/ RefreshSet(p)
    \/ \E id \in SessionIDs : LogoutAllDel(p, id) \/ ListGet(p, id)
    \/ LogoutAllUnset(p)
    \/ ListSRem(p) \/ ListDone(p)

Next ==
    \/ \E p \in Procs : Start(p) \/ Continue(p) \/ Fail(p)
    \/ Tick

Spec == Init /\ [][Next]_vars

\* Redis goes on expiring keys, and a goroutine that has begun an operation is
\* scheduled until it returns.
Fairness == WF_vars(Tick) /\ \A p \in Procs : WF_vars(Continue(p) \/ Fail(p))

FairSpec == Spec /\ Fairness

----------------------------------------------------------------------------
(* A session that Delete, Revoke or logout-all ended while no Refresh of it   *)
(* was between its GET and its SET is never accepted again by Get, whatever   *)
(* other operations, failures and expirations follow, until the id is issued  *)
(* anew (session.go Delete, DeleteAllForUser, Revoke, Refresh, Get).          *)
EndedStaysEnded == \A id \in SessionIDs : fate[id] = "ended" => ~Usable(id)

(* The key of a session outlives the session's own ExpiresAt, so that a user  *)
(* is never logged out early; and no session that Get could accept sits under *)
(* a key without expiry: only a revoked one can, when Revoke's SET came at or *)
(* after ExpiresAt (session.go Create, Refresh, Revoke and their TTLs).       *)
KeyOutlivesSession ==
    \A id \in SessionIDs : store[id] # NoKey =>
        IF store[id].ttl = NoExpiry
        THEN ~store[id].active /\ store[id].left <= 0
        ELSE store[id].ttl >= store[id].left

Quiet == \A p \in Procs : req[p] = Idle

(* Between operations, every session that Get accepts is in the set its user  *)
(* is logged out and listed from: true of operations that run one at a time   *)
(* and do not fail (session.go:102, Create's SADD against the SREM of         *)
(* ListForUser and the DEL of DeleteAllForUser).                              *)
TrackedWhenQuiet ==
    Quiet => \A id \in SessionIDs : Usable(id) => id \in tracked[store[id].user]

(* When DeleteAllForUser returns, no session of the user is accepted any more *)
(* (session.go:152): again for operations that run one at a time.             *)
LogoutAllEndsAll ==
    [][\A p \in Procs : LogoutAllUnset(p) =>
          \A id \in SessionIDs : Usable(id)' => store'[id].user # req[p].user]_vars

(* A session nobody creates or refreshes any more is eventually refused, and  *)
(* the only keys that remain are those of revoked sessions (session.go:94-99  *)
(* and 211: the TTLs are the only garbage collection there is).               *)
Abandoned == <>[][\A p \in Procs : ~CreateSet(p) /\ ~RefreshSet(p)]_vars

AbandonedSessionsGo ==
    Abandoned => <>[](\A id \in SessionIDs : store[id] = NoKey \/ ~store[id].active)

(* Only a listing takes ended sessions out of their user's set, whose key     *)
(* never expires: a user who goes on listing, and logs in no more, is rid of  *)
(* the whole set in the end, revoked sessions and those that expired included *)
(* (session.go:104 and 187).                                                  *)
ListedSetsShrink ==
    \A u \in Users :
        Abandoned /\ []<>(\E p \in Procs : req[p].pc = "list" /\ req[p].user = u)
            => <>[](tracked[u] = {})

(* What the comments promise of Revoke ("marks a session as inactive",        *)
(* session.go:214) and Logout ("invalidates a user's session",                *)
(* auth_service.go:167): once ended, never accepted again, whatever overlaps. *)
EndedIsFinal == \A id \in SessionIDs : fate[id] \in {"ended", "raced"} => ~Usable(id)

(* "ListForUser lists all active sessions for a user" (session.go:172): those *)
(* of that user and of no other.                                              *)
ListedAreOwn ==
    \A p \in Procs : req[p].pc = "list" =>
        \A id \in req[p].todo : Usable(id) => store[id].user = req[p].user

\* For whom Get accepts id, and the SETs to come that may make it accepted.
Holder(id) == IF Usable(id) THEN {store[id].user} ELSE {}

Sets(pc) == {<<req[p].id, req[p].user>> : p \in {q \in Procs : req[q].pc = pc}}

Register == INSTANCE SessionRegister WITH
    holder <- [id \in SessionIDs |-> Holder(id)],
    opening <- Sets("create_set"),
    extending <- Sets("refresh_set")

(* A session changes hands only through a login, and only a refresh that saw  *)
(* it accepted brings one back, whatever else is under way: no revocation     *)
(* racing a deletion, no listing, logout-all, expiry or failure makes a       *)
(* session accepted (session.go 48-255).                                      *)
ImplementsRegister == Register!Spec

============================================================================
