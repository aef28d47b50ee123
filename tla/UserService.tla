----------------------------- MODULE UserService -----------------------------
(***************************************************************************)
(* UserService of internal/service/user_service.go over the users table    *)
(* and the Redis cache of internal/repository/cache.go: GetUser fills the  *)
(* cache, UpdateUser and DeleteUser write the row and then invalidate.     *)
(* Each SQL statement and each Redis command is a step; what a request     *)
(* holds between two of them is its record in req.                         *)
(*                                                                         *)
(* EnableUserCache is on (its default).  Timestamps are left out: see      *)
(* README.md on last_login_at and updated_at.                              *)
(***************************************************************************)
EXTENDS UserTable

CONSTANTS
    Procs,   \* request-serving goroutines
    Faulty,  \* TRUE when a command may fail and a goroutine may die
    Miss     \* no "user:<id>" key in Redis

ASSUME FaultyAssumption == Faulty \in BOOLEAN
ASSUME MissAssumption == Miss \notin View

VARIABLES
    cache,  \* "user:<id>" keys
    req,    \* the request each goroutine is serving
    raced   \* history: users whose cache entry nothing is bound to correct

vars == <<rows, cache, req, raced>>

Idle == [pc |-> "idle"]
Waiting(pcs) == [pc : pcs, user : UserIDs]
Fills == [pc : {"get_set"}, user : UserIDs, copy : View]
Requests ==
    {Idle} \cup Fills
        \cup Waiting({"get_select", "update_select", "update_inval", "delete_inval"})

TypeOK ==
    /\ RowsTypeOK
    /\ cache \in [UserIDs -> View \cup {Miss}]
    /\ req \in [Procs -> Requests]
    /\ raced \in SUBSET UserIDs

Init ==
    /\ RowsInit
    /\ cache = [u \in UserIDs |-> Miss]
    /\ req = [p \in Procs |-> Idle]
    /\ raced = {}

----------------------------------------------------------------------------
At(p, pc, u) == req[p].pc = pc /\ req[p].user = u

\* A GetUser has read the row of u and is about to put what it read in the cache.
Filling(u) == \E p \in Procs : At(p, "get_set", u)

Goto(p, r) == req' = [req EXCEPT ![p] = r]

\* A write to u's row commits: a copy read before it may reach the cache after it.
Overtake(u) == raced' = IF Filling(u) THEN raced \cup {u} ELSE raced

\* Mutant: an empty value is stored in place of the entry.
DropByNull(u) ==
    /\ cache' = [cache EXCEPT ![u] = NoRow]
    /\ raced' = IF Filling(u) THEN raced ELSE raced \ {u}

\* u's entry goes; nobody holds a copy that could bring the old one back.
Drop(u) ==
    /\ cache' = [cache EXCEPT ![u] = Miss]
    /\ raced' = IF Filling(u) THEN raced ELSE raced \ {u}

----------------------------------------------------------------------------
(* GetUser: a hit changes nothing; on a miss, or an error, SELECT and SET *)

GetMiss(p, u) ==
    /\ req[p] = Idle
    /\ cache[u] = Miss \/ Faulty
    /\ Goto(p, [pc |-> "get_select", user |-> u])
    /\ UNCHANGED <<rows, cache, raced>>

\* Mutant: the SELECT finds deleted rows too.
GetSelectAny(p) ==
    /\ req[p].pc = "get_select"
    /\ LET u == req[p].user IN
         \/ rows[u] # NoRow /\ Goto(p, [pc |-> "get_set", user |-> u, copy |-> ViewOf(u)])
         \/ rows[u] = NoRow /\ Goto(p, Idle)
    /\ UNCHANGED <<rows, cache, raced>>

GetSelect(p) ==
    /\ req[p].pc = "get_select"
    /\ LET u == req[p].user IN
         \/ Live(u) /\ Goto(p, [pc |-> "get_set", user |-> u, copy |-> ViewOf(u)])
         \/ ~Live(u) /\ Goto(p, Idle)
    /\ UNCHANGED <<rows, cache, raced>>

GetSet(p) ==
    /\ req[p].pc = "get_set"
    /\ cache' = [cache EXCEPT ![req[p].user] = req[p].copy]
    /\ Goto(p, Idle)
    /\ UNCHANGED <<rows, raced>>

----------------------------------------------------------------------------
(* CreateUser, CreateUserV1: an INSERT; the cache is not told *)

CreateUser(p, u) ==
    /\ req[p] = Idle
    /\ Insert(u)
    /\ UNCHANGED <<cache, req, raced>>

----------------------------------------------------------------------------
(* UpdateUser: UPDATE, GetByID, and the invalidation when that found the user *)

UpdateExec(p, u) ==
    /\ req[p] = Idle
    /\ Update(u)
    /\ Overtake(u)
    /\ Goto(p, [pc |-> "update_select", user |-> u])
    /\ UNCHANGED cache

UpdateSelect(p) ==
    /\ req[p].pc = "update_select"
    /\ LET u == req[p].user IN
         \/ Live(u) /\ Goto(p, [pc |-> "update_inval", user |-> u])
         \/ ~Live(u) /\ Goto(p, Idle)
    /\ UNCHANGED <<rows, cache, raced>>

UpdateInval(p) ==
    /\ req[p].pc = "update_inval"
    /\ Drop(req[p].user)
    /\ Goto(p, Idle)
    /\ UNCHANGED rows

----------------------------------------------------------------------------
(* DeleteUser: the soft delete, and the invalidation when it hit a row *)

\* Mutant: the entry of a deleted user is left alone.
DeleteExecReturns(p, u) ==
    /\ req[p] = Idle
    /\ Live(u)
    /\ SoftDelete(u)
    /\ Overtake(u)
    /\ UNCHANGED <<cache, req>>

DeleteExec(p, u) ==
    /\ req[p] = Idle
    /\ Live(u)
    /\ SoftDelete(u)
    /\ Overtake(u)
    /\ Goto(p, [pc |-> "delete_inval", user |-> u])
    /\ UNCHANGED cache

DeleteInval(p) ==
    /\ req[p].pc = "delete_inval"
    /\ Drop(req[p].user)
    /\ Goto(p, Idle)
    /\ UNCHANGED rows

----------------------------------------------------------------------------
(* A command fails, or the goroutine dies with it.  A failed SET of GetUser is *)
(* only logged and a failed DEL is logged or dropped, so each ends its request *)
(* all the same; a writer that stops after its statement leaves the entry.     *)

Writing(p) == req[p].pc \in {"update_select", "update_inval", "delete_inval"}

Fail(p) ==
    /\ Faulty
    /\ req[p] # Idle
    /\ raced' = IF Writing(p) THEN raced \cup {req[p].user} ELSE raced
    /\ Goto(p, Idle)
    /\ UNCHANGED <<rows, cache>>

\* Mutant: entries are stored without a TTL.
NeverExpire(u) == FALSE /\ UNCHANGED vars

(* The entry's TTL (15 minutes by default) runs out. *)
Expire(u) ==
    /\ cache[u] # Miss
    /\ Drop(u)
    /\ UNCHANGED <<rows, req>>

----------------------------------------------------------------------------
Write(p, u) == CreateUser(p, u) \/ UpdateExec(p, u) \/ DeleteExec(p, u)

Continue(p) ==
    \/ GetSelect(p) \/ GetSet(p)
    \/ UpdateSelect(p) \/ UpdateInval(p)
    \/ DeleteInval(p)

Next ==
    \/ \E p \in Procs, u \in UserIDs : GetMiss(p, u) \/ Write(p, u)
    \/ \E p \in Procs : Continue(p) \/ Fail(p)
    \/ \E u \in UserIDs : Expire(u)

Spec == Init /\ [][Next]_vars

\* Goroutines that serve a request run on; Redis drops keys whose TTL is over.
Fairness ==
    /\ \A p \in Procs : WF_vars(Continue(p) \/ Fail(p))
    /\ \A u \in UserIDs : WF_vars(Expire(u))

FairSpec == Spec /\ Fairness

----------------------------------------------------------------------------
Fresh(u) == Live(u) /\ cache[u] = ViewOf(u)

\* Somebody who changed u's row since is still going to invalidate its entry.
Correcting(u) ==
    \E p \in Procs :
        IF Live(u)
        THEN At(p, "update_select", u) \/ At(p, "update_inval", u)
        ELSE At(p, "delete_inval", u)

(* A user served from the cache is the user in the table, or whoever changed  *)
(* or deleted it is about to invalidate the entry; except when a read of the  *)
(* row straddled the write, or the writer failed in between (user_service.go  *)
(* 43-74, 144-163, 166-179: write first, invalidate after).                   *)
HitsFreshUnlessRaced ==
    \A u \in UserIDs : cache[u] # Miss /\ u \notin raced => Fresh(u) \/ Correcting(u)

(* When users stop being written, every cached user ends up current, and      *)
(* deleted users uncached, whatever was raced or lost: the TTL sees to it.    *)
Converges ==
    <>[][\A p \in Procs, u \in UserIDs : ~Write(p, u)]_vars
        => <>[](\A u \in UserIDs : cache[u] # Miss => Fresh(u))

\* The copies of u a GetUser may still be answered with.
Copies(u) ==
    ({cache[u]} \ {Miss}) \cup {req[p].copy : p \in {q \in Procs : At(q, "get_set", u)}}

Directory == INSTANCE UserDirectory WITH
    Views <- View,
    current <- [u \in UserIDs |-> Standing(u)],
    servable <- [u \in UserIDs |-> Copies(u)]

(* Whatever is raced, lost or late, GetUser answers with a user as he once    *)
(* was, changes reach live users only, and nothing brings a deleted user back *)
(* but the copies made before (user_service.go 43-74 and 121-179 over         *)
(* postgres.go and cache.go).                                                 *)
ImplementsDirectory == Directory!Spec

============================================================================
