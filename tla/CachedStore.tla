----------------------------- MODULE CachedStore -----------------------------
(***************************************************************************)
(* CachedUserStore of internal/repository/cached_store.go over the users   *)
(* table and the cache of internal/repository/cache.go.  Where UserService *)
(* writes and then invalidates, this store invalidates, writes and caches  *)
(* again what it reads back.  It is built by nothing in the program yet:   *)
(* it is modelled as a UserStore that requests use concurrently.           *)
(*                                                                         *)
(* A profile is every column read with a user apart from active, the last  *)
(* login among them: UpdateLastLogin is a write of it.                     *)
(***************************************************************************)
EXTENDS UserTable

CONSTANTS
    Procs,   \* goroutines using the store
    Faulty,  \* TRUE when a command may fail and a goroutine may die
    Miss     \* no "user:<id>" key in Redis

ASSUME FaultyAssumption == Faulty \in BOOLEAN
ASSUME MissAssumption == Miss \notin View

VARIABLES
    cache,  \* "user:<id>" keys
    req,    \* the operation each goroutine is executing
    raced   \* history: users whose cache entry nothing is bound to correct

vars == <<rows, cache, req, raced>>

Idle == [pc |-> "idle"]

\* The next statement of an operation; all three that cache end in the same SET.
Statements == {"get_select", "create_select", "update_exec", "update_select", "delete_exec", "login_exec"}
Running    == [pc : Statements, user : UserIDs]
Sets       == [pc : {"set"}, user : UserIDs, copy : View]
Purges     == [pc : {"purge"}, todo : SUBSET UserIDs, found : SUBSET UserIDs]
Requests   == {Idle} \cup Running \cup Sets \cup Purges

TypeOK ==
    /\ RowsTypeOK
    /\ cache \in [UserIDs -> View \cup {Miss}]
    /\ req \in [Procs -> Requests]
    /\ raced \in SUBSET UserIDs

Init ==
    /\ RowsInit
    /\ cache = [u \in UserIDs |-> Miss]
    /\ req = [p \in Procs |-> Idle]
    /\ raced = {}

----------------------------------------------------------------------------
At(p, pc, u) == req[p].pc = pc /\ req[p].user = u

Others(p) == Procs \ {p}

\* One of the goroutines in P is about to cache a copy of u.
Setting(P, u) == \E p \in P : At(p, "set", u)

Goto(p, r) == req' = [req EXCEPT ![p] = r]

Step(p, pc, u) == Goto(p, [pc |-> pc, user |-> u])

\* The entries of U are gone; where nobody holds a copy nothing old can return.
Drop(U) ==
    /\ cache' = [u \in UserIDs |-> IF u \in U THEN Miss ELSE cache[u]]
    /\ raced' = raced \ {u \in U : ~Setting(Procs, u)}

\* Invalidate before a write: its error is logged and the write goes ahead.
Invalidate(u) == Drop({u}) \/ (Faulty /\ UNCHANGED <<cache, raced>>)

\* u's row changes under the copies that are about to be cached, and, when
\* the writer will not cache the user again, under the entry that is there.
Overtake(u, recaches) ==
    raced' = IF Setting(Procs, u) \/ (~recaches /\ cache[u] # Miss)
             THEN raced \cup {u} ELSE raced

----------------------------------------------------------------------------
(* GetByID: a hit changes nothing; on a miss, or an error, SELECT and SET *)

GetMiss(p, u) ==
    /\ req[p] = Idle
    /\ cache[u] = Miss \/ Faulty
    /\ Step(p, "get_select", u)
    /\ UNCHANGED <<rows, cache, raced>>

(* Create: INSERT, then the user read back *)

CreateExec(p, u) ==
    /\ req[p] = Idle
    /\ Insert(u)
    /\ Step(p, "create_select", u)
    /\ UNCHANGED <<cache, raced>>

(* Update: Invalidate, UPDATE, then the user read back *)

UpdateStart(p, u) ==
    /\ req[p] = Idle
    /\ Invalidate(u)
    /\ Step(p, "update_exec", u)
    /\ UNCHANGED rows

UpdateExec(p) ==
    /\ req[p].pc = "update_exec"
    /\ LET u == req[p].user IN
         /\ Update(u)
         /\ Overtake(u, TRUE)
         /\ Step(p, "update_select", u)
    /\ UNCHANGED cache

\* Mutant: an update trusts the invalidation and does not cache the user again.
SelectNoRecache(p) ==
    /\ req[p].pc \in {"get_select", "create_select", "update_select"}
    /\ LET u == req[p].user IN
         IF Live(u) /\ req[p].pc # "update_select"
         THEN Goto(p, [pc |-> "set", user |-> u, copy |-> ViewOf(u)])
         ELSE Goto(p, Idle)
    /\ UNCHANGED <<rows, cache, raced>>

\* Mutant: what goes to the cache is the request, not the row.
SelectEcho(p) ==
    /\ req[p].pc \in {"get_select", "create_select", "update_select"}
    /\ LET u == req[p].user IN
         \/ \E v \in View : Goto(p, [pc |-> "set", user |-> u, copy |-> v])
         \/ ~Live(u) /\ Goto(p, Idle)
    /\ UNCHANGED <<rows, cache, raced>>

\* Mutant: a user who was not found is cached as such.
SelectCachesNull(p) ==
    /\ req[p].pc \in {"get_select", "create_select", "update_select"}
    /\ LET u == req[p].user IN
         Goto(p, [pc |-> "set", user |-> u, copy |-> IF Live(u) THEN ViewOf(u) ELSE NoRow])
    /\ UNCHANGED <<rows, cache, raced>>

\* GetByID of the PostgreSQL store, in all three operations: ErrNotFound ends them.
Select(p) ==
    /\ req[p].pc \in {"get_select", "create_select", "update_select"}
    /\ LET u == req[p].user IN
         IF Live(u)
         THEN Goto(p, [pc |-> "set", user |-> u, copy |-> ViewOf(u)])
         ELSE Goto(p, Idle)
    /\ UNCHANGED <<rows, cache, raced>>

\* A copy that is current, and the last on its way, makes the entry right.
CacheSet(p) ==
    /\ req[p].pc = "set"
    /\ LET u == req[p].user IN
         /\ cache' = [cache EXCEPT ![u] = req[p].copy]
         /\ raced' = IF Live(u) /\ req[p].copy = ViewOf(u) /\ ~Setting(Others(p), u)
                     THEN raced \ {u} ELSE raced
    /\ Goto(p, Idle)
    /\ UNCHANGED rows

----------------------------------------------------------------------------
(* Delete, UpdateLastLogin: Invalidate, then the write, and nothing after it *)

DeleteStart(p, u) ==
    /\ req[p] = Idle
    /\ Invalidate(u)
    /\ Step(p, "delete_exec", u)
    /\ UNCHANGED rows

DeleteExec(p) ==
    /\ req[p].pc = "delete_exec"
    /\ LET u == req[p].user IN
         IF Live(u)
         THEN SoftDelete(u) /\ Overtake(u, FALSE)
         ELSE UNCHANGED <<rows, raced>>
    /\ Goto(p, Idle)
    /\ UNCHANGED cache

LoginStart(p, u) ==
    /\ req[p] = Idle
    /\ Invalidate(u)
    /\ Step(p, "login_exec", u)
    /\ UNCHANGED rows

\* Its WHERE clause does not ask whether the user is deleted.
LoginExec(p) ==
    /\ req[p].pc = "login_exec"
    /\ LET u == req[p].user IN
         IF rows[u] # NoRow
         THEN /\ \E pr \in Profiles : rows' = [rows EXCEPT ![u] =
                    [profile |-> pr, active |-> rows[u].active, deleted |-> rows[u].deleted]]
              /\ Overtake(u, FALSE)
         ELSE UNCHANGED <<rows, raced>>
    /\ Goto(p, Idle)
    /\ UNCHANGED cache

----------------------------------------------------------------------------
(* InvalidatePattern: SCAN meets the matching keys one by one, DEL takes all *)

PurgeStart(p) ==
    /\ req[p] = Idle
    /\ \E U \in SUBSET UserIDs : Goto(p, [pc |-> "purge", todo |-> U, found |-> {}])
    /\ UNCHANGED <<rows, cache, raced>>

PurgeScan(p, u) ==
    /\ req[p].pc = "purge"
    /\ u \in req[p].todo
    /\ Goto(p, [pc |-> "purge", todo |-> req[p].todo \ {u},
                found |-> IF cache[u] # Miss THEN req[p].found \cup {u} ELSE req[p].found])
    /\ UNCHANGED <<rows, cache, raced>>

PurgeDel(p) ==
    /\ req[p].pc = "purge"
    /\ req[p].todo = {}
    /\ Drop(req[p].found)
    /\ Goto(p, Idle)
    /\ UNCHANGED rows

----------------------------------------------------------------------------
(* A command fails, or the goroutine dies with it: the operation is over.  An *)
(* update that wrote, and whoever was about to cache, leave the entry there.  *)

Repairing(p) == req[p].pc \in {"update_select", "set"}

Fail(p) ==
    /\ Faulty
    /\ req[p] # Idle
    /\ raced' = IF Repairing(p) /\ cache[req[p].user] # Miss
                THEN raced \cup {req[p].user} ELSE raced
    /\ Goto(p, Idle)
    /\ UNCHANGED <<rows, cache>>

\* Mutant: entries are stored without a TTL.
NeverExpire(u) == FALSE /\ UNCHANGED vars

(* The entry's TTL runs out. *)
Expire(u) ==
    /\ cache[u] # Miss
    /\ Drop({u})
    /\ UNCHANGED <<rows, req>>

----------------------------------------------------------------------------
Start(p, u) ==
    \/ GetMiss(p, u) \/ CreateExec(p, u)
    \/ UpdateStart(p, u) \/ DeleteStart(p, u) \/ LoginStart(p, u)

Continue(p) ==
    \/ UpdateExec(p) \/ Select(p) \/ CacheSet(p)
    \/ DeleteExec(p) \/ LoginExec(p)
    \/ (\E u \in UserIDs : PurgeScan(p, u)) \/ PurgeDel(p)

Next ==
    \/ \E p \in Procs, u \in UserIDs : Start(p, u)
    \/ \E p \in Procs : PurgeStart(p) \/ Continue(p) \/ Fail(p)
    \/ \E u \in UserIDs : Expire(u)

Spec == Init /\ [][Next]_vars

\* As in UserService: operations run on, and Redis drops keys whose TTL is over.
Fairness ==
    /\ \A p \in Procs : WF_vars(Continue(p) \/ Fail(p))
    /\ \A u \in UserIDs : WF_vars(Expire(u))

FairSpec == Spec /\ Fairness

----------------------------------------------------------------------------
Fresh(u) == Live(u) /\ cache[u] = ViewOf(u)

\* Somebody is bound to put the current user in the cache.
Correcting(u) ==
    /\ Live(u)
    /\ \E p \in Procs :
          At(p, "update_select", u) \/ (At(p, "set", u) /\ req[p].copy = ViewOf(u))

(* An entry that is out of date is about to be overwritten by the update that *)
(* made it so, which covers a read that slips in between the invalidation and *)
(* the UPDATE, and a failed invalidation.  The exceptions: a copy was in      *)
(* flight when the row changed (of a read, or of another update's re-caching),*)
(* a Delete or UpdateLastLogin hit a user somebody had cached again, or the   *)
(* one who was to correct it failed (cached_store.go 37-143).                 *)
StaleOnlyIfRaced ==
    \A u \in UserIDs : cache[u] # Miss /\ u \notin raced => Fresh(u) \/ Correcting(u)

(* Once nobody writes any more, every entry ends up current and the deleted   *)
(* users' entries gone: the TTL mends what cached_store.go:110 and 122 leave. *)
Converges ==
    <>[][\A p \in Procs : ~DeleteExec(p) /\ ~LoginExec(p) /\ ~UpdateExec(p)]_vars
        => <>[](\A u \in UserIDs : cache[u] # Miss => Fresh(u))

\* The copies of u that GetByID may still answer with.
Copies(u) ==
    ({cache[u]} \ {Miss}) \cup {req[p].copy : p \in {q \in Procs : At(q, "set", u)}}

Directory == INSTANCE UserDirectory WITH
    Views <- View,
    current <- [u \in UserIDs |-> Standing(u)],
    servable <- [u \in UserIDs |-> Copies(u)]

(* The order of writing and invalidating decides how long old users are       *)
(* served, not what: GetByID answers with what the user once was, and what    *)
(* Update re-caches is the row as it is, never the request (cached_store.go   *)
(* 80-108).                                                                   *)
ImplementsDirectory == Directory!Spec

============================================================================
