------------------------------ MODULE AuthFlow ------------------------------
(***************************************************************************)
(* AuthService of internal/service/auth_service.go: tokens, the sessions   *)
(* they name and the users they speak for.  It runs the operations of      *)
(* SessionService, whose commands are the actions of Sessions, and reads   *)
(* the users table; what it hands out are signed tokens, which nothing can *)
(* take back before they expire (internal/auth/jwt.go).                    *)
(*                                                                         *)
(* The password check and the upgrade of hashes are in Credentials, the    *)
(* cache of users in UserService: AuthService reads the table itself.      *)
(* Tokens of the v1 API name no session and only expire.                   *)
(***************************************************************************)
EXTENDS Sessions

CONSTANTS TokenTTL   \* JWTConfig.Expiration (24h), in ticks

ASSUME TokenTTLAssumption == TokenTTL \in Nat \ {0}

VARIABLES
    account,  \* what the users table says of each user
    token,    \* token[u][id]: how long the last token of u for session id is valid
    call      \* what each goroutine's request knows outside SessionService

authVars == <<store, tracked, req, fate, account, token, call>>

NoCall   == [op |-> "none"]
Accounts == {"active", "inactive", "deleted"}
Calls ==
    {NoCall}
        \cup [op : {"login"}, user : Users]
        \cup [op : {"authed", "refresh", "refreshing", "reissue"}, user : Users, id : SessionIDs]

AuthTypeOK ==
    /\ TypeOK
    /\ account \in [Users -> Accounts]
    /\ token \in [Users -> [SessionIDs -> 0 .. TokenTTL]]
    /\ call \in [Procs -> Calls]

AuthInit ==
    /\ Init
    /\ account = [u \in Users |-> "active"]
    /\ token = [u \in Users |-> [id \in SessionIDs |-> 0]]
    /\ call = [p \in Procs |-> NoCall]

----------------------------------------------------------------------------
\* JWTService.ValidateToken: the signature is good and the token has not expired.
ValidToken(u, id) == token[u][id] > 0

\* AuthService.ValidateToken: and Get accepts its session.  Nobody asks whose
\* session it is, or about the user.
Accepted(u, id) == ValidToken(u, id) /\ Usable(id)

Free(p) == req[p] = Idle /\ call[p] = NoCall

Now(p, c) == call' = [call EXCEPT ![p] = c]

\* GenerateToken
Issue(u, id) == token' = [token EXCEPT ![u][id] = TokenTTL]

----------------------------------------------------------------------------
(* Login: find an active user, create a session, hand out a token for it *)

LoginUser(p, u) ==
    /\ Free(p)
    /\ account[u] = "active"
    /\ Now(p, [op |-> "login", user |-> u])
    /\ UNCHANGED <<vars, account, token>>

\* GetPasswordHash, and what follows a good password up to the session's SET.
LoginSession(p) ==
    /\ call[p].op = "login"
    /\ IF account[call[p].user] # "deleted"
       THEN CreateStart(p, call[p].user)
       ELSE UNCHANGED vars
    /\ Now(p, NoCall)
    /\ UNCHANGED <<account, token>>

\* The outcome of SADD makes no difference to the token.
LoginToken(p) ==
    /\ req[p].pc = "create_sadd"
    /\ Issue(req[p].user, req[p].id)
    /\ CreateSAdd(p) \/ Fail(p)
    /\ UNCHANGED <<account, call>>

----------------------------------------------------------------------------
(* RefreshToken: validate, Get, Refresh (a second GET, and the SET), find the user *)

\* An expired token comes back without claims and the handler panics.
RefreshCheck(p, u, id) ==
    /\ Free(p)
    /\ Accepted(u, id)
    /\ Now(p, [op |-> "refresh", user |-> u, id |-> id])
    /\ UNCHANGED <<vars, account, token>>

RefreshBegin(p) ==
    /\ call[p].op = "refresh"
    /\ \/ /\ RefreshGet(p, call[p].id)
          /\ Now(p, [op |-> "refreshing", user |-> call[p].user, id |-> call[p].id])
       \/ /\ ~Usable(call[p].id)
          /\ Now(p, NoCall)
          /\ UNCHANGED vars
    /\ UNCHANGED <<account, token>>

RefreshEnd(p) ==
    /\ call[p].op = "refreshing"
    /\ RefreshSet(p)
    /\ Now(p, [op |-> "reissue", user |-> call[p].user, id |-> call[p].id])
    /\ UNCHANGED <<account, token>>

\* Mutant: the claims of the old token are good enough.
ReissueFromClaims(p) ==
    /\ call[p].op = "reissue"
    /\ Issue(call[p].user, call[p].id)
    /\ Now(p, NoCall)
    /\ UNCHANGED <<vars, account>>

\* GetByID finds inactive users too.
Reissue(p) ==
    /\ call[p].op = "reissue"
    /\ IF account[call[p].user] # "deleted"
       THEN Issue(call[p].user, call[p].id)
       ELSE UNCHANGED token
    /\ Now(p, NoCall)
    /\ UNCHANGED <<vars, account>>

----------------------------------------------------------------------------
(* Requests behind AuthMiddleware: checked once, carried out later *)

Authenticate(p, u, id) ==
    /\ Free(p)
    /\ Accepted(u, id)
    /\ Now(p, [op |-> "authed", user |-> u, id |-> id])
    /\ UNCHANGED <<vars, account, token>>

\* Logout, whose second ValidateToken is the check that counts.
Logout(p) == Delete(p, call[p].id)

\* LogoutAll, GetSessions, and RevokeSession of any id.
OnSessions(p) ==
    \/ LogoutAllStart(p, call[p].user)
    \/ ListStart(p, call[p].user)
    \/ \E id \in SessionIDs : RevokeGet(p, id)

\* UpdateUser's active flag and DeleteUser, of any user.
OnUsers ==
    /\ \E u \in Users, a \in Accounts :
          account[u] # "deleted" /\ account' = [account EXCEPT ![u] = a]
    /\ UNCHANGED vars

\* The last disjunct: every other request, and one refused on the way.
Perform(p) ==
    /\ call[p].op = "authed"
    /\ \/ (Logout(p) \/ OnSessions(p)) /\ UNCHANGED account
       \/ OnUsers
       \/ UNCHANGED <<vars, account>>
    /\ Now(p, NoCall)
    /\ UNCHANGED token

----------------------------------------------------------------------------
(* SessionService goes on with what was begun *)

Serve(p) ==
    /\ \/ CreateSet(p) \/ RevokeSet(p) \/ LogoutAllUnset(p) \/ ListSRem(p) \/ ListDone(p)
       \/ \E id \in SessionIDs : LogoutAllDel(p, id) \/ ListGet(p, id)
    /\ UNCHANGED <<account, token, call>>

\* A failing command or a dying goroutine, wherever the request is.
Abort(p) ==
    /\ Faulty
    /\ ~Free(p)
    /\ Fail(p) \/ (req[p] = Idle /\ UNCHANGED vars)
    /\ Now(p, NoCall)
    /\ UNCHANGED <<account, token>>

Elapse ==
    /\ Tick
    /\ token' = [u \in Users |-> [id \in SessionIDs |->
           IF token[u][id] = 0 THEN 0 ELSE token[u][id] - 1]]
    /\ UNCHANGED <<account, call>>

----------------------------------------------------------------------------
Arrive(p) ==
    \E u \in Users :
        \/ LoginUser(p, u)
        \/ \E id \in SessionIDs : RefreshCheck(p, u, id) \/ Authenticate(p, u, id)

Proceed(p) ==
    \/ LoginSession(p) \/ LoginToken(p)
    \/ RefreshBegin(p) \/ RefreshEnd(p) \/ Reissue(p)
    \/ Perform(p) \/ Serve(p)

AuthNext ==
    \/ \E p \in Procs : Arrive(p) \/ Proceed(p) \/ Abort(p)
    \/ Elapse

AuthSpec == AuthInit /\ [][AuthNext]_authVars

AuthFairness == WF_authVars(Elapse) /\ \A p \in Procs : WF_authVars(Proceed(p) \/ Abort(p))

AuthFairSpec == AuthSpec /\ AuthFairness

----------------------------------------------------------------------------
(* A deleted user is locked out in the end: RefreshToken prolongs the session *)
(* before it looks for the user, and a login may have found the user just     *)
(* before, but no token follows the last one (auth_service.go:213-246).       *)
DeletedUserLosesAccess ==
    \A u \in Users : [](account[u] = "deleted" => <>[](\A id \in SessionIDs : ~Accepted(u, id)))

\* Logins of u that have looked at the users table for the last time.
Entering(u) ==
    {p \in Procs : req[p].pc \in {"create_set", "create_sadd"} /\ req[p].user = u}

(* From its deletion on, a user's tokens only run out: no request begins a    *)
(* session for the user any more, and only a login that was creating one at   *)
(* that time still ends with a token, for that session.  Refreshes that were  *)
(* under way, checked when the user was there, bring none (auth_service.go    *)
(* 74-112 and 207-246).                                                       *)
DeletedGetNoTokens ==
    [][\A u \in Users : account[u] = "deleted" =>
          /\ account'[u] = "deleted"
          /\ Entering(u)' \subseteq Entering(u)
          /\ \A id \in SessionIDs : token'[u][id] > token[u][id] =>
                \E p \in Entering(u) \ Entering(u)' : req[p].id = id]_authVars
=============================================================================
