--------------------------- MODULE AuthFlowProofs ---------------------------
(* AuthFlow uses SessionService as Sessions describes it, so that what is    *)
(* proved of Sessions holds of AuthFlow, for all values of the constants.    *)
EXTENDS AuthFlow, SessionsProofs

\* What a request carries names users and sessions: enough for SessionsStep.
CallsOK == call \in [Procs -> Calls]

\* A request that stands at one of these knows whom it is for.
LEMMA CallFields ==
  ASSUME CallsOK, NEW p \in Procs
  PROVE  /\ call[p].op # "none" => call[p].user \in Users
         /\ call[p].op \in {"authed", "refresh", "refreshing", "reissue"} =>
              call[p].id \in SessionIDs
  BY DEF CallsOK, Calls, NoCall

LEMMA NowCalls ==
  ASSUME CallsOK, NEW p \in Procs, NEW c \in Calls, Now(p, c)
  PROVE  CallsOK'
  BY DEF CallsOK, Now

LEMMA CallsStep ==
  ASSUME CallsOK, [AuthNext]_authVars
  PROVE  CallsOK'
<1>0. NoCall \in Calls
  BY DEF Calls
<1>1. ASSUME NEW p \in Procs, Arrive(p)
      PROVE  CallsOK'
  <2>1. PICK u \in Users : \/ LoginUser(p, u)
                           \/ \E id \in SessionIDs : RefreshCheck(p, u, id) \/ Authenticate(p, u, id)
    BY <1>1 DEF Arrive
  <2>2. CASE LoginUser(p, u)
    <3>1. [op |-> "login", user |-> u] \in Calls
      BY DEF Calls
    <3> QED
      BY <2>2, <3>1, NowCalls DEF LoginUser
  <2>3. ASSUME NEW id \in SessionIDs, RefreshCheck(p, u, id) \/ Authenticate(p, u, id)
        PROVE  CallsOK'
    <3>1. /\ [op |-> "refresh", user |-> u, id |-> id] \in Calls
          /\ [op |-> "authed", user |-> u, id |-> id] \in Calls
      BY DEF Calls
    <3> QED
      BY <2>3, <3>1, NowCalls DEF RefreshCheck, Authenticate
  <2> QED
    BY <2>1, <2>2, <2>3
<1>2. ASSUME NEW p \in Procs, Proceed(p)
      PROVE  CallsOK'
  <2>1. CASE LoginSession(p) \/ Reissue(p) \/ Perform(p)
    BY <2>1, <1>0, NowCalls DEF LoginSession, Reissue, Perform
  <2>2. CASE LoginToken(p) \/ Serve(p)
    BY <2>2 DEF LoginToken, Serve, CallsOK
  <2>3. CASE RefreshBegin(p)
    <3>1. [op |-> "refreshing", user |-> call[p].user, id |-> call[p].id] \in Calls
      BY <2>3, CallFields DEF RefreshBegin, Calls
    <3> QED
      BY <2>3, <3>1, <1>0, NowCalls DEF RefreshBegin
  <2>4. CASE RefreshEnd(p)
    <3>1. [op |-> "reissue", user |-> call[p].user, id |-> call[p].id] \in Calls
      BY <2>4, CallFields DEF RefreshEnd, Calls
    <3> QED
      BY <2>4, <3>1, NowCalls DEF RefreshEnd
  <2> QED
    BY <1>2, <2>1, <2>2, <2>3, <2>4 DEF Proceed
<1>3. ASSUME NEW p \in Procs, Abort(p)
      PROVE  CallsOK'
  BY <1>3, <1>0, NowCalls DEF Abort
<1>4. CASE Elapse \/ UNCHANGED authVars
  BY <1>4 DEF Elapse, authVars, CallsOK
<1> QED
  BY <1>1, <1>2, <1>3, <1>4 DEF AuthNext

-----------------------------------------------------------------------------
(* What a request does to the sessions is a step of Sessions, or nothing.    *)
LEMMA SessionsStep ==
  ASSUME CallsOK, [AuthNext]_authVars
  PROVE  [Next]_vars
<1>1. CASE Elapse
  BY <1>1 DEF Elapse, Next
<1>2. CASE UNCHANGED authVars
  BY <1>2 DEF authVars, vars
<1>3. ASSUME NEW p \in Procs, Arrive(p)
      PROVE  UNCHANGED vars
  BY <1>3 DEF Arrive, LoginUser, RefreshCheck, Authenticate
<1>4. ASSUME NEW p \in Procs, Abort(p)
      PROVE  [Next]_vars
  BY <1>4 DEF Abort, Next
<1>5. ASSUME NEW p \in Procs, Proceed(p)
      PROVE  [Next]_vars
  <2>1. CASE LoginSession(p)
    <3>1. call[p].user \in Users
      BY <2>1, CallFields DEF LoginSession
    <3> QED
      BY <2>1, <3>1 DEF LoginSession, Next, Start
  <2>2. CASE LoginToken(p)
    BY <2>2 DEF LoginToken, Next, Continue
  <2>3. CASE RefreshBegin(p)
    <3>1. call[p].id \in SessionIDs
      BY <2>3, CallFields DEF RefreshBegin
    <3> QED
      BY <2>3, <3>1 DEF RefreshBegin, Next, Start
  <2>4. CASE RefreshEnd(p)
    BY <2>4 DEF RefreshEnd, Next, Continue
  <2>5. CASE Reissue(p)
    BY <2>5 DEF Reissue
  <2>6. CASE Perform(p)
    <3>1. call[p].user \in Users /\ call[p].id \in SessionIDs
      BY <2>6, CallFields DEF Perform
    <3>2. CASE Logout(p)
      BY <3>1, <3>2 DEF Logout, Next, Start
    <3>3. CASE OnSessions(p)
      BY <3>1, <3>3 DEF OnSessions, Next, Start
    <3> QED
      BY <2>6, <3>2, <3>3 DEF Perform, OnUsers
  <2>7. CASE Serve(p)
    BY <2>7 DEF Serve, Next, Continue
  <2> QED
    BY <1>5, <2>1, <2>2, <2>3, <2>4, <2>5, <2>6, <2>7 DEF Proceed
<1> QED
  BY <1>1, <1>2, <1>3, <1>4, <1>5 DEF AuthNext

(* The actions of AuthFlow conjoin those of Sessions: what is proved of every *)
(* behaviour of Sessions can be cited of AuthFlow.                            *)
LEMMA AuthIsSessions == AuthSpec => Spec
<1>1. AuthInit => Init /\ CallsOK
  BY DEF AuthInit, CallsOK, Calls
<1>2. CallsOK /\ [AuthNext]_authVars => CallsOK' /\ [Next]_vars
  BY CallsStep, SessionsStep
<1> QED
  BY <1>1, <1>2, PTL DEF AuthSpec, Spec

(* With tokens and users around it, a session that was ended still stays     *)
(* ended, so no token for it is accepted before its id is issued anew.       *)
THEOREM LoggedOutTokensRefused == AuthSpec => []EndedStaysEnded
  BY AuthIsSessions, EndedSessionsStayEnded, PTL

-----------------------------------------------------------------------------
TokensOK ==
  /\ account \in [Users -> Accounts]
  /\ token \in [Users -> [SessionIDs -> 0 .. TokenTTL]]

LEMMA IssueType ==
  ASSUME TokensOK, NEW u \in Users, NEW id \in SessionIDs, Issue(u, id)
  PROVE  token' \in [Users -> [SessionIDs -> 0 .. TokenTTL]]
<1> DEFINE f == [token[u] EXCEPT ![id] = TokenTTL]
<1>1. TokenTTL \in 0 .. TokenTTL
  BY TokenTTLAssumption
<1>2. f \in [SessionIDs -> 0 .. TokenTTL]
  BY <1>1 DEF TokensOK
<1>3. token' = [token EXCEPT ![u] = f]
  BY DEF Issue
<1> QED
  BY <1>2, <1>3 DEF TokensOK

LEMMA TokensStep ==
  ASSUME TypeOK, CallsOK, TokensOK, [AuthNext]_authVars
  PROVE  TokensOK'
<1>1. CASE Elapse
  <2>1. \A n \in 0 .. TokenTTL : (IF n = 0 THEN 0 ELSE n - 1) \in 0 .. TokenTTL
    BY TokenTTLAssumption
  <2> QED
    BY <1>1, <2>1 DEF Elapse, TokensOK
<1>2. CASE UNCHANGED authVars
  BY <1>2 DEF authVars, TokensOK
<1>3. ASSUME NEW p \in Procs, Arrive(p) \/ Abort(p)
      PROVE  TokensOK'
  BY <1>3 DEF Arrive, LoginUser, RefreshCheck, Authenticate, Abort, TokensOK
<1>4. ASSUME NEW p \in Procs, Proceed(p)
      PROVE  TokensOK'
  <2>1. CASE LoginToken(p)
    <3>1. req[p].user \in Users /\ req[p].id \in SessionIDs
      BY <2>1 DEF LoginToken, TypeOK, Requests, Idle, Writes, CreateSets, RefreshSets, RevokeSets,
                  Write, CreateSAdds, LogoutAlls, Lists, ListSRems, Walk
    <3> QED
      BY <2>1, <3>1, IssueType DEF LoginToken, TokensOK
  <2>2. CASE Reissue(p)
    <3>1. call[p].user \in Users /\ call[p].id \in SessionIDs
      BY <2>2, CallFields DEF Reissue
    <3> QED
      BY <2>2, <3>1, IssueType DEF Reissue, TokensOK
  <2>3. CASE Perform(p)
    <3>1. \A u \in Users, a \in Accounts :
             [account EXCEPT ![u] = a] \in [Users -> Accounts]
      BY DEF TokensOK
    <3> QED
      BY <2>3, <3>1 DEF Perform, OnUsers, TokensOK
  <2>4. CASE LoginSession(p) \/ RefreshBegin(p) \/ RefreshEnd(p) \/ Serve(p)
    BY <2>4 DEF LoginSession, RefreshBegin, RefreshEnd, Serve, TokensOK
  <2> QED
    BY <1>4, <2>1, <2>2, <2>3, <2>4 DEF Proceed
<1> QED
  BY <1>1, <1>2, <1>3, <1>4 DEF AuthNext

(* Sessions, users, tokens and requests are well typed in every state.       *)
THEOREM AuthTypeCorrect == AuthSpec => []AuthTypeOK
<1>1. AuthInit => CallsOK /\ TokensOK
  BY TokenTTLAssumption DEF AuthInit, CallsOK, Calls, TokensOK, Accounts
<1>2. TypeOK /\ CallsOK /\ TokensOK /\ [AuthNext]_authVars => CallsOK' /\ TokensOK'
  BY CallsStep, TokensStep
<1>3. AuthSpec => []TypeOK
  BY AuthIsSessions, TypeCorrect, PTL
<1>4. TypeOK /\ CallsOK /\ TokensOK => AuthTypeOK
  BY DEF AuthTypeOK, CallsOK, TokensOK
<1> QED
  BY <1>1, <1>2, <1>3, <1>4, PTL DEF AuthSpec

(* What else is proved of sessions holds behind AuthService too: no session  *)
(* is accepted but for whom a login opened it or a refresh had seen it       *)
(* accepted, and no key disappears before its session has expired.           *)
THEOREM AuthKeepsRegister == AuthSpec => ImplementsRegister
  BY AuthIsSessions, RegisterImplemented, PTL

THEOREM AuthKeysOutliveSessions == AuthSpec => []KeyOutlivesSession
  BY AuthIsSessions, KeysOutliveSessions, PTL

-----------------------------------------------------------------------------
(* Nothing but CreateStart sets a goroutine on the way to a token of u.      *)
LEMMA NoneEnters ==
  ASSUME NEW u \in Users,
         \A q \in Procs : \/ req'[q] = req[q]
                         \/ req'[q].pc \notin {"create_set", "create_sadd"}
                         \/ q \in Entering(u) \/ req'[q].user # u
  PROVE  Entering(u)' \subseteq Entering(u)
  BY DEF Entering

LEMMA ContinueEnters ==
  ASSUME TypeOK, NEW p \in Procs, NEW u \in Users, Continue(p) \/ Fail(p)
  PROVE  Entering(u)' \subseteq Entering(u)
<1>1. \A q \in Procs : q # p => req'[q] = req[q]
  BY DEF Continue, Fail, CreateSet, CreateSAdd, RevokeSet, RefreshSet, LogoutAllDel, ListGet,
         LogoutAllUnset, ListSRem, ListDone, Goto, TypeOK
<1>2. CASE CreateSet(p)
  <2>1. req[p].pc = "create_set" /\ req'[p].user = req[p].user
    BY <1>2 DEF CreateSet, Goto, TypeOK
  <2> QED
    BY <1>1, <2>1 DEF Entering
<1>3. CASE \E id \in SessionIDs : LogoutAllDel(p, id) \/ ListGet(p, id)
  <2>1. req[p] \in LogoutAlls \cup Lists
    BY <1>3, RequestFields DEF LogoutAllDel, ListGet, TypeOK
  <2>2. req'[p].pc \in {"list", "list_srem", "logout_all"}
    BY <1>3, <2>1 DEF LogoutAllDel, ListGet, Goto, TypeOK, LogoutAlls, Lists, Walk
  <2> QED
    BY <1>1, <2>2, NoneEnters
<1>4. CASE CreateSAdd(p) \/ RevokeSet(p) \/ RefreshSet(p) \/ LogoutAllUnset(p) \/ ListDone(p)
           \/ Fail(p)
  <2>1. Goto(p, Idle)
    BY <1>4 DEF CreateSAdd, RevokeSet, RefreshSet, LogoutAllUnset, ListDone, Fail
  <2>2. req'[p].pc = "idle"
    BY <2>1 DEF Goto, TypeOK, Idle
  <2> QED
    BY <1>1, <2>2, NoneEnters
<1>5. CASE ListSRem(p)
  <2>1. req'[p].pc = "list"
    BY <1>5 DEF ListSRem, Goto, TypeOK
  <2> QED
    BY <1>1, <2>1, NoneEnters
<1> QED
  BY <1>2, <1>3, <1>4, <1>5 DEF Continue

LEMMA TickEnters ==
  ASSUME TypeOK, Tick, NEW u \in Users
  PROVE  Entering(u)' \subseteq Entering(u)
<1> SUFFICES ASSUME NEW p \in Procs, req'[p].pc \in {"create_set", "create_sadd"}
             PROVE  req[p].pc = req'[p].pc /\ req[p].user = req'[p].user
  BY DEF Entering
<1>1. req[p] \in Requests /\ req'[p] = AgedRequest(req[p])
  BY DEF TypeOK, Tick
<1>2. req[p].pc = req'[p].pc
  BY <1>1, AgedRequestType
<1>3. req[p].pc = "create_set" => req[p] \in Writes
  BY <1>1 DEF Requests, Writes, CreateSets, RefreshSets, RevokeSets, Write,
              Idle, CreateSAdds, LogoutAlls, Lists, ListSRems, Walk
<1>4. req[p].pc = "create_sadd" => req'[p] = req[p]
  BY <1>1, AgedRequestType
<1> QED
  BY <1>1, <1>2, <1>3, <1>4, AgedRequestType

\* What DeletedGetNoTokens asks of a step, for one user.
OnlyRunsOut(u) ==
  /\ account'[u] = "deleted"
  /\ Entering(u)' \subseteq Entering(u)
  /\ \A id \in SessionIDs : token'[u][id] > token[u][id] =>
        \E p \in Entering(u) \ Entering(u)' : req[p].id = id

(* A step that issues no token can only break it by who enters.              *)
LEMMA NoTokenStep ==
  ASSUME TokensOK, NEW u \in Users, account'[u] = "deleted", token' = token,
         Entering(u)' \subseteq Entering(u)
  PROVE  OnlyRunsOut(u)
<1>1. \A id \in SessionIDs : token[u][id] \in Nat
  BY TokenTTLAssumption DEF TokensOK
<1>2. \A id \in SessionIDs : ~(token[u][id] > token[u][id])
  BY <1>1
<1> QED
  BY <1>2 DEF OnlyRunsOut

LEMMA KeptEntering ==
  ASSUME UNCHANGED vars, NEW u \in Users
  PROVE  Entering(u)' = Entering(u)
  BY DEF vars, Entering

LEMMA LoginSessionEnters ==
  ASSUME TypeOK, CallsOK, NEW p \in Procs, LoginSession(p), NEW u \in Users,
         account[u] = "deleted"
  PROVE  Entering(u)' \subseteq Entering(u)
<1>1. CASE account[call[p].user] = "deleted"
  BY <1>1, KeptEntering DEF LoginSession
<1>2. CASE account[call[p].user] # "deleted"
  <2>1. PICK id \in SessionIDs :
           Goto(p, [pc |-> "create_set", id |-> id, user |-> call[p].user, left |-> SessionTTL])
    BY <1>2 DEF LoginSession, CreateStart
  <2>2. req'[p].user = call[p].user /\ \A q \in Procs : q # p => req'[q] = req[q]
    BY <2>1 DEF Goto, TypeOK
  <2> QED
    BY <1>2, <2>2, NoneEnters
<1> QED
  BY <1>1, <1>2

LEMMA PerformEnters ==
  ASSUME TypeOK, CallsOK, NEW p \in Procs, Perform(p), NEW u \in Users
  PROVE  Entering(u)' \subseteq Entering(u)
<1>1. CASE UNCHANGED vars
  BY <1>1, KeptEntering
<1>2. CASE Logout(p)
  BY <1>2 DEF Logout, Delete, Entering
<1>3. CASE OnSessions(p)
  <2>1. \A q \in Procs : req'[q] = req[q] \/ req'[q].pc \notin {"create_set", "create_sadd"}
    BY <1>3 DEF OnSessions, LogoutAllStart, ListStart, RevokeGet, Goto, TypeOK
  <2> QED
    BY <2>1, NoneEnters
<1> QED
  BY <1>1, <1>2, <1>3 DEF Perform, OnUsers

LEMMA LoginTokenRunsOut ==
  ASSUME TypeOK, TokensOK, NEW p \in Procs, LoginToken(p), NEW u \in Users,
         account[u] = "deleted"
  PROVE  OnlyRunsOut(u)
<1>1. account' = account /\ (Continue(p) \/ Fail(p)) /\ req[p].pc = "create_sadd"
  BY DEF LoginToken, Continue
<1>2. Entering(u)' \subseteq Entering(u)
  BY <1>1, ContinueEnters
<1>3. req[p].user \in Users /\ req[p].id \in SessionIDs
  BY <1>1, RequestFields DEF TypeOK
<1>4. p \notin Entering(u)'
  <2>1. Goto(p, Idle)
    BY DEF LoginToken, CreateSAdd, Fail
  <2>2. req'[p].pc = "idle"
    BY <2>1 DEF Goto, TypeOK, Idle
  <2> QED
    BY <2>2 DEF Entering
<1>5. ASSUME NEW id \in SessionIDs, token'[u][id] # token[u][id]
      PROVE  req[p].user = u /\ req[p].id = id
  BY <1>3, <1>5 DEF LoginToken, Issue, TokensOK
<1>6. ASSUME NEW id \in SessionIDs, token'[u][id] > token[u][id]
      PROVE  \E q \in Entering(u) \ Entering(u)' : req[q].id = id
  <2>1. token[u][id] \in Nat
    BY TokenTTLAssumption DEF TokensOK
  <2>2. token'[u][id] # token[u][id]
    BY <1>6, <2>1
  <2>3. req[p].user = u /\ req[p].id = id
    BY <1>5, <2>2
  <2> QED
    BY <1>1, <1>4, <2>3 DEF Entering
<1> QED
  BY <1>1, <1>2, <1>6 DEF OnlyRunsOut

LEMMA ReissueRunsOut ==
  ASSUME TypeOK, CallsOK, TokensOK, NEW p \in Procs, Reissue(p), NEW u \in Users,
         account[u] = "deleted"
  PROVE  OnlyRunsOut(u)
<1>1. account' = account /\ Entering(u)' = Entering(u)
  BY KeptEntering DEF Reissue
<1>2. call[p].user \in Users /\ call[p].id \in SessionIDs
  BY CallFields DEF Reissue
<1>3. token'[u] = token[u]
  BY <1>2 DEF Reissue, Issue, TokensOK
<1>4. \A id \in SessionIDs : token[u][id] \in Nat
  BY TokenTTLAssumption DEF TokensOK
<1>5. \A id \in SessionIDs : ~(token'[u][id] > token[u][id])
  BY <1>3, <1>4
<1> QED
  BY <1>1, <1>5 DEF OnlyRunsOut

LEMMA ElapseRunsOut ==
  ASSUME TypeOK, TokensOK, Elapse, NEW u \in Users, account[u] = "deleted"
  PROVE  OnlyRunsOut(u)
<1>1. account' = account /\ Entering(u)' \subseteq Entering(u)
  BY TickEnters DEF Elapse
<1>2. ASSUME NEW id \in SessionIDs
      PROVE  ~(token'[u][id] > token[u][id])
  <2>1. token[u][id] \in Nat
    BY TokenTTLAssumption DEF TokensOK
  <2>2. token'[u][id] = IF token[u][id] = 0 THEN 0 ELSE token[u][id] - 1
    BY DEF Elapse
  <2> QED
    BY <2>1, <2>2
<1> QED
  BY <1>1, <1>2 DEF OnlyRunsOut

LEMMA DeletedStep ==
  ASSUME TypeOK, CallsOK, TokensOK, [AuthNext]_authVars, NEW u \in Users,
         account[u] = "deleted"
  PROVE  OnlyRunsOut(u)
<1>1. CASE Elapse
  BY <1>1, ElapseRunsOut
<1>2. CASE UNCHANGED authVars
  BY <1>2, KeptEntering, NoTokenStep DEF authVars, vars
<1>3. ASSUME NEW p \in Procs, Arrive(p)
      PROVE  OnlyRunsOut(u)
  <2>1. UNCHANGED <<vars, account, token>>
    BY <1>3 DEF Arrive, LoginUser, RefreshCheck, Authenticate
  <2> QED
    BY <2>1, KeptEntering, NoTokenStep
<1>4. ASSUME NEW p \in Procs, Abort(p)
      PROVE  OnlyRunsOut(u)
  BY <1>4, KeptEntering, ContinueEnters, NoTokenStep DEF Abort
<1>5. ASSUME NEW p \in Procs, Proceed(p)
      PROVE  OnlyRunsOut(u)
  <2>1. CASE LoginSession(p)
    BY <2>1, LoginSessionEnters, NoTokenStep DEF LoginSession
  <2>2. CASE LoginToken(p)
    BY <2>2, LoginTokenRunsOut
  <2>3. CASE RefreshBegin(p)
    <3>1. \A q \in Procs : req'[q] = req[q] \/ req'[q].pc \notin {"create_set", "create_sadd"}
      BY <2>3 DEF RefreshBegin, RefreshGet, Goto, TypeOK, vars
    <3> QED
      BY <2>3, <3>1, NoneEnters, NoTokenStep DEF RefreshBegin
  <2>4. CASE RefreshEnd(p) \/ Serve(p)
    <3>1. Continue(p) /\ UNCHANGED <<account, token>>
      BY <2>4 DEF RefreshEnd, Serve, Continue
    <3> QED
      BY <3>1, ContinueEnters, NoTokenStep
  <2>5. CASE Reissue(p)
    BY <2>5, ReissueRunsOut
  <2>6. CASE Perform(p)
    <3>1. account'[u] = "deleted" /\ token' = token
      BY <2>6 DEF Perform, OnUsers, TokensOK
    <3> QED
      BY <2>6, <3>1, PerformEnters, NoTokenStep
  <2> QED
    BY <1>5, <2>1, <2>2, <2>3, <2>4, <2>5, <2>6 DEF Proceed
<1> QED
  BY <1>1, <1>2, <1>3, <1>4, <1>5 DEF AuthNext

(* A user who was deleted gets no token any more, but for the logins that    *)
(* were past their last look at the user: what DeletedUserLosesAccess needs  *)
(* of every single step.                                                     *)
THEOREM NoTokensAfterDeletion == AuthSpec => DeletedGetNoTokens
<1>1. AuthTypeOK /\ [AuthNext]_authVars =>
        [\A u \in Users : account[u] = "deleted" =>
            /\ account'[u] = "deleted"
            /\ Entering(u)' \subseteq Entering(u)
            /\ \A id \in SessionIDs : token'[u][id] > token[u][id] =>
                  \E p \in Entering(u) \ Entering(u)' : req[p].id = id]_authVars
  BY DeletedStep DEF AuthTypeOK, CallsOK, TokensOK, OnlyRunsOut
<1>2. AuthSpec => []AuthTypeOK
  BY AuthTypeCorrect
<1> QED
  BY <1>1, <1>2, PTL DEF AuthSpec, DeletedGetNoTokens
=============================================================================
