--------------------------- MODULE UserDirectory ---------------------------
(***************************************************************************)
(* What a cached users service promises its readers, apart from how rows   *)
(* and cache entries keep it: a read of a user may be out of date, but it  *)
(* never answers with anything the user was not at some time, and a user   *)
(* who is gone comes back only for as long as copies of him are left.      *)
(* UserService and CachedStore implement it; see their Directory.          *)
(***************************************************************************)
CONSTANTS
    UserIDs,
    Views,   \* what a reader can be told of a user
    Unborn,  \* an id no user has been created under
    Gone     \* an id whose user was deleted

VARIABLES
    current,  \* what each user is
    servable  \* what else a read of each user may still be answered with

dvars == <<current, servable>>

Init ==
    /\ current = [u \in UserIDs |-> Unborn]
    /\ servable = [u \in UserIDs |-> {}]

Become(u, v) == current' = [current EXCEPT ![u] = v]

Create(u) ==
    /\ current[u] = Unborn
    /\ \E v \in Views : Become(u, v)
    /\ UNCHANGED servable

Change(u) ==
    /\ current[u] \in Views
    /\ \E v \in Views : Become(u, v)
    /\ UNCHANGED servable

Remove(u) ==
    /\ current[u] \in Views
    /\ Become(u, Gone)
    /\ UNCHANGED servable

\* A copy is taken of what u is now; older ones may go.
Read(u) ==
    /\ current[u] \in Views
    /\ \E S \in SUBSET servable[u] :
          servable' = [servable EXCEPT ![u] = S \cup {current[u]}]
    /\ UNCHANGED current

Forget ==
    /\ servable' \in [UserIDs -> SUBSET Views]
    /\ \A u \in UserIDs : servable'[u] \subseteq servable[u]
    /\ UNCHANGED current

Next ==
    \/ \E u \in UserIDs : Create(u) \/ Change(u) \/ Remove(u) \/ Read(u)
    \/ Forget

Spec == Init /\ [][Next]_dvars
============================================================================
