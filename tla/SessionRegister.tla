-------------------------- MODULE SessionRegister --------------------------
(***************************************************************************)
(* What SessionService promises of a session, apart from keys, expirations *)
(* and the commands that move them: Get accepts a session for a user only  *)
(* because a login of that user opened it, or because a refresh that had   *)
(* seen it accepted for that user brought it back.  Anything else can only *)
(* take a session away.  Sessions implements it; see its Register.         *)
(***************************************************************************)
CONSTANTS SessionIDs, Users

VARIABLES
    holder,    \* for whom each id is accepted: one user, or nobody
    opening,   \* logins under way: the session's id and the user
    extending  \* refreshes under way, and for whom they saw the session accepted

rvars == <<holder, opening, extending>>

Init ==
    /\ holder = [id \in SessionIDs |-> {}]
    /\ opening = {}
    /\ extending = {}

\* From now on Get accepts id for u, whoever it was for before.
Accept(id, u) == holder' = [holder EXCEPT ![id] = {u}]

\* A login of u is about to write the new session.
Login(id, u) ==
    /\ opening' = opening \cup {<<id, u>>}
    /\ UNCHANGED <<holder, extending>>

Open(id, u) ==
    /\ <<id, u>> \in opening
    /\ Accept(id, u)
    /\ opening' \subseteq opening
    /\ UNCHANGED extending

\* A refresh reads the session; when it is accepted it will be written back.
Look(id) ==
    /\ extending' = extending \cup ({id} \X holder[id])
    /\ UNCHANGED <<holder, opening>>

Extend(id, u) ==
    /\ <<id, u>> \in extending
    /\ Accept(id, u)
    /\ extending' \subseteq extending
    /\ UNCHANGED opening

\* Sessions end or expire, operations fail or are over.
Lose ==
    /\ holder' \in [SessionIDs -> SUBSET Users]
    /\ \A id \in SessionIDs : holder'[id] \subseteq holder[id]
    /\ opening' \subseteq opening
    /\ extending' \subseteq extending

Next ==
    \/ \E id \in SessionIDs, u \in Users : Login(id, u) \/ Open(id, u) \/ Extend(id, u)
    \/ \E id \in SessionIDs : Look(id)
    \/ Lose

Spec == Init /\ [][Next]_rvars
============================================================================
