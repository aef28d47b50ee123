------------------------------- MODULE Listing -------------------------------
(***************************************************************************)
(* GET /users: clients that walk through the pages of a listing while      *)
(* users are created, deleted and changed.  List of                        *)
(* internal/repository/postgres.go answers a page with two statements, a   *)
(* COUNT and a SELECT .. ORDER BY created_at DESC LIMIT .. OFFSET .., and  *)
(* PostgreSQL keeps no memory of a walk between pages.                     *)
(*                                                                         *)
(* rank[u] is the place of u in that order among the users the clients'    *)
(* filter selects, 0 when it does not select u.  A client asks for the     *)
(* next page at offset + limit until it has Meta.Total users behind it, or *)
(* until a page comes back short; a request that failed is repeated.       *)
(***************************************************************************)
EXTENDS Integers, Sequences

CONSTANTS
    Users,
    Clients,
    Limit,   \* the page size all clients ask for
    Faulty   \* TRUE when statements may fail, hang or break off

ASSUME LimitAssumption == Limit \in Nat \ {0}
ASSUME FaultyAssumption == Faulty \in BOOLEAN

VARIABLES
    rank,   \* place of each user in the listing, from 1; 0 is not listed
    size,   \* how many users are listed
    walk    \* what each client has got, and its request while there is one

vars == <<rank, size, walk>>

\* due and shown are history.  due: the users listed since the walk began whom
\* the client has not got yet and nothing has moved to places it has passed.
\* shown: those it has got and nothing has moved back to places still to come;
\* kept: those on the page that is on its way of whom the same can be said.
Walks == [pc : {"idle", "ready", "count", "select", "rows", "hung", "done"},
          by : {"total", "short"}, offset : Nat, total : Nat,
          page : SUBSET Users, last : BOOLEAN,
          due : SUBSET Users, shown : SUBSET Users, kept : SUBSET Users]

TypeOK ==
    /\ rank \in [Users -> Nat]
    /\ size \in Nat
    /\ walk \in [Clients -> Walks]

Listed == {u \in Users : rank[u] > 0}

NoWalk == [pc |-> "idle", by |-> "total", offset |-> 0, total |-> 0,
           page |-> {}, last |-> FALSE, due |-> {}, shown |-> {}, kept |-> {}]

Init ==
    /\ rank = [u \in Users |-> 0]
    /\ size = 0
    /\ walk = [c \in Clients |-> NoWalk]

----------------------------------------------------------------------------
(* The table changes: through this service or another instance of it *)

Walking(w) == w.pc \notin {"idle", "done"}

\* The client has all it was told there is, or a page with room left on it.
Ends(w) == IF w.by = "total" THEN w.offset + Limit >= w.total ELSE w.last

\* The last place of the pages passed, and of the page that is on its way.
Edges(w) == {w.offset} \cup (IF w.pc = "rows" THEN {w.offset + Limit} ELSE {})

\* Behind this place a client will not look whose COUNT made the page the last.
Horizon(w) == IF w.pc = "select" /\ w.by = "total" /\ Ends(w) THEN {w.offset + Limit} ELSE {}

\* Users of V move one place towards the end of the listing,
Later(w, V) ==
    LET over(E) == {v \in V : rank[v] \in E}
    IN  [w EXCEPT !.shown = @ \ over(Edges(w)), !.kept = @ \ over(Edges(w)),
                  !.due = @ \ over(Horizon(w))]

\* or towards its beginning.
Earlier(w, V) == [w EXCEPT !.due = @ \ {v \in V : rank[v] - 1 \in Edges(w)}]

\* The walks that are going on take note of a change.
Note(effect(_)) == walk' = [c \in Clients |-> IF Walking(walk[c]) THEN effect(walk[c]) ELSE walk[c]]

\* u is created, or begins to match the filter, at place i.
Enter(u, i) ==
    /\ rank[u] = 0
    /\ i \in 1 .. size + 1
    /\ rank' = [v \in Users |->
          IF v = u THEN i ELSE IF rank[v] >= i THEN rank[v] + 1 ELSE rank[v]]
    /\ size' = size + 1
    /\ LET after == {v \in Users : rank[v] >= i}
           seen(w) == [w EXCEPT !.shown = @ \ {u}, !.kept = @ \ {u}]
       IN  Note(LAMBDA w : Later(seen(w), after))

\* u is deleted, or no longer matches.
Leave(u) ==
    /\ rank[u] > 0
    /\ rank' = [v \in Users |->
          IF v = u THEN 0 ELSE IF rank[v] > rank[u] THEN rank[v] - 1 ELSE rank[v]]
    /\ size' = size - 1
    /\ LET after == {v \in Users : rank[v] > rank[u]}
       IN  Note(LAMBDA w : Earlier([w EXCEPT !.due = @ \ {u}], after))

\* u and v have the same created_at, which leaves their order open.
Swap(u, v) ==
    /\ rank[u] > 0
    /\ rank[v] = rank[u] + 1
    /\ rank' = [rank EXCEPT ![u] = rank[v], ![v] = rank[u]]
    /\ Note(LAMBDA w : Later(Earlier(w, {v}), {u}))
    /\ UNCHANGED size

----------------------------------------------------------------------------
(* The client *)

Goto(c, w) == walk' = [walk EXCEPT ![c] = w]

Begin(c) ==
    /\ ~Walking(walk[c])
    /\ \E by \in {"total", "short"} :
          Goto(c, [NoWalk EXCEPT !.pc = "ready", !.by = by, !.due = Listed])
    /\ UNCHANGED <<rank, size>>

\* The handler has parsed limit and offset; ListUsers calls List.
Ask(c) ==
    /\ walk[c].pc = "ready"
    /\ Goto(c, [walk[c] EXCEPT !.pc = "count"])
    /\ UNCHANGED <<rank, size>>

----------------------------------------------------------------------------
(* List *)

\* Mutant: the total counts what lies behind the offset.
CountRemaining(c) ==
    /\ walk[c].pc = "count"
    /\ Goto(c, [walk[c] EXCEPT !.pc = "select", !.total = size - walk[c].offset])
    /\ UNCHANGED <<rank, size>>

Count(c) ==
    /\ walk[c].pc = "count"
    /\ Goto(c, [walk[c] EXCEPT !.pc = "select", !.total = size])
    /\ UNCHANGED <<rank, size>>

FilterFields == {"role", "active", "search"}

\* The arguments of both statements: one for each condition of the request, in order.
WhereArgs(F) ==
    LET Arg(f) == IF f \in F THEN <<f>> ELSE <<>>
    IN  Arg("role") \o Arg("active") \o Arg("search")

\* Mutant: the last two arguments are appended in the other order.
SelectArgsSwapped(F, limit, offset) == WhereArgs(F) \o <<offset, limit>>

SelectArgs(F, limit, offset) == WhereArgs(F) \o <<limit, offset>>

\* argNum when the conditions are written: LIMIT's placeholder.
ArgNum(F) == Len(WhereArgs(F)) + 1

\* What PostgreSQL is told by LIMIT $argNum OFFSET $(argNum + 1).
Window(F, limit, offset) ==
    LET args == SelectArgs(F, limit, offset)
    IN  [limit |-> args[ArgNum(F)], offset |-> args[ArgNum(F) + 1]]

\* The rows of a window, from its place i to its place j.
Rows(win, i, j) == {u \in Users : win.offset + i <= rank[u] /\ rank[u] <= win.offset + j}

\* Whom a client goes without whose page broke off at place n: the rest of the
\* page, or all the rest of the listing when it takes a short page for the end.
Missing(w, win, n) ==
    IF w.by = "short" /\ n < win.limit
    THEN {u \in Users : rank[u] > win.offset + n}
    ELSE Rows(win, n + 1, win.limit)

\* rows.Next ends early when the connection does, and nobody asks rows.Err:
\* the n rows that came are the page, and it is a short one.
Select(c) ==
    /\ walk[c].pc = "select"
    /\ \E F \in SUBSET FilterFields, n \in 0 .. Limit :
          LET w   == walk[c]
              win == Window(F, Limit, w.offset)
              cut == n < win.limit /\ win.offset + n < size
          IN /\ n = win.limit \/ (Faulty /\ cut)
             /\ Goto(c, [w EXCEPT !.pc = "rows",
                          !.page = Rows(win, 1, n), !.kept = Rows(win, 1, n),
                          !.last = (cut \/ size < win.offset + win.limit),
                          !.due = @ \ Missing(w, win, n)])
    /\ UNCHANGED <<rank, size>>

\* The client's walk after it got the page it was waiting for.
Onward(w, offset) ==
    LET due == w.due \ w.page
    IN  IF Ends(w)
        THEN [NoWalk EXCEPT !.pc = "done", !.due = due]
        ELSE [NoWalk EXCEPT !.pc = "ready", !.by = w.by, !.offset = offset,
                            !.due = due, !.shown = w.shown \cup w.kept]

\* Mutant: the next page begins with the last user of this one.
ReturnOverlapping(c) ==
    /\ walk[c].pc = "rows"
    /\ Goto(c, Onward(walk[c], walk[c].offset + Limit - 1))
    /\ UNCHANGED <<rank, size>>

\* The answer: the page, and the count that was taken before it.
Return(c) ==
    /\ walk[c].pc = "rows"
    /\ Goto(c, Onward(walk[c], walk[c].offset + Limit))
    /\ UNCHANGED <<rank, size>>

\* PostgreSQL does not answer a statement; nothing limits how long that may last.
Hang(c) ==
    /\ Faulty
    /\ walk[c].pc \in {"count", "select"}
    /\ Goto(c, [walk[c] EXCEPT !.pc = "hung"])
    /\ UNCHANGED <<rank, size>>

----------------------------------------------------------------------------
InFlight(w) == w.pc \in {"count", "select", "rows", "hung"}

\* The requests of C come to nothing: an error, or the process that served them goes.
Lose(C) ==
    /\ walk' = [c \in Clients |->
          IF c \in C /\ InFlight(walk[c])
          THEN [walk[c] EXCEPT !.pc = "ready", !.page = {}, !.kept = {},
                               !.last = FALSE, !.total = 0]
          ELSE walk[c]]
    /\ UNCHANGED <<rank, size>>

Fail(c) ==
    /\ Faulty
    /\ InFlight(walk[c])
    /\ Lose({c})

----------------------------------------------------------------------------
TableChanges ==
    \/ \E u \in Users : Leave(u) \/ \E i \in 1 .. size + 1 : Enter(u, i)
    \/ \E u, v \in Users : Swap(u, v)

Next ==
    \/ TableChanges
    \/ \E c \in Clients :
          Begin(c) \/ Ask(c) \/ Count(c) \/ Select(c) \/ Return(c) \/ Hang(c) \/ Fail(c)
    \/ \E C \in SUBSET Clients : Lose(C)

Spec == Init /\ [][Next]_vars

----------------------------------------------------------------------------
(* A client that has walked to the end has got everyone who was listed all    *)
(* along, although pages are cut from a listing that moves.  What a change    *)
(* costs is one user, not the walk: the one who slides over the edge of the   *)
(* pages passed when somebody before him leaves or a tie is reordered; the    *)
(* last one counted, when somebody enters between COUNT and SELECT of the     *)
(* last page of a client that goes by Meta.Total; and what Missing says of a  *)
(* page that broke off (postgres.go 255-343, handlers/users.go 171-195).      *)
NoneMissed == \A c \in Clients : walk[c].pc = "done" => walk[c].due = {}

(* Nobody is shown twice in a walk, repeated requests included, unless he     *)
(* left and came back or was pushed over the edge of the pages passed by an   *)
(* entry or a tie: deletions, failures and retries repeat nobody              *)
(* (postgres.go 296-303).                                                     *)
NoneRepeated ==
    \A c \in Clients : walk[c].pc = "rows" => walk[c].page \cap walk[c].shown = {}
============================================================================
