---------------------------- MODULE ListingProofs ----------------------------
(* Safety of Listing for every set of users and clients and every page size,  *)
(* and that it is Listing that Server runs, for every size of the pool.       *)
EXTENDS Server, TLAPS

USE LimitAssumption, FaultyAssumption

(* Places are taken by one user each, and there are no more than users.       *)
RanksOK ==
    /\ \A u, v \in Users : rank[u] > 0 /\ rank[u] = rank[v] => u = v
    /\ \A u \in Users : rank[u] <= size

(* Where the places r put the users of a walk: those due ahead of it, those   *)
(* shown behind it; and on the last page, or once the COUNT said it is the    *)
(* last, nobody due is left for another one.                                  *)
Ahead(r, U, place)  == \A u \in U : r[u] > place
Behind(r, U, place) == \A u \in U : r[u] <= place

Placed(r, w) ==
    /\ Walking(w) => Ahead(r, w.due, w.offset) /\ Behind(r, w.shown, w.offset)
    /\ w.pc = "select" /\ w.by = "total" /\ Ends(w) => Behind(r, w.due, w.offset + Limit)
    /\ w.pc = "rows" =>
         /\ Ahead(r, w.due \ w.page, w.offset + Limit)
         /\ Behind(r, w.kept, w.offset + Limit)
         /\ w.page \cap w.shown = {}
         /\ Ends(w) => w.due \subseteq w.page
    /\ w.pc = "done" => w.due = {}

Inv == TypeOK /\ RanksOK /\ \A c \in Clients : Placed(rank, walk[c])

LEMMA NoWalkType == NoWalk \in Walks
  BY DEF NoWalk, Walks

LEMMA LaterFields ==
  ASSUME NEW w \in Walks, NEW V
  PROVE  /\ Later(w, V) \in Walks
         /\ Later(w, V).pc = w.pc /\ Later(w, V).by = w.by /\ Later(w, V).last = w.last
         /\ Later(w, V).offset = w.offset /\ Later(w, V).total = w.total
         /\ Later(w, V).page = w.page
         /\ Later(w, V).due = w.due \ {v \in V : rank[v] \in Horizon(w)}
         /\ Later(w, V).shown = w.shown \ {v \in V : rank[v] \in Edges(w)}
         /\ Later(w, V).kept = w.kept \ {v \in V : rank[v] \in Edges(w)}
  BY DEF Later, Walks

LEMMA EarlierFields ==
  ASSUME NEW w \in Walks, NEW V
  PROVE  /\ Earlier(w, V) \in Walks
         /\ Earlier(w, V).pc = w.pc /\ Earlier(w, V).by = w.by /\ Earlier(w, V).last = w.last
         /\ Earlier(w, V).offset = w.offset /\ Earlier(w, V).total = w.total
         /\ Earlier(w, V).page = w.page
         /\ Earlier(w, V).due = w.due \ {v \in V : rank[v] - 1 \in Edges(w)}
         /\ Earlier(w, V).shown = w.shown /\ Earlier(w, V).kept = w.kept
  BY DEF Earlier, Walks

-----------------------------------------------------------------------------
(* A change of places that a walk w has taken note of as x: nobody due who    *)
(* stays so crosses an edge to the front, nobody shown one to the back.       *)
Same(w, x) ==
    /\ x.pc = w.pc /\ x.by = w.by /\ x.last = w.last /\ x.offset = w.offset
    /\ x.total = w.total /\ x.page = w.page
    /\ x.due \subseteq w.due /\ x.shown \subseteq w.shown /\ x.kept \subseteq w.kept

Noted(w, r, x) ==
    /\ Same(w, x)
    /\ \A u \in x.due :
          /\ \A e \in Edges(w) : rank[u] > e => r[u] > e
          /\ \A h \in Horizon(w) : rank[u] <= h => r[u] <= h
    /\ \A u \in x.shown : \A e \in Edges(w) : rank[u] <= e => r[u] <= e
    /\ \A u \in x.kept : \A e \in Edges(w) : rank[u] <= e => r[u] <= e

LEMMA NotedPlaced ==
  ASSUME NEW w \in Walks, NEW x \in Walks, NEW r, Walking(w), Placed(rank, w), Noted(w, r, x)
  PROVE  Placed(r, x)
<1>1. Same(w, x) /\ (Ends(x) <=> Ends(w)) /\ (Walking(x) <=> Walking(w)) /\ w.pc # "done"
  BY DEF Noted, Same, Ends, Walking
<1>2. w.offset \in Edges(w) /\ (w.pc = "rows" => w.offset + Limit \in Edges(w))
  BY DEF Edges
<1>3. Ahead(r, x.due, x.offset) /\ Behind(r, x.shown, x.offset)
  BY <1>1, <1>2 DEF Noted, Same, Placed, Ahead, Behind
<1>4. x.pc = "select" /\ x.by = "total" /\ Ends(x) => Behind(r, x.due, x.offset + Limit)
  <2> SUFFICES ASSUME x.pc = "select", x.by = "total", Ends(x)
               PROVE  Behind(r, x.due, x.offset + Limit)
    OBVIOUS
  <2>1. w.pc = "select" /\ w.by = "total" /\ Ends(w) /\ Behind(rank, w.due, w.offset + Limit)
    BY <1>1 DEF Same, Placed
  <2>2. w.offset + Limit \in Horizon(w)
    BY <2>1 DEF Horizon
  <2> QED
    BY <1>1, <2>1, <2>2 DEF Noted, Same, Behind
<1>5. x.pc = "rows" =>
         /\ Ahead(r, x.due \ x.page, x.offset + Limit)
         /\ Behind(r, x.kept, x.offset + Limit)
         /\ x.page \cap x.shown = {}
         /\ Ends(x) => x.due \subseteq x.page
  BY <1>1, <1>2 DEF Noted, Same, Placed, Ahead, Behind
<1> QED
  BY <1>1, <1>3, <1>4, <1>5 DEF Placed, Same

(* A change of the table that every walk takes note of.                       *)
LEMMA ChangeStep ==
  ASSUME Inv, rank' \in [Users -> Nat], size' \in Nat, RanksOK',
         walk' = [c \in Clients |-> walk'[c]],
         \A c \in Clients :
            IF Walking(walk[c])
            THEN walk'[c] \in Walks /\ Noted(walk[c], rank', walk'[c])
            ELSE walk'[c] = walk[c]
  PROVE  Inv'
<1>1. \A c \in Clients : walk[c] \in Walks /\ Placed(rank, walk[c])
  BY DEF Inv, TypeOK
<1>2. \A c \in Clients : walk'[c] \in Walks
  BY <1>1
<1>3. TypeOK'
  BY <1>2 DEF TypeOK
<1>4. ASSUME NEW c \in Clients PROVE Placed(rank', walk'[c])
  <2>1. CASE Walking(walk[c])
    BY <1>1, <1>2, <2>1, NotedPlaced
  <2>2. CASE ~Walking(walk[c])
    BY <1>1, <2>2 DEF Placed, Walking
  <2> QED
    BY <2>1, <2>2
<1> QED
  BY <1>3, <1>4 DEF Inv

LEMMA EdgeTypes ==
  ASSUME NEW w \in Walks
  PROVE  Edges(w) \subseteq Nat /\ Horizon(w) \subseteq Nat
  BY DEF Edges, Horizon, Walks

LEMMA EnterInv ==
  ASSUME Inv, NEW u \in Users, NEW i \in 1 .. size + 1, Enter(u, i)
  PROVE  Inv'
<1> DEFINE after == {v \in Users : rank[v] >= i}
           r == [v \in Users |-> IF v = u THEN i ELSE IF rank[v] >= i THEN rank[v] + 1 ELSE rank[v]]
<1>1. /\ rank \in [Users -> Nat] /\ size \in Nat /\ RanksOK /\ i \in Nat \ {0} /\ i <= size + 1
      /\ rank[u] = 0 /\ rank' = r /\ size' = size + 1
  BY DEF Inv, TypeOK, Enter
<1>2. r \in [Users -> Nat]
  BY <1>1
<1>3. RanksOK'
  BY <1>1 DEF RanksOK
<1>4. walk' = [c \in Clients |-> IF Walking(walk[c])
                  THEN Later([walk[c] EXCEPT !.shown = @ \ {u}, !.kept = @ \ {u}], after)
                  ELSE walk[c]]
  BY DEF Enter, Note
<1>5. ASSUME NEW w \in Walks, Walking(w), Placed(rank, w)
      PROVE  LET x == Later([w EXCEPT !.shown = @ \ {u}, !.kept = @ \ {u}], after)
             IN  x \in Walks /\ Noted(w, r, x)
  <2> DEFINE y == [w EXCEPT !.shown = @ \ {u}, !.kept = @ \ {u}]
             x == Later(y, after)
  <2>1. /\ y \in Walks /\ Edges(y) = Edges(w) /\ Horizon(y) = Horizon(w)
        /\ y.pc = w.pc /\ y.by = w.by /\ y.last = w.last /\ y.offset = w.offset
        /\ y.total = w.total /\ y.page = w.page /\ y.due = w.due
        /\ y.shown = w.shown \ {u} /\ y.kept = w.kept \ {u}
    BY DEF Walks, Edges, Horizon, Ends
  <2>2. Edges(w) \subseteq Nat /\ Horizon(w) \subseteq Nat
    BY EdgeTypes
  <2> HIDE DEF y, after
  <2>3. /\ x \in Walks /\ Same(w, x)
        /\ x.due = w.due \ {v \in after : rank[v] \in Horizon(w)}
        /\ x.shown = (w.shown \ {u}) \ {v \in after : rank[v] \in Edges(w)}
        /\ x.kept = (w.kept \ {u}) \ {v \in after : rank[v] \in Edges(w)}
    <3>1. /\ x \in Walks
          /\ x.pc = y.pc /\ x.by = y.by /\ x.last = y.last /\ x.offset = y.offset
          /\ x.total = y.total /\ x.page = y.page
          /\ x.due = y.due \ {v \in after : rank[v] \in Horizon(y)}
          /\ x.shown = y.shown \ {v \in after : rank[v] \in Edges(y)}
          /\ x.kept = y.kept \ {v \in after : rank[v] \in Edges(y)}
      BY <2>1, LaterFields
    <3> HIDE DEF x
    <3> QED
      BY <2>1, <3>1 DEF Same
  <2> HIDE DEF x
  <2>4. w.due \subseteq Users /\ w.shown \subseteq Users /\ w.kept \subseteq Users /\ w.offset \in Nat
    BY DEF Walks
  <2>5. u \notin w.due
    BY <1>1, <1>5, <2>4 DEF Placed, Ahead
  <2>6. \A v \in Users : v # u => r[v] = IF rank[v] >= i THEN rank[v] + 1 ELSE rank[v]
    OBVIOUS
  <2> HIDE DEF r
  <2>7. Noted(w, r, x)
    BY <1>1, <2>2, <2>3, <2>4, <2>5, <2>6 DEF Noted, after
  <2> QED
    BY <2>3, <2>7 DEF x, y
<1> HIDE DEF r, after
<1>6. \A c \in Clients : walk[c] \in Walks /\ Placed(rank, walk[c])
  BY DEF Inv, TypeOK
<1>7. \A c \in Clients :
        IF Walking(walk[c])
        THEN walk'[c] \in Walks /\ Noted(walk[c], rank', walk'[c])
        ELSE walk'[c] = walk[c]
  BY <1>1, <1>4, <1>5, <1>6
<1>8. walk' = [c \in Clients |-> walk'[c]]
  BY <1>4
<1> QED
  BY <1>1, <1>2, <1>3, <1>7, <1>8, ChangeStep

LEMMA LeaveInv ==
  ASSUME Inv, NEW u \in Users, Leave(u)
  PROVE  Inv'
<1> DEFINE after == {v \in Users : rank[v] > rank[u]}
           r == [v \in Users |-> IF v = u THEN 0 ELSE IF rank[v] > rank[u] THEN rank[v] - 1 ELSE rank[v]]
<1>1. /\ rank \in [Users -> Nat] /\ size \in Nat /\ RanksOK
      /\ rank[u] > 0 /\ rank' = r /\ size' = size - 1
  BY DEF Inv, TypeOK, Leave
<1>2. r \in [Users -> Nat] /\ size - 1 \in Nat
  BY <1>1 DEF RanksOK
<1>3. RanksOK'
  BY <1>1 DEF RanksOK
<1>4. walk' = [c \in Clients |-> IF Walking(walk[c])
                  THEN Earlier([walk[c] EXCEPT !.due = @ \ {u}], after) ELSE walk[c]]
  BY DEF Leave, Note
<1>5. ASSUME NEW w \in Walks, Walking(w), Placed(rank, w)
      PROVE  LET x == Earlier([w EXCEPT !.due = @ \ {u}], after)
             IN  x \in Walks /\ Noted(w, r, x)
  <2> DEFINE y == [w EXCEPT !.due = @ \ {u}]
             x == Earlier(y, after)
  <2>1. /\ y \in Walks /\ Edges(y) = Edges(w) /\ Horizon(y) = Horizon(w)
        /\ y.pc = w.pc /\ y.by = w.by /\ y.last = w.last /\ y.offset = w.offset
        /\ y.total = w.total /\ y.page = w.page /\ y.due = w.due \ {u}
        /\ y.shown = w.shown /\ y.kept = w.kept
    BY DEF Walks, Edges, Horizon, Ends
  <2>2. Edges(w) \subseteq Nat /\ Horizon(w) \subseteq Nat
    BY EdgeTypes
  <2> HIDE DEF y, after
  <2>3. /\ x \in Walks /\ Same(w, x)
        /\ x.due = (w.due \ {u}) \ {v \in after : rank[v] - 1 \in Edges(w)}
        /\ x.shown = w.shown /\ x.kept = w.kept
    <3>1. /\ x \in Walks
          /\ x.pc = y.pc /\ x.by = y.by /\ x.last = y.last /\ x.offset = y.offset
          /\ x.total = y.total /\ x.page = y.page
          /\ x.due = y.due \ {v \in after : rank[v] - 1 \in Edges(y)}
          /\ x.shown = y.shown /\ x.kept = y.kept
      BY <2>1, EarlierFields
    <3> HIDE DEF x
    <3> QED
      BY <2>1, <3>1 DEF Same
  <2> HIDE DEF x
  <2>4. w.due \subseteq Users /\ w.shown \subseteq Users /\ w.kept \subseteq Users
    BY DEF Walks
  <2>5. /\ r[u] = 0
        /\ \A v \in Users : v # u => r[v] = IF rank[v] > rank[u] THEN rank[v] - 1 ELSE rank[v]
    OBVIOUS
  <2> HIDE DEF r
  <2>6. Noted(w, r, x)
    BY <1>1, <2>2, <2>3, <2>4, <2>5 DEF Noted, after
  <2> QED
    BY <2>3, <2>6 DEF x, y
<1> HIDE DEF r, after
<1>6. \A c \in Clients : walk[c] \in Walks /\ Placed(rank, walk[c])
  BY DEF Inv, TypeOK
<1>7. \A c \in Clients :
        IF Walking(walk[c])
        THEN walk'[c] \in Walks /\ Noted(walk[c], rank', walk'[c])
        ELSE walk'[c] = walk[c]
  BY <1>1, <1>4, <1>5, <1>6
<1> QED
  BY <1>1, <1>2, <1>3, <1>4, <1>7, ChangeStep

LEMMA SwapInv ==
  ASSUME Inv, NEW u \in Users, NEW v \in Users, Swap(u, v)
  PROVE  Inv'
<1> DEFINE r == [rank EXCEPT ![u] = rank[v], ![v] = rank[u]]
<1>1. /\ rank \in [Users -> Nat] /\ size \in Nat /\ RanksOK
      /\ rank[u] > 0 /\ rank[v] = rank[u] + 1 /\ rank' = r /\ size' = size
  BY DEF Inv, TypeOK, Swap
<1>2. r \in [Users -> Nat]
  BY <1>1
<1>3. u # v /\ r[u] = rank[u] + 1 /\ r[v] = rank[v] - 1
      /\ \A i \in Users : i # u /\ i # v => r[i] = rank[i]
  BY <1>1
<1> HIDE DEF r
<1>4. RanksOK'
  BY <1>1, <1>2, <1>3 DEF RanksOK
<1>5. walk' = [c \in Clients |-> IF Walking(walk[c])
                  THEN Later(Earlier(walk[c], {v}), {u}) ELSE walk[c]]
  BY DEF Swap, Note
<1>6. ASSUME NEW w \in Walks, Walking(w), Placed(rank, w)
      PROVE  LET x == Later(Earlier(w, {v}), {u}) IN x \in Walks /\ Noted(w, r, x)
  <2> DEFINE y == Earlier(w, {v})
             x == Later(y, {u})
  <2>1. /\ y \in Walks
        /\ y.pc = w.pc /\ y.by = w.by /\ y.last = w.last /\ y.offset = w.offset
        /\ y.total = w.total /\ y.page = w.page
        /\ y.due = w.due \ {j \in {v} : rank[j] - 1 \in Edges(w)}
        /\ y.shown = w.shown /\ y.kept = w.kept
    BY EarlierFields
  <2>2. Edges(w) \subseteq Nat /\ Horizon(w) \subseteq Nat
    BY EdgeTypes
  <2> HIDE DEF y
  <2>3. Edges(y) = Edges(w) /\ Horizon(y) = Horizon(w)
    BY <2>1 DEF Edges, Horizon, Ends
  <2>4. /\ x \in Walks /\ Same(w, x)
        /\ x.due = y.due \ {j \in {u} : rank[j] \in Horizon(w)}
        /\ x.shown = w.shown \ {j \in {u} : rank[j] \in Edges(w)}
        /\ x.kept = w.kept \ {j \in {u} : rank[j] \in Edges(w)}
    BY <2>1, <2>3, LaterFields DEF Same
  <2> HIDE DEF x
  <2>5. w.due \subseteq Users /\ w.shown \subseteq Users /\ w.kept \subseteq Users
    BY DEF Walks
  <2>6. Noted(w, r, x)
    BY <1>1, <1>3, <2>1, <2>2, <2>4, <2>5 DEF Noted
  <2> QED
    BY <2>4, <2>6 DEF x, y
<1> QED
  BY <1>1, <1>2, <1>4, <1>5, <1>6, ChangeStep DEF Inv, TypeOK

-----------------------------------------------------------------------------
(* A client's own step leaves the table alone.                                *)
LEMMA OwnStep ==
  ASSUME Inv, NEW c \in Clients, NEW w \in Walks, Goto(c, w), UNCHANGED <<rank, size>>,
         Placed(rank, w)
  PROVE  Inv'
<1>1. \A d \in Clients : walk'[d] = IF d = c THEN w ELSE walk[d]
  BY DEF Inv, TypeOK, Goto
<1>2. TypeOK'
  BY DEF Inv, TypeOK, Goto
<1>3. RanksOK'
  BY DEF Inv, RanksOK
<1> QED
  BY <1>1, <1>2, <1>3 DEF Inv

LEMMA BeginInv ==
  ASSUME Inv, NEW c \in Clients, Begin(c)
  PROVE  Inv'
<1>1. PICK by \in {"total", "short"} :
         Goto(c, [NoWalk EXCEPT !.pc = "ready", !.by = by, !.due = Listed])
  BY DEF Begin
<1> DEFINE w == [NoWalk EXCEPT !.pc = "ready", !.by = by, !.due = Listed]
<1>2. w \in Walks /\ w.pc = "ready" /\ w.offset = 0 /\ w.due = Listed /\ w.shown = {}
  BY DEF NoWalk, Walks, Listed
<1> HIDE DEF w
<1>3. Placed(rank, w)
  BY <1>2 DEF Placed, Ahead, Behind, Listed
<1> QED
  BY <1>1, <1>2, <1>3, OwnStep DEF Begin, w

LEMMA AskInv ==
  ASSUME Inv, NEW c \in Clients, Ask(c) \/ Hang(c)
  PROVE  Inv'
<1>1. PICK pc \in {"count", "hung"} :
         Goto(c, [walk[c] EXCEPT !.pc = pc]) /\ UNCHANGED <<rank, size>> /\ Walking(walk[c])
  BY DEF Ask, Hang, Walking
<1> DEFINE w == [walk[c] EXCEPT !.pc = pc]
<1>2. walk[c] \in Walks /\ Placed(rank, walk[c])
  BY DEF Inv, TypeOK
<1>3. w \in Walks /\ w.pc = pc /\ w.offset = walk[c].offset /\ w.due = walk[c].due
      /\ w.shown = walk[c].shown
  BY <1>2 DEF Walks
<1> HIDE DEF w
<1>4. Placed(rank, w)
  BY <1>1, <1>2, <1>3 DEF Placed
<1> QED
  BY <1>1, <1>3, <1>4, OwnStep DEF w

LEMMA CountInv ==
  ASSUME Inv, NEW c \in Clients, Count(c)
  PROVE  Inv'
<1> DEFINE w == [walk[c] EXCEPT !.pc = "select", !.total = size]
<1>1. /\ walk[c] \in Walks /\ Placed(rank, walk[c]) /\ walk[c].pc = "count"
      /\ size \in Nat /\ rank \in [Users -> Nat]
  BY DEF Inv, TypeOK, Count
<1>2. /\ w \in Walks /\ w.pc = "select" /\ w.total = size /\ w.offset = walk[c].offset
      /\ w.due = walk[c].due /\ w.shown = walk[c].shown
  BY <1>1 DEF Walks
<1> HIDE DEF w
<1>3. w.due \subseteq Users /\ w.offset \in Nat
  BY <1>2 DEF Walks
<1>4. w.by = "total" /\ Ends(w) => Behind(rank, w.due, w.offset + Limit)
  <2> SUFFICES ASSUME w.by = "total", Ends(w), NEW u \in w.due
               PROVE  rank[u] <= w.offset + Limit
    BY DEF Behind
  <2>1. w.offset + Limit >= size
    BY <1>2 DEF Ends
  <2>2. rank[u] <= size /\ rank[u] \in Nat
    BY <1>1, <1>3 DEF Inv, RanksOK
  <2> QED
    BY <1>1, <1>3, <2>1, <2>2
<1>5. Placed(rank, w)
  BY <1>1, <1>2, <1>4 DEF Placed, Walking
<1> QED
  BY <1>2, <1>5, OwnStep DEF Count, w

(* LIMIT and OFFSET get the arguments meant for them, whatever conditions the *)
(* request adds in front of them (postgres.go 266-303).                       *)
THEOREM WindowRight ==
  ASSUME NEW F \in SUBSET FilterFields, NEW limit, NEW offset
  PROVE  Window(F, limit, offset) = [limit |-> limit, offset |-> offset]
<1> DEFINE w == WhereArgs(F)
<1>1. w \in Seq(FilterFields)
  <2> DEFINE A(f) == IF f \in F THEN <<f>> ELSE <<>>
  <2>1. \A f \in FilterFields : A(f) \in Seq(FilterFields)
    OBVIOUS
  <2>2. A("role") \in Seq(FilterFields) /\ A("active") \in Seq(FilterFields)
        /\ A("search") \in Seq(FilterFields)
    BY <2>1 DEF FilterFields
  <2>3. w = A("role") \o A("active") \o A("search")
    BY DEF WhereArgs
  <2> HIDE DEF A, w
  <2> QED
    BY <2>2, <2>3
<1>2. Len(w) \in Nat
  BY <1>1
<1> HIDE DEF w
<1>3. /\ (w \o <<limit, offset>>)[Len(w) + 1] = limit
      /\ (w \o <<limit, offset>>)[Len(w) + 2] = offset
  BY <1>1, <1>2
<1>4. Len(w) + 1 + 1 = Len(w) + 2
  BY <1>2
<1> QED
  BY <1>3, <1>4 DEF Window, SelectArgs, ArgNum, w

LEMMA SelectInv ==
  ASSUME Inv, NEW c \in Clients, Select(c)
  PROVE  Inv'
<1> DEFINE v == walk[c]
           win == [limit |-> Limit, offset |-> v.offset]
           page(n) == Rows(win, 1, n)
           cut(n)  == n < win.limit /\ win.offset + n < size
           after(n) == [v EXCEPT !.pc = "rows", !.page = page(n), !.kept = page(n),
                                 !.last = (cut(n) \/ size < win.offset + win.limit),
                                 !.due = @ \ Missing(v, win, n)]
<1>0. \A F \in SUBSET FilterFields : Window(F, Limit, v.offset) = win
  BY WindowRight
<1>1. PICK n \in 0 .. Limit : (n = win.limit \/ cut(n)) /\ Goto(c, after(n))
  BY <1>0 DEF Select
<1> DEFINE w == after(n)
<1>2. /\ v \in Walks /\ Placed(rank, v) /\ v.pc = "select" /\ size \in Nat
      /\ rank \in [Users -> Nat] /\ \A u \in Users : rank[u] <= size
  BY DEF Inv, TypeOK, RanksOK, Select
<1>3. v.offset \in Nat /\ v.total \in Nat /\ v.due \subseteq Users /\ v.shown \subseteq Users
  BY <1>2 DEF Walks
<1>4. Rows(win, 1, n) = {u \in Users : v.offset + 1 <= rank[u] /\ rank[u] <= v.offset + n}
  BY DEF Rows
<1>5. /\ w \in Walks /\ w.pc = "rows" /\ w.by = v.by /\ w.offset = v.offset /\ w.total = v.total
      /\ w.page = Rows(win, 1, n) /\ w.kept = Rows(win, 1, n) /\ w.shown = v.shown
      /\ w.last = (cut(n) \/ size < v.offset + Limit) /\ w.due = v.due \ Missing(v, win, n)
  BY <1>2, <1>4 DEF Walks
<1>6. /\ n = Limit \/ cut(n)
      /\ cut(n) <=> n < Limit /\ v.offset + n < size
      /\ {u \in Users : v.offset + n + 1 <= rank[u] /\ rank[u] <= v.offset + Limit} \subseteq Missing(v, win, n)
      /\ v.by = "short" /\ cut(n) => {u \in Users : rank[u] > v.offset + n} \subseteq Missing(v, win, n)
  BY <1>1, <1>2, <1>3 DEF Missing, Rows
<1> HIDE DEF w, cut, win
<1>7. Walking(v) /\ v.by \in {"total", "short"}
  BY <1>2 DEF Walking, Walks
<1>8. Ahead(rank, v.due, v.offset) /\ Behind(rank, v.shown, v.offset)
  BY <1>2, <1>7 DEF Placed
<1>9. Ahead(rank, w.due, w.offset) /\ Behind(rank, w.shown, w.offset)
  BY <1>5, <1>8 DEF Ahead, Behind
<1>10. Ahead(rank, w.due \ w.page, w.offset + Limit)
  <2> SUFFICES ASSUME NEW u \in w.due, u \notin w.page PROVE rank[u] > v.offset + Limit
    BY <1>5 DEF Ahead
  <2>1. u \in Users /\ rank[u] > v.offset /\ ~(v.offset + n + 1 <= rank[u] /\ rank[u] <= v.offset + Limit)
    BY <1>3, <1>5, <1>6, <1>8 DEF Ahead
  <2>2. ~(v.offset + 1 <= rank[u] /\ rank[u] <= v.offset + n)
    BY <1>4, <1>5, <2>1
  <2> QED
    BY <1>1, <1>2, <1>3, <2>1, <2>2
<1>11. Behind(rank, w.kept, w.offset + Limit) /\ w.page \cap w.shown = {}
  BY <1>1, <1>2, <1>3, <1>4, <1>5, <1>8 DEF Behind
<1>12. Ends(w) => w.due \subseteq w.page
  <2> SUFFICES ASSUME Ends(w), NEW u \in w.due, u \notin w.page PROVE FALSE
    OBVIOUS
  <2>1. u \in Users /\ rank[u] > v.offset + Limit /\ rank[u] <= size /\ u \in v.due
    BY <1>2, <1>3, <1>5, <1>10 DEF Ahead
  <2>2. CASE v.by = "total"
    <3>1. Behind(rank, v.due, v.offset + Limit)
      BY <1>2, <1>5, <2>2 DEF Placed, Ends
    <3> QED
      BY <1>2, <1>3, <2>1, <3>1 DEF Behind
  <2>3. CASE v.by = "short"
    <3>1. cut(n)
      <4>1. w.by # "total"
        BY <1>5, <2>3
      <4>2. w.last
        BY <4>1, Zenon DEF Ends
      <4>3. cut(n) \/ size < v.offset + Limit
        BY <1>5, <4>2, Zenon
      <4>4. ~(size < v.offset + Limit)
        BY <1>2, <1>3, <2>1
      <4> QED
        BY <4>3, <4>4
    <3> QED
      BY <1>1, <1>2, <1>3, <1>5, <1>6, <2>1, <2>3, <3>1
  <2> QED
    BY <1>7, <2>2, <2>3
<1>13. Placed(rank, w)
  BY <1>5, <1>9, <1>10, <1>11, <1>12 DEF Placed
<1> QED
  BY <1>1, <1>5, <1>13, OwnStep DEF Select, w

LEMMA ReturnInv ==
  ASSUME Inv, NEW c \in Clients, Return(c)
  PROVE  Inv'
<1> DEFINE v == walk[c]
           w == Onward(v, v.offset + Limit)
<1>1. v \in Walks /\ Placed(rank, v) /\ v.pc = "rows" /\ Walking(v) /\ rank \in [Users -> Nat]
  BY DEF Inv, TypeOK, Return, Walking
<1>2. v.offset \in Nat /\ v.shown \subseteq Users /\ v.kept \subseteq Users
      /\ v.offset + Limit \in Nat
  BY <1>1 DEF Walks
<1>3. CASE Ends(v)
  <2>1. w \in Walks /\ w.pc = "done" /\ w.due = v.due \ v.page
    BY <1>1, <1>3 DEF Onward, NoWalk, Walks
  <2> HIDE DEF w
  <2>2. Placed(rank, w)
    BY <1>1, <1>3, <2>1 DEF Placed, Walking
  <2> QED
    BY <2>1, <2>2, OwnStep DEF Return, w
<1>4. CASE ~Ends(v)
  <2>1. /\ w \in Walks /\ w.pc = "ready" /\ w.offset = v.offset + Limit
        /\ w.due = v.due \ v.page /\ w.shown = v.shown \cup v.kept
    BY <1>1, <1>2, <1>4 DEF Onward, NoWalk, Walks
  <2> HIDE DEF w
  <2>2. Behind(rank, w.shown, w.offset)
    BY <1>1, <1>2, <2>1 DEF Placed, Behind
  <2>3. Ahead(rank, w.due, w.offset)
    BY <1>1, <2>1 DEF Placed
  <2>4. Placed(rank, w)
    BY <2>1, <2>2, <2>3 DEF Placed
  <2> QED
    BY <2>1, <2>4, OwnStep DEF Return, w
<1> QED
  BY <1>3, <1>4

LEMMA LoseInv ==
  ASSUME Inv, NEW C, Lose(C)
  PROVE  Inv'
<1>1. \A c \in Clients : walk[c] \in Walks /\ Placed(rank, walk[c])
  BY DEF Inv, TypeOK
<1>2. ASSUME NEW c \in Clients PROVE walk'[c] \in Walks /\ Placed(rank, walk'[c])
  <2>1. CASE c \in C /\ InFlight(walk[c])
    <3>1. /\ walk'[c] \in Walks /\ walk'[c].pc = "ready" /\ walk'[c].offset = walk[c].offset
          /\ walk'[c].due = walk[c].due /\ walk'[c].shown = walk[c].shown
      BY <1>1, <2>1 DEF Lose, Walks
    <3>2. Walking(walk[c])
      BY <2>1 DEF InFlight, Walking
    <3> QED
      BY <1>1, <3>1, <3>2 DEF Placed
  <2>2. CASE ~(c \in C /\ InFlight(walk[c]))
    BY <1>1, <2>2 DEF Lose
  <2> QED
    BY <2>1, <2>2
<1>3. walk' = [c \in Clients |-> walk'[c]] /\ rank' = rank /\ size' = size
  BY DEF Lose
<1> QED
  BY <1>2, <1>3 DEF Inv, TypeOK, RanksOK

-----------------------------------------------------------------------------
LEMMA InitInv == Init => Inv
<1> SUFFICES ASSUME Init PROVE Inv
  OBVIOUS
<1>1. TypeOK
  BY NoWalkType DEF Init, TypeOK
<1>2. RanksOK
  BY DEF Init, RanksOK
<1>3. \A c \in Clients : Placed(rank, walk[c])
  BY DEF Init, Placed, NoWalk, Walking
<1> QED
  BY <1>1, <1>2, <1>3 DEF Inv

LEMMA StepInv == Inv /\ [Next]_vars => Inv'
<1> SUFFICES ASSUME Inv, [Next]_vars PROVE Inv'
  OBVIOUS
<1>1. CASE TableChanges
  BY <1>1, EnterInv, LeaveInv, SwapInv DEF TableChanges
<1>2. ASSUME NEW c \in Clients,
             Begin(c) \/ Ask(c) \/ Count(c) \/ Select(c) \/ Return(c) \/ Hang(c) \/ Fail(c)
      PROVE  Inv'
  BY <1>2, BeginInv, AskInv, CountInv, SelectInv, ReturnInv, LoseInv DEF Fail
<1>3. ASSUME NEW C \in SUBSET Clients, Lose(C) PROVE Inv'
  BY <1>3, LoseInv
<1>4. CASE UNCHANGED vars
  BY <1>4 DEF vars, Inv, TypeOK, RanksOK
<1> QED
  BY <1>1, <1>2, <1>3, <1>4 DEF Next

(* The inductive invariant holds in every reachable state.                    *)
THEOREM SpecInv == Spec => []Inv
<1>1. Init => Inv
  BY InitInv
<1>2. Inv /\ [Next]_vars => Inv'
  BY StepInv
<1> QED
  BY <1>1, <1>2, PTL DEF Spec

(* Every reachable state has the declared types.                              *)
THEOREM TypeCorrect == Spec => []TypeOK
<1>1. Inv => TypeOK
  BY DEF Inv
<1> QED
  BY <1>1, SpecInv, PTL

(* A walk that came to its end missed nobody it need not have missed: for any *)
(* number of users and clients and any page size.                             *)
THEOREM WalksMissNone == Spec => []NoneMissed
<1>1. Inv => NoneMissed
  BY DEF Inv, Placed, NoneMissed
<1> QED
  BY <1>1, SpecInv, PTL

(* No page shows again whom the walk has shown and the table has not moved.   *)
THEOREM WalksRepeatNone == Spec => []NoneRepeated
<1>1. Inv => NoneRepeated
  BY DEF Inv, Placed, NoneRepeated
<1> QED
  BY <1>1, SpecInv, PTL

-----------------------------------------------------------------------------
(* Server *)

LEMMA ServerStep == ServerNext => [Next]_vars
<1> SUFFICES ASSUME ServerNext PROVE [Next]_vars
  OBVIOUS
<1>1. CASE TableChanges \/ Exit
  BY <1>1 DEF Next, Exit
<1>2. ASSUME NEW c \in Clients, Begin(c) \/ Accept(c) \/ ListStep(c) \/ ListFault(c)
      PROVE  [Next]_vars
  BY <1>2 DEF Next, Accept, ListStep, ListFault
<1>5. ASSUME NEW c \in Clients, Refused(c)
      PROVE  [Next]_vars
  <2>1. walk[c].pc \in {"count", "select"} /\ Lose({c})
    BY <1>5 DEF Refused
  <2> QED
    BY <2>1 DEF Next
<1>3. ASSUME NEW q \in Others, OtherStatement(q) \/ OtherAnswer(q)
      PROVE  [Next]_vars
  BY <1>3 DEF OtherStatement, OtherAnswer
<1>4. CASE Restart \/ Signal \/ ShutdownReturns
  BY <1>4 DEF Restart, Signal, ShutdownReturns
<1> QED
  BY <1>1, <1>2, <1>3, <1>4, <1>5 DEF ServerNext, Drained, Deadline, MainReturns, Crash

(* The actions of Server conjoin those of Listing, or leave its variables     *)
(* alone: what is proved of Listing can be cited of Server.                   *)
LEMMA ServerIsListing == ServerSpec => Spec
<1>1. ServerInit => Init
  BY DEF ServerInit
<1>2. [ServerNext]_serverVars => [Next]_vars
  BY ServerStep DEF serverVars, vars
<1> QED
  BY <1>1, <1>2, PTL DEF ServerSpec, Spec

(* The walks of Listing are as safe in a server that is shut down and started *)
(* again as without one.                                                      *)
THEOREM ServerWalksSafe == ServerSpec => [](NoneMissed /\ NoneRepeated)
  BY ServerIsListing, WalksMissNone, WalksRepeatNone, PTL

(* The pool's types, and that no statement outlives its process.              *)
THEOREM ServerTypeCorrect == ServerSpec => []ServerTypeOK
<1> DEFINE PoolOK == /\ process \in {"up", "draining", "closing", "down"} /\ busy \subseteq Others
                     /\ process = "down" => busy = {}
<1>1. ServerInit => PoolOK
  BY DEF ServerInit
<1>2. PoolOK /\ [ServerNext]_serverVars => PoolOK'
  <2> SUFFICES ASSUME PoolOK, [ServerNext]_serverVars PROVE PoolOK'
    OBVIOUS
  <2>1. CASE Exit
    BY <2>1 DEF Exit
  <2>2. CASE Restart \/ Signal \/ ShutdownReturns
    BY <2>2 DEF Restart, Signal, ShutdownReturns
  <2>3. ASSUME NEW q \in Others, OtherStatement(q) \/ OtherAnswer(q) PROVE PoolOK'
    BY <2>3 DEF OtherStatement, OtherAnswer, ConnFree
  <2>4. CASE UNCHANGED <<process, busy>>
    BY <2>4
  <2> QED
    BY <2>1, <2>2, <2>3, <2>4
       DEF ServerNext, serverVars, Accept, ListStep, ListFault, Refused, Drained, Deadline,
           MainReturns, Crash
<1>3. ServerSpec => []TypeOK
  BY ServerIsListing, TypeCorrect, PTL
<1>4. TypeOK /\ PoolOK => ServerTypeOK
  BY DEF ServerTypeOK
<1> QED
  BY <1>1, <1>2, <1>3, <1>4, PTL DEF ServerSpec
=============================================================================
