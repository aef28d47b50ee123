--------------------------- MODULE UserTableProofs ---------------------------
(* Facts about the rows of UserTable and what UserDirectory makes of them.    *)
EXTENDS UserTable, TLAPS

LEMMA ViewType ==
  ASSUME RowsTypeOK, NEW u \in UserIDs, Live(u)
  PROVE  rows[u] \in Row /\ ViewOf(u) \in View
  BY DEF RowsTypeOK, Live, Row, View, ViewOf

(* The standings tell live, deleted and missing rows apart.                   *)
StandingOK ==
    \A u \in UserIDs :
        /\ Standing(u) \in View <=> Live(u)
        /\ Standing(u) = Unborn <=> rows[u] = NoRow
        /\ Standing(u) = Gone <=> rows[u] # NoRow /\ ~Live(u)
        /\ Live(u) => Standing(u) = ViewOf(u)

LEMMA StandingType == RowsTypeOK => StandingOK
<1> SUFFICES ASSUME RowsTypeOK, NEW u \in UserIDs
             PROVE  /\ Standing(u) \in View <=> Live(u)
                    /\ Standing(u) = Unborn <=> rows[u] = NoRow
                    /\ Standing(u) = Gone <=> rows[u] # NoRow /\ ~Live(u)
                    /\ Live(u) => Standing(u) = ViewOf(u)
  BY DEF StandingOK
<1>1. Unborn \notin View /\ Gone \notin View /\ Unborn # Gone
  BY DEF Unborn, Gone, View
<1>2. Live(u) => rows[u] # NoRow
  BY DEF Live
<1> QED
  BY <1>1, <1>2, ViewType DEF Standing

(* A statement on the row of u is a step of u alone.                          *)
LEMMA StandingStep ==
  ASSUME NEW u \in UserIDs, \A i \in UserIDs : i # u => rows'[i] = rows[i]
  PROVE  [i \in UserIDs |-> Standing(i)'] =
           [[i \in UserIDs |-> Standing(i)] EXCEPT ![u] = Standing(u)']
<1>1. \A i \in UserIDs : i # u => Standing(i)' = Standing(i)
  BY DEF Standing, Live, ViewOf
<1> QED
  BY <1>1

(* An UPDATE of a live row leaves it live.                                    *)
LEMMA UpdateStep ==
  ASSUME RowsTypeOK, NEW u \in UserIDs, Live(u), Update(u)
  PROVE  \E row \in Row : ~row.deleted /\ rows' = [rows EXCEPT ![u] = row] /\ Live(u)'
<1>1. PICK v \in View : rows' = [rows EXCEPT ![u] =
              [profile |-> v.profile, active |-> v.active, deleted |-> FALSE]]
  BY DEF Update
<1> DEFINE row == [profile |-> v.profile, active |-> v.active, deleted |-> FALSE]
<1>2. row \in Row /\ ~row.deleted /\ rows' = [rows EXCEPT ![u] = row]
  BY <1>1 DEF View, Row
<1> HIDE DEF row
<1>3. Live(u)'
  BY <1>2, NoRowAssumption DEF RowsTypeOK, Live
<1> QED
  BY <1>2, <1>3

(* A soft delete leaves a row that is no longer live.                         *)
LEMMA SoftDeleteStep ==
  ASSUME RowsTypeOK, NEW u \in UserIDs, Live(u), SoftDelete(u)
  PROVE  \E row \in Row :
            row.deleted /\ rows' = [rows EXCEPT ![u] = row] /\ rows'[u] # NoRow /\ ~Live(u)'
<1> DEFINE row == [profile |-> rows[u].profile, active |-> FALSE, deleted |-> TRUE]
<1>1. row \in Row /\ row.deleted
  BY ViewType DEF Row
<1>2. rows' = [rows EXCEPT ![u] = row]
  BY DEF SoftDelete
<1> HIDE DEF row
<1>3. rows'[u] # NoRow /\ ~Live(u)'
  BY <1>1, <1>2, NoRowAssumption DEF RowsTypeOK, Live
<1> QED
  BY <1>1, <1>2, <1>3

(* An INSERT makes a live row where there was none.                           *)
LEMMA InsertStep ==
  ASSUME RowsTypeOK, NEW u \in UserIDs, Insert(u)
  PROVE  /\ rows[u] = NoRow
         /\ \E row \in Row : ~row.deleted /\ rows' = [rows EXCEPT ![u] = row] /\ Live(u)'
<1>1. PICK pr \in Profiles :
        rows' = [rows EXCEPT ![u] = [profile |-> pr, active |-> TRUE, deleted |-> FALSE]]
  BY DEF Insert
<1> DEFINE row == [profile |-> pr, active |-> TRUE, deleted |-> FALSE]
<1>2. row \in Row /\ ~row.deleted /\ rows' = [rows EXCEPT ![u] = row]
  BY <1>1 DEF Row
<1> HIDE DEF row
<1>3. Live(u)'
  BY <1>2, NoRowAssumption DEF RowsTypeOK, Live
<1> QED
  BY <1>2, <1>3 DEF Insert
=============================================================================
