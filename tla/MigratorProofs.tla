--------------------------- MODULE MigratorProofs ---------------------------
(* Exactly-once and in-order application of migrations, for any number of    *)
(* migrations and of instances that run them.                                *)
EXTENDS Migrator, TLAPS

\* Behind the loop's index everything is recorded, and what was read to be
\* recorded is.  Ahead of an INSERT that succeeded, nothing is, and no other
\* transaction executes the same migration.
Reached(r) ==
  r # Idle => r.seen \subseteq recorded /\ \A k \in Migrations : k < r.at => k \in recorded

InTransaction(r) == r.pc \in {"insert", "commit"}

Exclusive(p) ==
  InTransaction(run[p]) =>
    /\ run[p].at \in Migrations
    /\ run[p].pc = "commit" => run[p].at \notin recorded
    /\ \A q \in Procs \ {p} : InTransaction(run[q]) => run[q].at # run[p].at

Inv ==
  /\ TypeOK
  /\ AppliedOnce
  /\ InOrder
  /\ \A p \in Procs : Reached(run[p]) /\ Exclusive(p)

LEMMA RunFields ==
  ASSUME TypeOK, NEW p \in Procs
  PROVE  /\ run[p].pc \in {"idle", "next", "insert", "commit"}
         /\ run[p] # Idle <=> run[p].pc # "idle"
         /\ run[p] # Idle => run[p].seen \in SUBSET Migrations /\ run[p].at \in 1 .. Last + 1
  BY DEF TypeOK, Runs, Idle

LEMMA MakeRun ==
  ASSUME NEW pc \in {"next", "insert", "commit"},
         NEW seen \in SUBSET Migrations, NEW at \in 1 .. Last + 1
  PROVE  /\ [pc |-> pc, seen |-> seen, at |-> at] \in Runs
         /\ [pc |-> pc, seen |-> seen, at |-> at] # Idle
  BY DEF Runs, Idle

(* A step that moves p alone and leaves the database be, to a place that     *)
(* satisfies what is asked of it.                                            *)
LEMMA LocalStep ==
  ASSUME Inv, NEW p \in Procs, NEW r \in Runs, Goto(p, r), UNCHANGED <<recorded, applied>>,
         Reached(r),
         InTransaction(r) =>
           /\ r.at \in Migrations
           /\ r.pc = "commit" => r.at \notin recorded
           /\ \A q \in Procs \ {p} : InTransaction(run[q]) => run[q].at # r.at
  PROVE  Inv'
<1>1. run' \in [Procs -> Runs] /\ run'[p] = r /\ \A q \in Procs \ {p} : run'[q] = run[q]
  BY DEF Inv, TypeOK, Goto
<1>2. TypeOK' /\ AppliedOnce' /\ InOrder'
  BY <1>1 DEF Inv, TypeOK, AppliedOnce, InOrder
<1>3. ASSUME NEW q \in Procs
      PROVE  Reached(run[q])'
  BY <1>1 DEF Inv, Reached
<1>4. ASSUME NEW q \in Procs
      PROVE  Exclusive(q)'
  BY <1>1 DEF Inv, Exclusive, InTransaction
<1> QED
  BY <1>2, <1>3, <1>4 DEF Inv

LEMMA IdleFine == Idle \in Runs /\ ~InTransaction(Idle) /\ Reached(Idle)
  BY DEF Runs, Idle, InTransaction, Reached

LEMMA ReadInv ==
  ASSUME Inv, NEW p \in Procs, Read(p)
  PROVE  Inv'
<1>1. PICK seen \in SUBSET recorded : Goto(p, [pc |-> "next", seen |-> seen, at |-> 1])
  BY DEF Read
<1> DEFINE r == [pc |-> "next", seen |-> seen, at |-> 1]
<1>2. seen \in SUBSET Migrations /\ 1 \in 1 .. Last + 1
  BY LastAssumption DEF Inv, TypeOK
<1>3. r \in Runs
  BY <1>2, MakeRun
<1>4. r.pc = "next" /\ r.seen = seen /\ r.at = 1
  OBVIOUS
<1> HIDE DEF r
<1>5. Reached(r)
  BY <1>4 DEF Reached, Migrations
<1>6. ~InTransaction(r)
  BY <1>4 DEF InTransaction
<1>7. Goto(p, r)
  BY <1>1 DEF r
<1> QED
  BY <1>3, <1>5, <1>6, <1>7, LocalStep DEF Read

LEMMA SkipInv ==
  ASSUME Inv, NEW p \in Procs, Skip(p)
  PROVE  Inv'
<1> DEFINE r == [pc |-> "next", seen |-> run[p].seen, at |-> run[p].at + 1]
<1>0. run[p] # Idle /\ run[p].seen \in SUBSET Migrations /\ run[p].at \in 1 .. Last + 1
  BY RunFields DEF Skip, Inv
<1>1. run[p].at \in Migrations /\ run[p].at \in recorded /\ run[p].seen \subseteq recorded
  BY <1>0 DEF Skip, Inv, Reached
<1>2. run[p].at + 1 \in 1 .. Last + 1
  BY <1>1, LastAssumption DEF Migrations
<1>3. r \in Runs
  BY <1>0, <1>2, MakeRun
<1>4. r.pc = "next" /\ r.seen = run[p].seen /\ r.at = run[p].at + 1
  OBVIOUS
<1>5. Goto(p, r)
  BY DEF Skip, Advance
<1> HIDE DEF r
<1>6. \A k \in Migrations : k < run[p].at => k \in recorded
  BY <1>0 DEF Inv, Reached
<1>7. Reached(r)
  BY <1>1, <1>4, <1>6 DEF Reached, Migrations
<1>8. ~InTransaction(r)
  BY <1>4 DEF InTransaction
<1> QED
  BY <1>3, <1>5, <1>7, <1>8, LocalStep DEF Skip

LEMMA ExecuteInv ==
  ASSUME Inv, NEW p \in Procs, Execute(p)
  PROVE  Inv'
<1> DEFINE r == [pc |-> "insert", seen |-> run[p].seen, at |-> run[p].at]
<1>0. run[p] # Idle /\ run[p].seen \in SUBSET Migrations /\ run[p].at \in 1 .. Last + 1
  BY RunFields DEF Execute, Inv
<1>1. CASE Goto(p, Idle)
  BY <1>1, IdleFine, LocalStep DEF Execute
<1>2. CASE Step(p, "insert")
  <2>1. r \in Runs /\ r # Idle
    BY <1>0, MakeRun
  <2>2. r.pc = "insert" /\ r.seen = run[p].seen /\ r.at = run[p].at
    OBVIOUS
  <2>3. Goto(p, r)
    BY <1>2 DEF Step
  <2> HIDE DEF r
  <2>4. Reached(r)
    BY <1>0, <2>1, <2>2 DEF Inv, Reached
  <2>5. r.at \in Migrations /\ \A q \in Procs : InTransaction(run[q]) => run[q].at # r.at
    BY <2>2 DEF Execute, Locked, InTransaction
  <2> QED
    BY <2>1, <2>2, <2>3, <2>4, <2>5, LocalStep DEF Execute
<1> QED
  BY <1>1, <1>2 DEF Execute

LEMMA RecordInv ==
  ASSUME Inv, NEW p \in Procs, Record(p)
  PROVE  Inv'
<1> DEFINE r == [pc |-> "commit", seen |-> run[p].seen, at |-> run[p].at]
<1>0. run[p] # Idle /\ run[p].seen \in SUBSET Migrations /\ run[p].at \in 1 .. Last + 1
  BY RunFields DEF Record, Inv
<1>1. CASE run[p].at \in recorded
  BY <1>1, IdleFine, LocalStep DEF Record
<1>2. CASE run[p].at \notin recorded
  <2>1. r \in Runs /\ r # Idle
    BY <1>0, MakeRun
  <2>2. r.pc = "commit" /\ r.seen = run[p].seen /\ r.at = run[p].at
    OBVIOUS
  <2>3. Goto(p, r)
    BY <1>2 DEF Record, Step
  <2> HIDE DEF r
  <2>4. Reached(r)
    BY <1>0, <2>1, <2>2 DEF Inv, Reached
  <2>5. /\ r.at \in Migrations
        /\ r.at \notin recorded
        /\ \A q \in Procs \ {p} : InTransaction(run[q]) => run[q].at # r.at
    BY <1>2, <2>2 DEF Record, Inv, Exclusive, InTransaction
  <2> QED
    BY <2>1, <2>2, <2>3, <2>4, <2>5, LocalStep DEF Record
<1> QED
  BY <1>1, <1>2

LEMMA CommitInv ==
  ASSUME Inv, NEW p \in Procs, Commit(p)
  PROVE  Inv'
<1> DEFINE m == run[p].at
           r == [pc |-> "next", seen |-> run[p].seen, at |-> m + 1]
<1>0. run[p] # Idle /\ run[p].seen \in SUBSET Migrations
  BY RunFields DEF Commit, Inv
<1>1. /\ m \in Migrations
      /\ m \notin recorded
      /\ run[p].seen \subseteq recorded
      /\ \A k \in Migrations : k < m => k \in recorded
      /\ \A q \in Procs \ {p} : InTransaction(run[q]) => run[q].at # m
  BY <1>0 DEF Commit, Inv, Exclusive, InTransaction, Reached
<1>2. m \in Nat /\ m + 1 \in 1 .. Last + 1
  BY <1>1, LastAssumption DEF Migrations
<1>3. r \in Runs /\ r.pc = "next" /\ r.seen = run[p].seen /\ r.at = m + 1
  BY <1>0, <1>2, MakeRun
<1>4. run' = [run EXCEPT ![p] = r]
  BY DEF Commit, Advance, Goto
<1>5. recorded' = recorded \cup {m} /\ applied' = [applied EXCEPT ![m] = @ + 1]
  BY DEF Commit
<1> HIDE DEF r, m
<1>6. run' \in [Procs -> Runs] /\ run'[p] = r /\ \A q \in Procs \ {p} : run'[q] = run[q]
  BY <1>3, <1>4 DEF Inv, TypeOK
<1>7. TypeOK'
  BY <1>1, <1>5, <1>6 DEF Inv, TypeOK
<1>8. AppliedOnce'
  BY <1>1, <1>5 DEF Inv, TypeOK, AppliedOnce
<1>9. InOrder'
  BY <1>1, <1>5 DEF Inv, InOrder
<1>10. ASSUME NEW q \in Procs
       PROVE  Reached(run[q])'
  <2>1. CASE q = p
    <3>1. r.seen \subseteq recorded'
      BY <1>1, <1>3, <1>5
    <3>2. \A k \in Migrations : k < m + 1 => k < m \/ k = m
      BY <1>2 DEF Migrations
    <3> QED
      BY <1>1, <1>3, <1>5, <1>6, <2>1, <3>1, <3>2 DEF Reached
  <2>2. CASE q # p
    BY <1>5, <1>6, <2>2 DEF Inv, Reached
  <2> QED
    BY <2>1, <2>2
<1>11. ASSUME NEW q \in Procs
       PROVE  Exclusive(q)'
  <2>1. ~InTransaction(r)
    BY <1>3 DEF InTransaction
  <2> QED
    BY <1>1, <1>5, <1>6, <2>1 DEF Inv, Exclusive, InTransaction
<1> QED
  BY <1>7, <1>8, <1>9, <1>10, <1>11 DEF Inv

LEMMA StepInv ==
  ASSUME Inv, [Next]_vars
  PROVE  Inv'
<1>1. ASSUME NEW p \in Procs, Finish(p) \/ Fail(p)
      PROVE  Inv'
  BY <1>1, IdleFine, LocalStep DEF Finish, Fail
<1>2. CASE UNCHANGED vars
  BY <1>2 DEF vars, Inv, TypeOK, AppliedOnce, InOrder, Reached, Exclusive, InTransaction
<1> QED
  BY <1>1, <1>2, ReadInv, SkipInv, ExecuteInv, RecordInv, CommitInv DEF Next

(* The inductive invariant holds in every reachable state.                    *)
THEOREM SpecInv == Spec => []Inv
<1>1. Init => Inv
  BY LastAssumption
     DEF Init, Inv, TypeOK, AppliedOnce, InOrder, Reached, Exclusive, InTransaction, Runs, Idle
<1>2. Inv /\ [Next]_vars => Inv'
  BY StepInv
<1> QED
  BY <1>1, <1>2, PTL DEF Spec

-----------------------------------------------------------------------------
(* The database and every instance's progress are well typed.                *)
THEOREM TypeCorrect == Spec => []TypeOK
<1>1. Inv => TypeOK
  BY DEF Inv
<1> QED
  BY <1>1, SpecInv, PTL

(* Each migration is committed once if it is recorded, and never otherwise.  *)
THEOREM MigrationsAppliedOnce == Spec => []AppliedOnce
<1>1. Inv => AppliedOnce
  BY DEF Inv
<1> QED
  BY <1>1, SpecInv, PTL

(* The recorded migrations are always the first so many of the list.         *)
THEOREM MigrationsInOrder == Spec => []InOrder
<1>1. Inv => InOrder
  BY DEF Inv
<1> QED
  BY <1>1, SpecInv, PTL

(* A Run that returns nil leaves no migration to apply.                      *)
THEOREM FinishedRunsComplete == Spec => FinishedMeansMigrated
<1>1. ASSUME Inv, NEW p \in Procs, Finish(p)
      PROVE  recorded = Migrations
  <2>1. run[p] # Idle
    BY <1>1, RunFields DEF Finish, Inv
  <2>2. \A k \in Migrations : k < Last + 1 => k \in recorded
    BY <1>1, <2>1 DEF Inv, Reached, Finish
  <2>3. \A k \in Migrations : k < Last + 1
    BY LastAssumption DEF Migrations
  <2> QED
    BY <1>1, <2>2, <2>3 DEF Inv, TypeOK
<1>2. Inv /\ [Next]_vars => [\A p \in Procs : Finish(p) => recorded = Migrations]_vars
  BY <1>1
<1> QED
  BY <1>2, SpecInv, PTL DEF Spec, FinishedMeansMigrated
=============================================================================
