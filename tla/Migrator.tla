------------------------------ MODULE Migrator ------------------------------
(***************************************************************************)
(* Migrator.Run of internal/migrations/migrations.go, run by several       *)
(* instances of the service against one database: read which migrations    *)
(* are recorded, then apply each of the others in a transaction that also  *)
(* records it.                                                             *)
(*                                                                         *)
(* Of PostgreSQL it takes that an open transaction is seen by nobody and   *)
(* undone when its client fails, and that two transactions that execute    *)
(* the same migration wait for each other: every migration creates or      *)
(* alters a table, which locks it until the transaction ends.              *)
(***************************************************************************)
EXTENDS Naturals

CONSTANTS
    Procs,  \* instances that migrate
    Last,   \* allMigrations is 1 .. Last, in this order
    Faulty  \* TRUE when statements may fail and instances may die

ASSUME LastAssumption == Last \in Nat
ASSUME FaultyAssumption == Faulty \in BOOLEAN

Migrations == 1 .. Last

VARIABLES
    recorded,  \* rows of schema_migrations
    applied,   \* history: how often each migration's SQL has been committed
    run        \* what each instance is doing

vars == <<recorded, applied, run>>

Idle == [pc |-> "idle"]

\* "next": at the head of the loop; "insert", "commit": in migration m's transaction.
Runs == {Idle} \cup
    [pc : {"next", "insert", "commit"}, seen : SUBSET Migrations, at : 1 .. Last + 1]

TypeOK ==
    /\ recorded \in SUBSET Migrations
    /\ applied \in [Migrations -> Nat]
    /\ run \in [Procs -> Runs]

Init ==
    /\ recorded = {}
    /\ applied = [m \in Migrations |-> 0]
    /\ run = [p \in Procs |-> Idle]

----------------------------------------------------------------------------
Goto(p, r) == run' = [run EXCEPT ![p] = r]

Step(p, pc) == Goto(p, [pc |-> pc, seen |-> run[p].seen, at |-> run[p].at])

\* On to the migration after this one.
Advance(p) == Goto(p, [pc |-> "next", seen |-> run[p].seen, at |-> run[p].at + 1])

\* Another instance is in a transaction that has executed migration m.
Locked(m) == \E q \in Procs : run[q].pc \in {"insert", "commit"} /\ run[q].at = m

----------------------------------------------------------------------------
(* createMigrationsTable and getAppliedMigrations, whose loop over the rows   *)
(* ends at an error as it does at the last row.                               *)
Read(p) ==
    /\ run[p] = Idle
    /\ \E seen \in SUBSET recorded :
          /\ Faulty \/ seen = recorded
          /\ Goto(p, [pc |-> "next", seen |-> seen, at |-> 1])
    /\ UNCHANGED <<recorded, applied>>

\* Mutant: every migration is taken for an applied one.
SkipAny(p) ==
    /\ run[p].pc = "next"
    /\ Advance(p)
    /\ UNCHANGED <<recorded, applied>>

Skip(p) ==
    /\ run[p].pc = "next"
    /\ run[p].at \in run[p].seen
    /\ Advance(p)
    /\ UNCHANGED <<recorded, applied>>

\* BEGIN and the migration's SQL.  If it has been applied meanwhile it may fail
\* on what is there already (CREATE INDEX) or not (ADD COLUMN IF NOT EXISTS).
Execute(p) ==
    /\ run[p].pc = "next"
    /\ run[p].at \in Migrations \ run[p].seen
    /\ ~Locked(run[p].at)
    /\ \/ Step(p, "insert")
       \/ run[p].at \in recorded /\ Goto(p, Idle)
    /\ UNCHANGED <<recorded, applied>>

\* Mutant: ON CONFLICT DO NOTHING.
RecordAgain(p) ==
    /\ run[p].pc = "insert"
    /\ Step(p, "commit")
    /\ UNCHANGED <<recorded, applied>>

\* INSERT INTO schema_migrations: its primary key refuses a second row.
Record(p) ==
    /\ run[p].pc = "insert"
    /\ IF run[p].at \in recorded THEN Goto(p, Idle) ELSE Step(p, "commit")
    /\ UNCHANGED <<recorded, applied>>

Commit(p) ==
    /\ run[p].pc = "commit"
    /\ recorded' = recorded \cup {run[p].at}
    /\ applied' = [applied EXCEPT ![run[p].at] = @ + 1]
    /\ Advance(p)

\* Run returns nil.
Finish(p) ==
    /\ run[p].pc = "next"
    /\ run[p].at = Last + 1
    /\ Goto(p, Idle)
    /\ UNCHANGED <<recorded, applied>>

\* Mutant: a migration's error is logged and the loop goes on.
FailContinue(p) ==
    /\ Faulty
    /\ run[p] # Idle
    /\ IF run[p].at \in Migrations THEN Advance(p) ELSE Goto(p, Idle)
    /\ UNCHANGED <<recorded, applied>>

\* Run returns an error, or the instance dies: an open transaction is rolled back.
Fail(p) ==
    /\ Faulty
    /\ run[p] # Idle
    /\ Goto(p, Idle)
    /\ UNCHANGED <<recorded, applied>>

Next ==
    \E p \in Procs :
        Read(p) \/ Skip(p) \/ Execute(p) \/ Record(p) \/ Commit(p) \/ Finish(p) \/ Fail(p)

Spec == Init /\ [][Next]_vars

----------------------------------------------------------------------------
(* A recorded migration has been applied once, any other not at all: however  *)
(* instances overlap, misread what is recorded, fail or die (the transaction  *)
(* and the primary key of applyMigration, migrations.go:100-118).             *)
AppliedOnce == \A m \in Migrations : applied[m] = IF m \in recorded THEN 1 ELSE 0

(* No migration is applied before those it builds on (migrations.go:50-63).   *)
InOrder == \A m \in recorded, k \in Migrations : k < m => k \in recorded

(* "Run executes all pending migrations" (migrations.go:34): when it returns  *)
(* nil, none is left, whatever it read and whoever else was at work.          *)
FinishedMeansMigrated == [][\A p \in Procs : Finish(p) => recorded = Migrations]_vars
=============================================================================
