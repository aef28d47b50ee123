------------------------------- MODULE Server -------------------------------
(***************************************************************************)
(* The process of cmd/users/main.go and internal/server/server.go around   *)
(* the requests: a listener that is shut down by a signal, requests that   *)
(* are let finish for 30 seconds, and the database/sql pool from which     *)
(* every statement takes a connection and waits while there is none.       *)
(* Shutdown does not end the requests that outlast its deadline: they run  *)
(* on while main closes the pool, until the process is gone.               *)
(*                                                                         *)
(* Page requests are those of Listing, whose actions run here; of the      *)
(* requests of all other kinds only the statements they run are modelled.  *)
(***************************************************************************)
EXTENDS Listing, FiniteSets

CONSTANTS
    Others,       \* requests of other kinds that may be in flight
    MaxOpenConns  \* DatabaseConfig.MaxOpenConns; 0, no limit, is not modelled

ASSUME OthersAssumption == IsFiniteSet(Others) /\ IsFiniteSet(Clients)
ASSUME MaxOpenConnsAssumption == MaxOpenConns \in Nat \ {0}

VARIABLES
    process,  \* the service's process: "up", "draining" after a signal, "closing" the
              \* pool when Shutdown has returned, or "down"
    busy      \* those of Others that are running a statement, on a connection each

serverVars == <<rank, size, walk, process, busy>>

ServerTypeOK ==
    /\ TypeOK
    /\ process \in {"up", "draining", "closing", "down"}
    /\ busy \subseteq Others
    /\ process = "down" => busy = {}

ServerInit ==
    /\ Init
    /\ process = "down"
    /\ busy = {}

----------------------------------------------------------------------------
(* The pool *)

\* Mutant: List keeps the rows of its COUNT open until it returns.
CountKeepsConn == {c \in Clients : walk[c].pc \in {"select", "rows", "hung"}}

\* QueryRow's Scan gives the COUNT's connection back; the SELECT's stays until
\* List returns and closes its rows.
ListConns == {c \in Clients : walk[c].pc \in {"rows", "hung"}}

\* Never more than MaxOpenConns are out, and none is given once Close was called.
ConnFree ==
    /\ process \in {"up", "draining"}
    /\ Cardinality(ListConns) + Cardinality(busy) < MaxOpenConns

----------------------------------------------------------------------------
(* Requests *)

Running == process # "down"

\* The listener accepts while it is open.
Accept(c) ==
    /\ process = "up"
    /\ Ask(c)
    /\ UNCHANGED <<process, busy>>

\* What a page request does next, when it gets a connection if it needs one.
ListStep(c) ==
    /\ Running
    /\ Return(c) \/ (ConnFree /\ (Count(c) \/ Select(c)))
    /\ UNCHANGED <<process, busy>>

\* Its statement hangs, or fails, or getting a connection for it does.
ListFault(c) ==
    /\ Running
    /\ (ConnFree /\ Hang(c)) \/ Fail(c)
    /\ UNCHANGED <<process, busy>>

\* A request that wants a connection of a closed pool fails at once.
Refused(c) ==
    /\ process = "closing"
    /\ walk[c].pc \in {"count", "select"}
    /\ Lose({c})
    /\ UNCHANGED <<process, busy>>

OtherStatement(r) ==
    /\ ConnFree
    /\ busy' = busy \cup {r}
    /\ UNCHANGED <<vars, process>>

\* The statement is answered, or fails.
OtherAnswer(r) ==
    /\ r \in busy
    /\ busy' = busy \ {r}
    /\ UNCHANGED <<vars, process>>

----------------------------------------------------------------------------
(* The process *)

AllServed == (\A c \in Clients : ~InFlight(walk[c])) /\ busy = {}

\* The supervisor starts it: the pool is open, and the listener.
Restart ==
    /\ process = "down"
    /\ process' = "up"
    /\ UNCHANGED <<vars, busy>>

\* SIGINT or SIGTERM: Shutdown closes the listener.
Signal ==
    /\ process = "up"
    /\ process' = "draining"
    /\ UNCHANGED <<vars, busy>>

\* The process is gone, and with it whatever was in flight.
Exit ==
    /\ process' = "down"
    /\ busy' = {}
    /\ Lose(Clients)

\* Mutant: Shutdown is given a context without a deadline.
NoDeadline == FALSE /\ UNCHANGED serverVars

\* Shutdown returns, nil or an error that is only logged, and db.Close is called.
ShutdownReturns ==
    /\ process = "draining"
    /\ process' = "closing"
    /\ UNCHANGED <<vars, busy>>

\* It does so when all is served, and when its 30 seconds are over.
Drained == AllServed /\ ShutdownReturns
Deadline == ShutdownReturns

\* main returns.  Close is documented to wait for the statements that have begun;
\* that it may return earlier is left open, that it does so when they are over
\* is what Closed counts on.
MainReturns == process = "closing" /\ Exit
Closed == ListConns = {} /\ busy = {} /\ MainReturns

\* The process is killed, or its listener fails, which is fatal.
Crash == Faulty /\ process # "down" /\ Exit

----------------------------------------------------------------------------
ServerNext ==
    \/ TableChanges /\ UNCHANGED <<process, busy>>
    \/ \E c \in Clients :
          \/ Begin(c) /\ UNCHANGED <<process, busy>>
          \/ Accept(c) \/ ListStep(c) \/ ListFault(c) \/ Refused(c)
    \/ \E r \in Others : OtherStatement(r) \/ OtherAnswer(r)
    \/ Restart \/ Signal \/ Drained \/ Deadline \/ MainReturns \/ Crash

ServerSpec == ServerInit /\ [][ServerNext]_serverVars

\* A request's goroutine runs on; one that waits for a connection is given one
\* if there is one again and again, since database/sql hands those that come back
\* to requests that wait; the deadline comes, and Close returns when nothing holds
\* it up.  Whether PostgreSQL answers is left open.
ServerFairness ==
    /\ \A c \in Clients : SF_serverVars(ListStep(c)) /\ WF_serverVars(Refused(c))
    /\ WF_serverVars(Drained) /\ WF_serverVars(Deadline) /\ WF_serverVars(Closed)

ServerFairSpec == ServerSpec /\ ServerFairness

----------------------------------------------------------------------------
(* No request waits for ever: as long as PostgreSQL answers what it is asked, *)
(* every page request that was accepted is answered or told that it failed,   *)
(* with a single connection for all, since nobody holds one while he waits    *)
(* for another (postgres.go 285-346, main.go:101).                            *)
Answers ==
    /\ \A c \in Clients : []<>(walk[c].pc # "hung")
    /\ \A r \in Others : []<>(r \notin busy)

Answered == Answers => \A c \in Clients : InFlight(walk[c]) ~> ~InFlight(walk[c])

(* A signal ends the process as long as statements are answered: whatever     *)
(* the requests do for ever, the deadline stops their waiting for Shutdown,   *)
(* and of the closed pool they get no connection any more, so that one by one *)
(* all come back for which Close may wait.  A single statement that is never  *)
(* answered may hold it up for ever, for statements have no deadline          *)
(* (main.go 36 and 79-92, postgres.go 290-309).                               *)
ShutdownEnds == Answers => (process = "draining" ~> process = "down")
============================================================================
