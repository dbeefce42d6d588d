------------------------------- MODULE Server -------------------------------
(***************************************************************************)
(* The life of the process: main() of main.rs with shutdown.rs, and what   *)
(* becomes of the handlers that run when it ends.                          *)
(*                                                                         *)
(* main() waits for the first of two futures: axum's server, which returns *)
(* after a signal once every connection has been drained, and a timer of   *)
(* shutdown_timeout_secs that starts together with the server.  It then    *)
(* closes the pool, which waits for the connections that are checked out,  *)
(* and returns, which drops every handler still there at its await.        *)
(*                                                                         *)
(* A handler is a chain of statements.  Between two statements it holds no *)
(* connection of the pool, unless it runs them in a transaction.           *)
(***************************************************************************)
EXTENDS Integers, FiniteSets

CONSTANTS
    Clients,          \* connections; each has at most one request under way
    Length,           \* statements of a handler
    PoolSize,         \* PgPoolOptions::max_connections
    ShutdownTimeout   \* config.shutdown_timeout_secs

ASSUME ServerConstants ==
    /\ Length \in Nat \ {0}
    /\ PoolSize \in Nat \ {0}
    /\ ShutdownTimeout \in Nat

VARIABLES
    phase,      \* of main()
    signalled,  \* SIGINT or SIGTERM has arrived
    forced,     \* the timer won: main() has let go of a running server
    elapsed,    \* seconds since the server started, up to ShutdownTimeout
    poolOpen,   \* the pool gives out connections
    running,    \* clients with a handler under way
    inTx,       \* clients whose latest handler uses a transaction
    holds,      \* clients whose handler has a connection checked out
    steps,      \* statements a handler has executed
    cut         \* history: clients whose latest handler the shutdown ended half-way

process  == <<phase, signalled, forced, elapsed, poolOpen>>
handlers == <<running, inTx, holds, steps>>
serverVars == <<process, handlers, cut>>

ServerInit ==
    /\ phase = "serving"
    /\ signalled = FALSE
    /\ forced = FALSE
    /\ elapsed = 0
    /\ poolOpen = TRUE
    /\ running = {}
    /\ inTx = {}
    /\ holds = {}
    /\ steps = [c \in Clients |-> 0]
    /\ cut = {}

-----------------------------------------------------------------------------
(***************************************************************************)
(* Handlers.                                                               *)
(***************************************************************************)
\* A new request: while the server runs, or on a connection kept open after main()
\* has let go of it, since the connection tasks run on.  A signal stops both.
Arrive(c, tx) ==
    /\ phase = "serving" \/ (phase = "closing" /\ forced)
    /\ ~signalled
    /\ c \notin running
    /\ running' = running \cup {c}
    /\ inTx'  = IF tx THEN inTx \cup {c} ELSE inTx \ {c}
    /\ steps' = [steps EXCEPT ![c] = 0]
    /\ cut'   = cut \ {c}
    /\ UNCHANGED <<process, holds>>

\* A handler that asks the pool for a connection.
Waiting(c) == phase # "stopped" /\ c \in running \ holds /\ steps[c] < Length

\* Mutant of Acquire: the pool has no limit.
AcquireUnlimited(c) ==
    /\ Waiting(c)
    /\ poolOpen
    /\ holds' = holds \cup {c}
    /\ UNCHANGED <<process, running, inTx, steps, cut>>

\* The pool hands out a connection for the next statement.
Acquire(c) ==
    /\ Waiting(c)
    /\ poolOpen
    /\ Cardinality(holds) < PoolSize
    /\ holds' = holds \cup {c}
    /\ UNCHANGED <<process, running, inTx, steps, cut>>

\* Mutant of Execute: the handler keeps its connection between its statements.
ExecuteKeeps(c) ==
    /\ phase # "stopped"
    /\ c \in holds
    /\ steps[c] < Length
    /\ steps' = [steps EXCEPT ![c] = @ + 1]
    /\ UNCHANGED <<process, running, inTx, holds, cut>>

\* The statement is done; outside a transaction the connection goes back.
Execute(c) ==
    /\ phase # "stopped"
    /\ c \in holds
    /\ steps[c] < Length
    /\ steps' = [steps EXCEPT ![c] = @ + 1]
    /\ holds' = IF c \in inTx /\ steps[c] + 1 < Length THEN holds ELSE holds \ {c}
    /\ UNCHANGED <<process, running, inTx, cut>>

Answer(c) ==
    /\ phase # "stopped"
    /\ c \in running
    /\ steps[c] = Length
    /\ running' = running \ {c}
    /\ UNCHANGED <<process, inTx, holds, steps, cut>>

\* acquire() fails: the pool is closed, or it stayed empty for acquire_timeout.  The
\* handler answers 500, and what its earlier statements did stays.
PoolClosed(c) ==
    /\ Waiting(c)
    /\ ~poolOpen
    /\ running' = running \ {c}
    /\ cut' = IF steps[c] > 0 THEN cut \cup {c} ELSE cut
    /\ UNCHANGED <<process, inTx, holds, steps>>

PoolTimedOut(c) ==
    /\ Waiting(c)
    /\ poolOpen
    /\ Cardinality(holds) = PoolSize
    /\ running' = running \ {c}
    /\ UNCHANGED <<process, inTx, holds, steps, cut>>

\* The client hangs up: its handler is dropped, a transaction is rolled back.
HangUp(c) ==
    /\ phase # "stopped"
    /\ c \in running
    /\ running' = running \ {c}
    /\ holds' = holds \ {c}
    /\ UNCHANGED <<process, inTx, steps, cut>>

-----------------------------------------------------------------------------
(***************************************************************************)
(* main().                                                                 *)
(***************************************************************************)
Signal ==
    /\ phase \in {"serving", "closing"}
    /\ ~signalled
    /\ signalled' = TRUE
    /\ phase' = IF phase = "serving" THEN "draining" ELSE phase
    /\ UNCHANGED <<forced, elapsed, poolOpen, handlers, cut>>

\* Mutant of Drained: the server returns on the signal and does not drain.
DrainedAtOnce ==
    /\ phase = "draining"
    /\ phase' = "closing"
    /\ UNCHANGED <<signalled, forced, elapsed, poolOpen, handlers, cut>>

\* The server's future is ready: every connection is drained.
Drained ==
    /\ phase = "draining"
    /\ running = {}
    /\ phase' = "closing"
    /\ UNCHANGED <<signalled, forced, elapsed, poolOpen, handlers, cut>>

\* The other branch of the select!: sleep(timeout), polled since the start.
TimedOut ==
    /\ phase \in {"serving", "draining"}
    /\ elapsed = ShutdownTimeout
    /\ phase' = "closing"
    /\ forced' = TRUE
    /\ UNCHANGED <<signalled, elapsed, poolOpen, handlers, cut>>

\* pool.close() first closes the pool to newcomers ...
ClosePool ==
    /\ phase = "closing"
    /\ poolOpen
    /\ poolOpen' = FALSE
    /\ UNCHANGED <<phase, signalled, forced, elapsed, handlers, cut>>

\* Mutant of Stop: main() does not await pool.close().
StopAtOnce ==
    /\ phase = "closing"
    /\ ~poolOpen
    /\ phase' = "stopped"
    /\ cut' = cut \cup {c \in running : steps[c] \in 1 .. Length - 1}
    /\ UNCHANGED <<signalled, forced, elapsed, poolOpen, handlers>>

\* ... and its await ends when the last connection is back; main() returns and the
\* runtime drops the handlers that are left.
Stop ==
    /\ phase = "closing"
    /\ ~poolOpen
    /\ holds = {}
    /\ phase' = "stopped"
    /\ cut' = cut \cup {c \in running : steps[c] \in 1 .. Length - 1}
    /\ UNCHANGED <<signalled, forced, elapsed, poolOpen, handlers>>

Tick ==
    /\ phase # "stopped"
    /\ elapsed < ShutdownTimeout
    /\ elapsed' = elapsed + 1
    /\ UNCHANGED <<phase, signalled, forced, poolOpen, handlers, cut>>

Main == Drained \/ TimedOut \/ ClosePool \/ Stop

Work(c) == Execute(c) \/ Answer(c) \/ PoolClosed(c)

ServerNext ==
    \/ \E c \in Clients : Arrive(c, TRUE) \/ Arrive(c, FALSE)
    \/ \E c \in Clients : Acquire(c) \/ Work(c) \/ PoolTimedOut(c) \/ HangUp(c)
    \/ Signal
    \/ Main
    \/ Tick
    \/ phase = "stopped" /\ UNCHANGED serverVars

ServerSpec == ServerInit /\ [][ServerNext]_serverVars

\* main() and the handlers are polled when they are ready, statements end, and time
\* passes.  Nothing makes a client hang up, or acquire() succeed or time out.
FairServerSpec ==
    /\ ServerSpec
    /\ WF_serverVars(Main)
    /\ WF_serverVars(Tick)
    /\ \A c \in Clients : WF_serverVars(Work(c))

-----------------------------------------------------------------------------
\* Type correctness.
ServerTypeOK ==
    /\ phase \in {"serving", "draining", "closing", "stopped"}
    /\ signalled \in BOOLEAN
    /\ forced \in BOOLEAN
    /\ elapsed \in 0 .. ShutdownTimeout
    /\ poolOpen \in BOOLEAN
    /\ running \subseteq Clients
    /\ inTx \subseteq Clients
    /\ holds \subseteq running
    /\ Cardinality(holds) <= PoolSize
    /\ steps \in [Clients -> 0 .. Length]
    /\ cut \subseteq Clients

\* A handler loses its later statements to a shutdown only if the timer has fired: a
\* server that drains in time lets every request it accepted run to its answer, with
\* the pool open until then (main.rs:134-148).
CutOnlyByTimer == cut # {} => forced

\* A transaction is never cut, not even by the timer: its connection stays checked out
\* from the first statement to the last, and pool.close() waits for it before main()
\* returns (main.rs:148-154, user.rs:104-156).
TransactionsFinish == cut \cap inTx = {}

\* After a signal the process stops, whatever the handlers do: each connection comes
\* back to the pool that pool.close() waits for, since a handler returns it between its
\* statements or after its transaction (main.rs:136-148).
SignalStops == signalled ~> phase = "stopped"

\* What the setting promises (config.rs:35-36 "Maximum time to wait for in-flight
\* requests to complete during graceful shutdown"): the server stops only when it has
\* been told to.
StopsOnlyWhenSignalled == phase \in {"closing", "stopped"} => signalled

\* Once pool.close() has begun, connections only come back, and a handler that still has
\* one only goes on: nobody else gets one, no handler begins anew on the one it has, and
\* main() neither opens the pool again nor goes back to serving.  So the await of close()
\* ends when the statements under way do (main.rs:148-154).
ClosingStep ==
    ~poolOpen =>
       /\ ~poolOpen'
       /\ phase' \in {phase, "stopped"}
       /\ holds' \subseteq holds
       /\ \A c \in holds' : steps'[c] >= steps[c] /\ (c \in inTx' <=> c \in inTx)

PoolOnlyDrains == [][ClosingStep]_serverVars
=============================================================================
