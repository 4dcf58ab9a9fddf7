---------------------------- MODULE EdgeProcess ----------------------------
(***************************************************************************)
(* The life of the edge process: main() in edge/src/index.ts, which        *)
(* connects the rate limiter (createRateLimitRuntime in                    *)
(* edge/src/rate-limit-runtime.ts), loads a first policy and listens; the  *)
(* readiness it reports (edge/src/app.ts); and its end, by                 *)
(* performGracefulShutdown (edge/src/shutdown.ts) and the handlers that    *)
(* call it or bypass it (installShutdownHandlers and stopDependencies in   *)
(* index.ts); composed with the gateway, whose requests run meanwhile.     *)
(*                                                                         *)
(* The backend of the rate limiter is Redis, whose client (external)       *)
(* reconnects by itself; the in-memory backend is always ready.            *)
(* The HTTP server is external: after close() it refuses new connections   *)
(* and calls back at some later time, with or without an error; requests   *)
(* on connections that are still open keep reaching the gateway.  The      *)
(* callback is not tied to the gateway's slots, which outlive a connection *)
(* while a cancelled stream is being settled.                              *)
(***************************************************************************)
EXTENDS Gateway

VARIABLES
  main,         \* progress of main(), then of the shutdown() call that won
  limiter,      \* the client of the rate limiter's backend
  tls,          \* the timers of the TLS reloaders
  server,       \* the HTTP server and its close() promise
  forced,       \* result.forced: the grace period expired
  deps,         \* stopDependencies(): synchronization and rate-limit backend
  serverFailed, \* the server emitted 'error'
  exitCode,     \* process.exitCode
  errors        \* the list of errors performGracefulShutdown collects is not empty

startVars == <<limiter, tls>>
shutdownVars == <<main, startVars, server, forced, deps, serverFailed, exitCode, errors>>
allVars == <<vars, shutdownVars>>

ProcessTypeOK ==
  /\ TypeOK
  /\ main \in {"connecting", "loading", "failed",
              "serving", "waiting", "stopping", "finished"}
  /\ limiter \in {"absent", "ready", "reconnecting", "closed"}
  /\ tls \in {"off", "running"}
  /\ server \in {"off", "open", "closing", "closed", "closed_with_error"}
  /\ forced \in BOOLEAN
  /\ deps \in {"off", "running", "stopping", "stopped"}
  /\ serverFailed \in BOOLEAN
  /\ exitCode \in {0, 1}
  /\ errors \in BOOLEAN

\* The environment, the trusted key and the TLS material have been read.
ProcessInit ==
  /\ GatewayInit
  /\ snapshot = NoVersion /\ activeVersion = NoVersion /\ engine = NoVersion
  /\ main = "connecting"
  /\ limiter = "absent"
  /\ tls = "off"
  /\ server = "off"
  /\ forced = FALSE
  /\ deps = "off"
  /\ serverFailed = FALSE
  /\ exitCode = 0
  /\ errors = FALSE

-----------------------------------------------------------------------------
(* main()                                                                  *)

\* createRateLimitRuntime(): connected and answering a PING.
LimiterConnects ==
  /\ main = "connecting"
  /\ main' = "loading"
  /\ limiter' = "ready"
  /\ UNCHANGED <<tls, server, forced, deps, serverFailed, exitCode, errors, vars>>

\* The client is destroyed and main() throws.
LimiterUnavailable ==
  /\ main = "connecting"
  /\ main' = "failed"
  /\ limiter' = "closed"
  /\ exitCode' = 1
  /\ UNCHANGED <<tls, server, forced, deps, serverFailed, errors, vars>>

\* synchronizer.start() has installed a first policy: the gateway is created,
\* the server listens, the reloaders start and the handlers are installed.
StartServing(v) ==
  /\ main = "loading"
  /\ main' = "serving"
  /\ server' = "open"
  /\ tls' = "running"
  /\ deps' = "running"
  /\ InstallSnapshot(v)
  /\ UNCHANGED <<limiter, forced, serverFailed, exitCode, errors>>

\* Mutant: the failure is passed on at once.
StartFailsOpen ==
  /\ main = "loading"
  /\ main' = "failed"
  /\ exitCode' = 1
  /\ UNCHANGED <<limiter, tls, server, forced, deps, serverFailed, errors, vars>>

\* start() throws: the limiter is closed and the failure passed on.
StartFails ==
  /\ main = "loading"
  /\ main' = "failed"
  /\ limiter' = "closed"
  /\ exitCode' = 1
  /\ UNCHANGED <<tls, server, forced, deps, serverFailed, errors, vars>>

\* The connection to the backend is lost, or found again by the client itself.
LimiterConnection ==
  /\ \/ limiter = "ready" /\ limiter' = "reconnecting"
     \/ limiter = "reconnecting" /\ limiter' = "ready"
  /\ UNCHANGED <<main, tls, server, forced, deps, serverFailed, exitCode, errors, vars>>

-----------------------------------------------------------------------------
(* The end                                                                 *)

\* SIGINT or SIGTERM.  shuttingDown lets only the first one through: stop
\* the TLS reloaders, drain, close the server, start waiting for idleness and arm the timer, all before
\* the first await.
Signal ==
  /\ main = "serving"
  /\ main' = "waiting"
  /\ accepting' = FALSE
  /\ waiter' = IdlePromise
  /\ server' = "closing"
  /\ tls' = "off"
  /\ UNCHANGED <<limiter, forced, deps, serverFailed, exitCode, errors>>
  /\ UNCHANGED <<pc, active, buffered, released, historyVars, policyVars>>

\* The server's close callback.
ServerCloses(result) ==
  /\ server = "closing"
  /\ server' = result
  /\ UNCHANGED <<main, startVars, forced, deps, serverFailed, exitCode, errors, vars>>

StopDependencies == deps' = IF deps = "running" THEN "stopping" ELSE deps

\* Mutant: completion does not wait for idleness.
CompletedByServerAlone == server \in {"closed", "closed_with_error"}

\* Both promises of the Promise.all are resolved.
Completed ==
  /\ waiter = "resolved"
  /\ server \in {"closed", "closed_with_error"}

\* The race is won by completion.
DrainCompletes ==
  /\ main = "waiting"
  /\ Completed
  /\ main' = "stopping"
  /\ errors' = (server = "closed_with_error")
  /\ StopDependencies
  /\ UNCHANGED <<startVars, server, forced, serverFailed, exitCode, vars>>

\* Mutant: the timer is armed only when the server has closed.
GraceExpiresAfterClose ==
  /\ main = "waiting"
  /\ server # "closing"
  /\ main' = "stopping"
  /\ forced' = TRUE
  /\ StopDependencies
  /\ UNCHANGED <<startVars, server, serverFailed, exitCode, errors, vars>>

\* The race is won by the timer: connections are closed by force and the
\* dependencies stopped under whatever is still running.
GraceExpires ==
  /\ main = "waiting"
  /\ main' = "stopping"
  /\ forced' = TRUE
  /\ StopDependencies
  /\ UNCHANGED <<startVars, server, serverFailed, exitCode, errors, vars>>

\* Mutant: a forced shutdown is reported as a success.
ReportErrorsOnly(failed) == IF errors \/ failed THEN 1 ELSE exitCode

\* The exit code when shutdown() is over: a rejected stop, a forced shutdown
\* and an AggregateError each set it.
Report(failed) == IF forced \/ errors \/ failed THEN 1 ELSE exitCode

\* stopDependencies() settles, each of its two halves well or badly (a client
\* that cannot be closed is destroyed), and shutdown() ends.
ShutdownFinishes(failed) ==
  /\ main = "stopping"
  /\ main' = "finished"
  /\ deps' = "stopped"
  /\ limiter' = "closed"
  /\ exitCode' = Report(failed)
  /\ UNCHANGED <<tls, server, forced, serverFailed, errors, vars>>

\* Mutant: the handler stops the dependencies only.
ServerErrorWithoutDrain ==
  /\ server # "off"
  /\ ~serverFailed
  /\ serverFailed' = TRUE
  /\ exitCode' = 1
  /\ tls' = "off"
  /\ StopDependencies
  /\ UNCHANGED <<main, limiter, server, forced, errors, vars>>

\* The server's 'error' handler: drain, and stop everything else at once.
ServerError ==
  /\ server # "off"
  /\ ~serverFailed
  /\ serverFailed' = TRUE
  /\ exitCode' = 1
  /\ tls' = "off"
  /\ accepting' = FALSE
  /\ StopDependencies
  /\ UNCHANGED <<main, limiter, server, forced, errors>>
  /\ UNCHANGED <<pc, active, waiter, buffered, released, historyVars, policyVars>>

\* The stopDependencies() call of the 'error' handler settles.
ErrorStopSettles ==
  /\ serverFailed
  /\ deps = "stopping"
  /\ deps' = "stopped"
  /\ limiter' = "closed"
  /\ UNCHANGED <<main, tls, server, forced, serverFailed, exitCode, errors, vars>>

\* The gateway and, until it is stopped, the synchronizer go on meanwhile.
GatewayRuns ==
  /\ server # "off"
  /\ \/ \E r \in Requests : RequestStep(r)
     \/ \E v \in Versions : deps # "stopped" /\ InstallSnapshot(v)
  /\ UNCHANGED shutdownVars

ProcessNext ==
  \/ LimiterConnects \/ LimiterUnavailable
  \/ \E v \in Versions : StartServing(v)
  \/ StartFails
  \/ LimiterConnection
  \/ GatewayRuns
  \/ Signal
  \/ \E result \in {"closed", "closed_with_error"} : ServerCloses(result)
  \/ DrainCompletes
  \/ GraceExpires
  \/ \E failed \in BOOLEAN : ShutdownFinishes(failed)
  \/ ServerError
  \/ ErrorStopSettles

ProcessSpec == ProcessInit /\ [][ProcessNext]_allVars

\* The timer fires, and stopDependencies settles: stop() aborts what the
\* synchronizer waits for, and the backend's close is bounded by its own
\* timeouts.  Nothing is assumed of clients, upstreams or the server.
FairProcessSpec ==
  /\ ProcessSpec
  /\ WF_allVars(GraceExpires \/ DrainCompletes)
  /\ WF_allVars(\E failed \in BOOLEAN : ShutdownFinishes(failed))

-----------------------------------------------------------------------------
(* Properties                                                              *)

\* docs/circuit-breaking-and-draining.md: the dependencies are closed "only
\* after requests are idle".  The code keeps this unless the grace period
\* expired or the server itself failed: no request that is still being
\* handled can find its rate limiter closed.
DependenciesOutliveRequests ==
  deps # "running" /\ ~forced /\ ~serverFailed => Holders = {}

\* Exit status 0 means a clean end: nothing was cut off, nobody was admitted
\* after the drain, the server closed without an error.
SuccessMeansDrained ==
  main = "finished" /\ exitCode = 0 =>
    Holders = {} /\ ~accepting /\ server = "closed"

\* GET /readyz answers 200.
Ready == snapshot # NoVersion /\ limiter = "ready" /\ accepting

\* An edge that reports itself ready is one to send requests to: it listens,
\* is not being stopped, and nothing it needs is being stopped under it, in
\* whatever order signals, server errors and the backend's failures come.
ReadyMeansServing == Ready => server = "open" /\ main = "serving" /\ deps = "running"

\* When main() has failed or shutdown() is over nothing is left that would keep
\* the process from exiting, so that it is restarted: no connection to the
\* backend, no synchronization, no listening server, no reloader.
NothingKeepsItAlive ==
  main \in {"failed", "finished"} =>
    limiter = "closed" /\ tls = "off" /\ deps \in {"off", "stopped"} /\ server # "open"

\* A signal always ends in a finished shutdown, whatever clients, upstreams
\* and the server do.
ShutdownEnds == main = "waiting" ~> main = "finished"

=============================================================================
