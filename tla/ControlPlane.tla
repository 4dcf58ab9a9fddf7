---------------------------- MODULE ControlPlane ----------------------------
(***************************************************************************)
(* The control plane as a whole, from keygen to exit: runServe in          *)
(* cmd/shieldwardd/serve.go signs and publishes the policy, starts the     *)
(* watcher and the HTTP server, and ends on a signal or when the server    *)
(* fails.  It composes KeyFiles (the key it signs with), PolicyWatcher     *)
(* (the goroutine that publishes) and BundleStore (the store and the event *)
(* handlers).                                                              *)
(*                                                                         *)
(* The watcher is the only publisher, so that it is busy while the store's *)
(* loop runs.  The keys are provisioned before serve is started; later     *)
(* trouble with the key file is the watcher's SignFails.  http.Server is   *)
(* external: Shutdown closes the listener and waits for the handlers.      *)
(***************************************************************************)
EXTENDS BundleStore, KeyFiles

CONSTANTS
  Contents, Valid, Missing, NoPolicy, KeyMayFail, MaxEdits   \* of PolicyWatcher

ASSUME WatcherAssumption ==
  /\ Valid \subseteq Contents /\ Valid # {}
  /\ Missing \notin Contents /\ NoPolicy \notin Contents
  /\ KeyMayFail \in BOOLEAN
  /\ MaxEdits \in Nat

VARIABLES
  content, edits, published, watchStep, lastObservation,
  firstCheck, loaded, signFailed,
  main,       \* where runServe is
  cancelled,  \* processContext is done
  stalled,    \* handlers blocked in a write to a client that does not read
  exit        \* what runServe returned

W == INSTANCE PolicyWatcher WITH step <- watchStep

watcherVars ==
  <<content, edits, published, watchStep, lastObservation,
    firstCheck, loaded, signFailed>>
serveVars == <<main, cancelled, stalled, exit>>
controlVars == <<vars, watcherVars, keyVars, serveVars>>

ControlTypeOK ==
  /\ TypeOK /\ W!TypeOK /\ KeyTypeOK
  /\ main \in {"provisioning", "publishing", "serving", "draining", "returned"}
  /\ cancelled \in BOOLEAN
  /\ stalled \subseteq open
  /\ exit \in {"none", "ok", "error"}

ControlInit ==
  /\ Init /\ W!Init /\ KeyInit
  /\ main = "provisioning"
  /\ cancelled = FALSE
  /\ stalled = {}
  /\ exit = "none"

-----------------------------------------------------------------------------
(* Before and at the start                                                 *)

Provision ==
  /\ main = "provisioning"
  /\ KeyNext
  /\ UNCHANGED <<vars, watcherVars, serveVars>>

\* The policy and the private key load, and the first bundle is published.  How
\* the runs of keygen ended is of no interest any more.
StartServe ==
  /\ main = "provisioning"
  /\ Running = {}
  /\ PrivateLoads
  /\ Publish
  /\ main' = "publishing"
  /\ keygen' = [k \in Keygens |-> "new"]
  /\ UNCHANGED <<watcherVars, publicFile, privateFile, cancelled, stalled, exit>>

\* The listener is open: watcher and server are started.
Listen ==
  /\ main = "publishing"
  /\ step = "idle"
  /\ main' = "serving"
  /\ UNCHANGED <<vars, watcherVars, keyVars, cancelled, stalled, exit>>

Return(result) ==
  /\ main' = "returned"
  /\ exit' = result

ListenFails ==
  /\ main = "publishing"
  /\ step = "idle"
  /\ Return("error")
  /\ UNCHANGED <<vars, watcherVars, keyVars, cancelled, stalled>>

-----------------------------------------------------------------------------
(* Watcher, store and handlers, until the process ends                     *)

Alive == main \in {"serving", "draining"}

OperatorEdits ==
  /\ main \in {"publishing", "serving"}
  /\ W!OperatorEdits
  /\ UNCHANGED <<vars, keyVars, serveVars>>

\* The watcher's steps up to a publication.
WatcherRuns ==
  /\ Alive
  /\ step = "idle"
  /\ W!WatcherRuns
  /\ UNCHANGED <<vars, keyVars, serveVars>>

WatcherPublishes ==
  /\ Alive
  /\ W!Publish
  /\ Publish
  /\ UNCHANGED <<keyVars, serveVars>>

\* The watcher returns between two ticks.
WatcherStops ==
  /\ Alive
  /\ cancelled
  /\ step = "idle"
  /\ W!StopWatch
  /\ UNCHANGED <<vars, keyVars, serveVars>>

StoreRuns ==
  /\ main # "returned"
  /\ PublisherStep
  /\ UNCHANGED <<watcherVars, keyVars, serveVars>>

Connect(s) ==
  /\ main = "serving"
  /\ Subscribe(s)
  /\ UNCHANGED <<watcherVars, keyVars, serveVars>>

HandlerAnnounces(s) ==
  /\ Alive
  /\ s \notin stalled
  /\ Receive(s)
  /\ UNCHANGED <<watcherVars, keyVars, serveVars>>

\* The handler takes a version and its write blocks: the server has no write
\* timeout.
HandlerStalls(s) ==
  /\ Alive
  /\ s \notin stalled
  /\ Receive(s)
  /\ stalled' = stalled \cup {s}
  /\ UNCHANGED <<watcherVars, keyVars, main, cancelled, exit>>

WriteResumes(s) ==
  /\ Alive
  /\ s \in stalled
  /\ stalled' = stalled \ {s}
  /\ UNCHANGED <<vars, watcherVars, keyVars, main, cancelled, exit>>

\* The client is gone: a blocked write fails, an idle handler's context ends.
Disconnect(s) ==
  /\ Alive
  /\ Cancel(s)
  /\ stalled' = stalled \ {s}
  /\ UNCHANGED <<watcherVars, keyVars, main, cancelled, exit>>

\* Mutant: request contexts do not descend from the process's.
ContextOutlivesProcess == FALSE

\* request.Context().Done(): BaseContext hands out processContext.
RequestContextDone == cancelled

HandlerEnds(s) ==
  /\ Alive
  /\ RequestContextDone
  /\ s \notin stalled
  /\ Cancel(s)
  /\ UNCHANGED <<watcherVars, keyVars, serveVars>>

-----------------------------------------------------------------------------
(* The end                                                                 *)

\* SIGINT or SIGTERM ends processContext.
Signal ==
  /\ main \in {"publishing", "serving"}
  /\ ~cancelled
  /\ cancelled' = TRUE
  /\ UNCHANGED <<vars, watcherVars, keyVars, main, stalled, exit>>

\* The server ends by itself.
ServeFails ==
  /\ main = "serving"
  /\ Return("error")
  /\ UNCHANGED <<vars, watcherVars, keyVars, cancelled, stalled>>

\* The select notices the signal and calls Shutdown: nobody connects any more.
BeginShutdown ==
  /\ main = "serving"
  /\ cancelled
  /\ main' = "draining"
  /\ UNCHANGED <<vars, watcherVars, keyVars, cancelled, stalled, exit>>

\* Every handler has returned.
ShutdownReturns ==
  /\ main = "draining"
  /\ open = {}
  /\ Return("ok")
  /\ UNCHANGED <<vars, watcherVars, keyVars, cancelled, stalled>>

\* Ten seconds are over, which is long for everything but a blocked write: the
\* server is closed by force.
ShutdownTimesOut ==
  /\ main = "draining"
  /\ stalled # {}
  /\ Return("error")
  /\ UNCHANGED <<vars, watcherVars, keyVars, cancelled, stalled>>

-----------------------------------------------------------------------------
HandlerStep(s) ==
  \/ Connect(s) \/ HandlerAnnounces(s) \/ HandlerStalls(s)
  \/ WriteResumes(s) \/ Disconnect(s) \/ HandlerEnds(s)

ControlNext ==
  \/ Provision \/ StartServe \/ Listen \/ ListenFails
  \/ OperatorEdits \/ WatcherRuns \/ WatcherPublishes \/ WatcherStops
  \/ StoreRuns
  \/ \E s \in Subscribers : HandlerStep(s)
  \/ Signal \/ ServeFails \/ BeginShutdown \/ ShutdownReturns \/ ShutdownTimesOut

ControlSpec == ControlInit /\ [][ControlNext]_controlVars

\* The ticker ticks, goroutines that can run are scheduled, and the shutdown
\* timer fires.  Nothing is assumed of operators and clients.
FairControlSpec ==
  /\ ControlSpec
  /\ WF_controlVars(WatcherRuns \/ WatcherPublishes)
  /\ WF_controlVars(StoreRuns)
  /\ \A s \in Subscribers :
       WF_controlVars(HandlerAnnounces(s)) /\ WF_controlVars(HandlerEnds(s))
  /\ WF_controlVars(BeginShutdown)
  /\ WF_controlVars(ShutdownReturns \/ ShutdownTimesOut)

-----------------------------------------------------------------------------
(* Properties                                                              *)

\* A valid edit that is left alone reaches every client that stays connected
\* and reads: through the watcher, the signature, the store's coalescing
\* channels and the handler, whatever was rejected before, and also when it
\* falls between an observation and the read, or between the load at startup
\* and the first observation.
PolicyReachesClients ==
  \A c \in Valid, s \in Subscribers :
    <>[](content = c /\ ~signFailed /\ main = "serving" /\ s \in open \ stalled)
      => <>[](published = c /\ received[s] = current)

\* After a signal the process ends: event streams, which never end by
\* themselves, do not keep Shutdown waiting, and one blocked by its client
\* only until the timer fires.
ServeEnds == cancelled /\ main = "serving" ~> main = "returned"

=============================================================================
