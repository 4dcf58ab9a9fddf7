--------------------------- MODULE PolicyWatcher ---------------------------
(***************************************************************************)
(* The control plane's policy watcher (watchPolicy in                      *)
(* cmd/shieldwardd/reload.go) with the load it repeats                     *)
(* (loadSignedEnvelope in cmd/shieldwardd/serve.go): the policy file is    *)
(* observed on every tick of a timer and, if it looks different, read,     *)
(* compiled, signed and published.  Operators edit the file at any time,   *)
(* in particular between an observation and the read it leads to, and may  *)
(* leave it broken, half written or missing for a while.                   *)
(*                                                                         *)
(* A policy stands for its version.  Every edit changes the size or the    *)
(* modification time, so that the observation of an existing file is the   *)
(* number of the edit; 0 observes that there is no file.                   *)
(***************************************************************************)
EXTENDS Naturals

CONSTANTS
  Contents,    \* what the policy file may hold
  Valid,       \* those that load and compile
  Missing,     \* there is no file, or not a regular one
  NoPolicy,    \* nothing has been read
  KeyMayFail,  \* whether the private key file may be unreadable at times
  MaxEdits     \* bound on the number of edits

VARIABLES
  content,          \* what the policy file holds
  edits,            \* how often it has been edited
  published,        \* the version in the store
  step,             \* where the watcher is
  lastObservation,  \* of watchPolicy
  firstCheck,       \* of watchPolicy
  loaded,           \* the policy loadSignedEnvelope has read
  signFailed        \* history: the file seen last could not be signed

fileVars == <<content, edits>>
watchVars == <<step, lastObservation, firstCheck, loaded>>
vars == <<fileVars, watchVars, published, signFailed>>

TypeOK ==
  /\ content \in Contents \cup {Missing}
  /\ edits \in 1 .. MaxEdits + 1
  /\ published \in Valid
  /\ step \in {"starting", "waiting", "reading", "signing", "stopped"}
  /\ lastObservation \in 0 .. MaxEdits + 1
  /\ firstCheck \in BOOLEAN
  /\ loaded \in Contents \cup {NoPolicy}
  /\ signFailed \in BOOLEAN

\* serve has loaded, signed and published the file and is about to start the
\* watcher.
Init ==
  /\ content \in Valid
  /\ edits = 1
  /\ published = content
  /\ step = "starting"
  /\ lastObservation = 0
  /\ firstCheck = TRUE
  /\ loaded = NoPolicy
  /\ signFailed = FALSE

-----------------------------------------------------------------------------
(* The operator                                                            *)

Edit(c) ==
  /\ edits <= MaxEdits
  /\ c # content
  /\ content' = c
  /\ edits' = edits + 1
  /\ UNCHANGED <<watchVars, published, signFailed>>

-----------------------------------------------------------------------------
(* The watcher                                                             *)

\* observePolicyFile
Observation == IF content = Missing THEN 0 ELSE edits

StartWatch ==
  /\ step = "starting"
  /\ lastObservation' = Observation
  /\ step' = "waiting"
  /\ UNCHANGED <<fileVars, firstCheck, loaded, published, signFailed>>

\* Mutant: the first tick is like any other.
MustReloadIfChanged == Observation # lastObservation

MustReload == firstCheck \/ Observation # lastObservation

\* A tick that finds something new (any other changes nothing) finds no file, ...
ObserveMissing ==
  /\ step = "waiting"
  /\ MustReload
  /\ content = Missing
  /\ lastObservation' = Observation
  /\ firstCheck' = FALSE
  /\ signFailed' = FALSE
  /\ UNCHANGED <<fileVars, step, loaded, published>>

\* ... or a file to load.
Observe ==
  /\ step = "waiting"
  /\ MustReload
  /\ content # Missing
  /\ lastObservation' = Observation
  /\ firstCheck' = FALSE
  /\ step' = "reading"
  /\ signFailed' = FALSE
  /\ UNCHANGED <<fileVars, loaded, published>>

\* policy.LoadFile and compiler.Compile accept the file as it is now.
Loads(c) == c \in Valid

ReadPolicy ==
  /\ step = "reading"
  /\ Loads(content)
  /\ loaded' = content
  /\ step' = "signing"
  /\ UNCHANGED <<fileVars, lastObservation, firstCheck, published, signFailed>>

\* The file does not load or compile: rejected, and the store is left alone.
ReadRejected ==
  /\ step = "reading"
  /\ ~Loads(content)
  /\ step' = "waiting"
  /\ UNCHANGED <<fileVars, lastObservation, firstCheck, loaded, published, signFailed>>

\* The key cannot be loaded: rejected, and not tried again until the policy
\* file changes.
SignFails ==
  /\ step = "signing"
  /\ KeyMayFail
  /\ step' = "waiting"
  /\ loaded' = NoPolicy
  /\ signFailed' = TRUE
  /\ UNCHANGED <<fileVars, lastObservation, firstCheck, published>>

\* The version is the one in the store: nothing is published or recorded.
AlreadyPublished ==
  /\ step = "signing"
  /\ loaded = published
  /\ step' = "waiting"
  /\ loaded' = NoPolicy
  /\ UNCHANGED <<fileVars, lastObservation, firstCheck, published, signFailed>>

Publish ==
  /\ step = "signing"
  /\ loaded # published
  /\ published' = loaded
  /\ step' = "waiting"
  /\ loaded' = NoPolicy
  /\ UNCHANGED <<fileVars, lastObservation, firstCheck, signFailed>>

\* The context is done, which the select notices between two ticks.
StopWatch ==
  /\ step = "waiting"
  /\ step' = "stopped"
  /\ UNCHANGED <<fileVars, lastObservation, firstCheck, loaded, published, signFailed>>

\* A tick that leads to no publication.
WatcherRuns ==
  \/ StartWatch \/ ObserveMissing \/ Observe
  \/ ReadPolicy \/ ReadRejected \/ SignFails \/ AlreadyPublished

OperatorEdits == \E c \in Contents \cup {Missing} : Edit(c)

Next == OperatorEdits \/ WatcherRuns \/ Publish \/ StopWatch

Spec == Init /\ [][Next]_vars

=============================================================================
