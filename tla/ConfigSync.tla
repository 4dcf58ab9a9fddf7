----------------------------- MODULE ConfigSync -----------------------------
(***************************************************************************)
(* How a policy published by the control plane reaches an edge: the        *)
(* configuration client (edge/src/config-client.ts), which verifies and    *)
(* installs one bundle at a time, the synchronizer that drives it from an  *)
(* event stream and from a timer (edge/src/config-sync.ts), and the two    *)
(* endpoints they talk to (bundle and events in                            *)
(* internal/server/handler.go).                                            *)
(*                                                                         *)
(* Each action of the edge is the code between two awaits.  The network    *)
(* may fail any request and break the stream at any time, a part of an     *)
(* answer may come from another one, and requests to /v1/bundle overlap    *)
(* with publications in any order.  That the store pushes the latest       *)
(* version into the one-place channel of a subscriber is one step here;    *)
(* BundleStore has the details.                                            *)
(*                                                                         *)
(* stop() may be called at any time, also while start() still awaits its   *)
(* refresh.  start() is called once, as edge/src/index.ts does; that a     *)
(* stopped synchronizer could be started again is left out.                *)
(***************************************************************************)
EXTENDS Naturals, Sequences, BundleVerification

CONSTANTS
  Releases,         \* what may be published: a policy and the key it is signed with
  NoVersion,        \* no entity tag, an empty channel
  NoSnapshot,       \* nothing installed yet
  NoTask,           \* not waiting for a refresh
  MaxPublications   \* bound on the number of publications

ASSUME ReleasesAssumption == Releases \subseteq Policies \X Keys
ASSUME PublicationsAssumption == MaxPublications \in Nat \ {0}

\* Who calls refresh(): start() itself, the stream loop, the polling loop.
Tasks == {"start", "stream", "poll"}

ASSUME NoTaskAssumption == NoTask \notin Tasks

VARIABLES
  published,  \* the releases published so far; the last one is current
  channel,    \* the one-place channel of the edge's subscription
  connected,  \* the control plane serves the edge's event stream
  wire,       \* announcements sent and not yet read
  snapshot,   \* ConfigurationClient.#snapshot
  op,         \* the refresh each task has started, if it is in flight
  joined,     \* the task whose refresh each task awaits
  stream,     \* #runStreamLoop
  poll,       \* #runPollingLoop
  run,        \* #controller: start(), stop() and the time between
  asOf        \* history: the publication the snapshot was last confirmed to be

serverVars == <<published, channel, connected, wire>>
clientVars == <<snapshot, op, joined, asOf>>
vars == <<serverVars, clientVars, stream, poll, run>>

Versions == {VersionOf(p) : p \in Policies}
Answer(release) == AnswerFor(release[1], release[2])

\* An answer with a part of another one, its entity tag adjusted or not.
Mixed(answer) ==
  (UNION {{[answer EXCEPT !.etag = other.etag],
           [answer EXCEPT !.envelope.keyId = other.envelope.keyId],
           [answer EXCEPT !.envelope.bundle = other.envelope.bundle],
           [answer EXCEPT !.envelope.bundle = other.envelope.bundle, !.etag = other.etag],
           [answer EXCEPT !.envelope.bundle.policy = other.envelope.bundle.policy],
           [answer EXCEPT !.envelope.signature = other.envelope.signature]} :
          other \in {Answer(release) : release \in Releases}}) \ {answer}

NoOp == [phase |-> "none"]
Requested ==
  [phase : {"requested"}, etag : {Quoted(v) : v \in Versions} \cup {NoVersion}]
Unmodified == [phase : {"unmodified"}, number : 1 .. MaxPublications]
Answered ==
  [phase : {"answered"}, number : 1 .. MaxPublications,
   answer : UNION {{Answer(release)} \cup Mixed(Answer(release)) : release \in Releases}]
Snapshots == {[policy |-> p, etag |-> Quoted(VersionOf(q))] : p, q \in Policies}

TypeOK ==
  /\ published \in Seq(Releases) /\ Len(published) \in 1 .. MaxPublications
  /\ channel \in Versions \cup {NoVersion}
  /\ connected \in BOOLEAN
  /\ wire \in Seq(Versions)
  /\ snapshot \in Snapshots \cup {NoSnapshot}
  /\ op \in [Tasks -> {NoOp} \cup Requested \cup Unmodified \cup Answered]
  /\ joined \in [Tasks -> Tasks \cup {NoTask}]
  /\ stream \in {"off", "connecting", "reading", "refreshing", "delay"}
  /\ poll \in {"off", "delay", "refreshing"}
  /\ run \in {"starting", "running", "stopping", "stopped", "failed"}
  /\ asOf \in 0 .. MaxPublications

\* The process boots: start() has called refresh() for the first time.  The
\* control plane publishes its policy before it listens.
Init ==
  /\ \E release \in Releases : published = <<release>>
  /\ channel = NoVersion
  /\ connected = FALSE
  /\ wire = <<>>
  /\ snapshot = NoSnapshot
  /\ op = [t \in Tasks |->
             IF t = "start" THEN [phase |-> "requested", etag |-> NoVersion] ELSE NoOp]
  /\ joined = [t \in Tasks |-> IF t = "start" THEN "start" ELSE NoTask]
  /\ stream = "off"
  /\ poll = "off"
  /\ run = "starting"
  /\ asOf = 0

-----------------------------------------------------------------------------
(* The control plane                                                       *)

Current == published[Len(published)]
CurrentVersion == VersionOf(Current[1])

\* Another policy is published (a rollback to an earlier one included), or the
\* same one under another key, and announced to the subscriber.
Publish(release) ==
  /\ Len(published) < MaxPublications
  /\ release # Current
  /\ published' = Append(published, release)
  /\ channel' = IF connected THEN VersionOf(release[1]) ELSE channel
  /\ UNCHANGED <<connected, wire, clientVars, stream, poll, run>>

\* The event handler takes the version from its channel and writes it.
Announce ==
  /\ connected
  /\ channel # NoVersion
  /\ wire' = Append(wire, channel)
  /\ channel' = NoVersion
  /\ UNCHANGED <<published, connected, clientVars, stream, poll, run>>

TagMatches(etag) == etag = Quoted(CurrentVersion)

Receives(t, answer) ==
  op' = [op EXCEPT ![t] =
           [phase |-> "answered", number |-> Len(published), answer |-> answer]]

\* GET /v1/bundle: 304 if the client's tag is the current one, else 200.
Serve(t) ==
  /\ op[t].phase = "requested"
  /\ IF TagMatches(op[t].etag)
     THEN op' = [op EXCEPT ![t] = [phase |-> "unmodified", number |-> Len(published)]]
     ELSE Receives(t, Answer(Current))
  /\ UNCHANGED <<serverVars, snapshot, joined, asOf, stream, poll, run>>

\* The answer arrives with a part of another one.
ServeMixed(t) ==
  /\ op[t].phase = "requested"
  /\ ~TagMatches(op[t].etag)
  /\ \E answer \in Mixed(Answer(Current)) : Receives(t, answer)
  /\ UNCHANGED <<serverVars, snapshot, joined, asOf, stream, poll, run>>

\* The connection of the event stream breaks; what was sent may be lost.
Disconnect ==
  /\ connected
  /\ connected' = FALSE
  /\ channel' = NoVersion
  /\ wire' \in {wire, <<>>}
  /\ UNCHANGED <<published, clientVars, stream, poll, run>>

-----------------------------------------------------------------------------
(* The configuration client                                                *)

\* Mutant: refresh() does not look for a refresh in flight.
NobodyInFlight == {}

InFlight == {t \in Tasks : op[t].phase # "none"}

\* If-None-Match
SnapshotTag == IF snapshot = NoSnapshot THEN NoVersion ELSE snapshot.etag

\* refresh(): join the refresh in flight, or start one.
Refresh(t) ==
  IF InFlight # {}
  THEN /\ \E owner \in InFlight : joined' = [joined EXCEPT ![t] = owner]
       /\ UNCHANGED op
  ELSE /\ joined' = [joined EXCEPT ![t] = t]
       /\ op' = [op EXCEPT ![t] = [phase |-> "requested", etag |-> SnapshotTag]]

\* Everybody who holds the promise of t's refresh.
Waiters(t) == {w \in Tasks : joined[w] = t}

\* The refresh of t is over and its promise settled.  All who await it go on
\* before anything else happens: start() starts the loops or throws, the loops
\* report an error and go on.  After stop() the loops end, and start() returns
\* or throws without having started them.
Settle(t, succeeded) ==
  /\ op' = [op EXCEPT ![t] = NoOp]
  /\ joined' = [w \in Tasks |-> IF w \in Waiters(t) THEN NoTask ELSE joined[w]]
  /\ IF "start" \in Waiters(t) /\ run = "starting"
     THEN /\ run' = IF succeeded THEN "running" ELSE "failed"
          /\ stream' = IF succeeded THEN "connecting" ELSE "off"
          /\ poll' = IF succeeded THEN "delay" ELSE "off"
     ELSE /\ stream' = IF "stream" \notin Waiters(t) THEN stream
                       ELSE IF run = "stopping" THEN "off" ELSE "reading"
          /\ poll' = IF "poll" \notin Waiters(t) THEN poll
                     ELSE IF run = "stopping" THEN "off" ELSE "delay"
          /\ UNCHANGED run
  /\ UNCHANGED serverVars

\* 304: the snapshot in hand is still current.
NotModified(t) ==
  /\ op[t].phase = "unmodified"
  /\ snapshot # NoSnapshot
  /\ asOf' = op[t].number
  /\ UNCHANGED snapshot
  /\ Settle(t, TRUE)

\* 200 with a bundle that verifies: one assignment makes it visible.
Install(t) ==
  /\ op[t].phase = "answered"
  /\ Accepts(op[t].answer)
  /\ snapshot' = [policy |-> op[t].answer.envelope.bundle.policy, etag |-> op[t].answer.etag]
  /\ asOf' = op[t].number
  /\ Settle(t, TRUE)

\* Anything else throws: the fetch fails or is aborted, the status, the content
\* type, the JSON, the signature or the tag is wrong.  The last good snapshot
\* stays.
RefreshFails(t) ==
  /\ op[t].phase # "none"
  /\ Settle(t, FALSE)
  /\ UNCHANGED <<snapshot, asOf>>

-----------------------------------------------------------------------------
(* The synchronizer                                                        *)

ConnectStream ==
  /\ run = "running"
  /\ stream = "connecting"
  /\ stream' = "reading"
  /\ connected' = TRUE
  /\ channel' = CurrentVersion
  /\ wire' = <<>>
  /\ UNCHANGED <<published, clientVars, poll, run>>

ConnectFails ==
  /\ run = "running"
  /\ stream = "connecting"
  /\ stream' = "delay"
  /\ UNCHANGED <<serverVars, clientVars, poll, run>>

\* An event is processed: a version that is not the one in hand is fetched.
ReadEvent ==
  /\ run = "running"
  /\ stream = "reading"
  /\ wire # <<>>
  /\ wire' = Tail(wire)
  /\ IF SnapshotTag = Quoted(Head(wire)) THEN UNCHANGED <<stream, op, joined>>
     ELSE stream' = "refreshing" /\ Refresh("stream")
  /\ UNCHANGED <<published, channel, connected, snapshot, asOf, poll, run>>

\* The stream has ended or failed: reconnect after a delay.
StreamEnds ==
  /\ run = "running"
  /\ stream = "reading"
  /\ ~connected
  /\ wire = <<>>
  /\ stream' = "delay"
  /\ UNCHANGED <<serverVars, clientVars, poll, run>>

ReconnectDue ==
  /\ run = "running"
  /\ stream = "delay"
  /\ stream' = "connecting"
  /\ UNCHANGED <<serverVars, clientVars, poll, run>>

\* Mutant: polling is left to the stream while it is connected.
PollWhenDisconnected ==
  /\ run = "running"
  /\ poll = "delay"
  /\ stream # "reading"
  /\ poll' = "refreshing"
  /\ Refresh("poll")
  /\ UNCHANGED <<serverVars, snapshot, asOf, stream, run>>

PollDue ==
  /\ run = "running"
  /\ poll = "delay"
  /\ poll' = "refreshing"
  /\ Refresh("poll")
  /\ UNCHANGED <<serverVars, snapshot, asOf, stream, run>>

\* stop() aborts the signal that every wait of the loops listens to, and that
\* start() listens to as long as it has not returned.
Stop ==
  /\ run \in {"starting", "running"}
  /\ run' = "stopping"
  /\ UNCHANGED <<serverVars, clientVars, stream, poll>>

\* Mutant: the delays do not listen to the signal.
StreamUnwindsFromFetch ==
  /\ run = "stopping"
  /\ stream \in {"connecting", "reading"}
  /\ stream' = "off"
  /\ UNCHANGED <<serverVars, clientVars, poll, run>>

\* A fetch, a read or a delay of the stream loop ends by the abort.
StreamUnwinds ==
  /\ run = "stopping"
  /\ stream \in {"connecting", "reading", "delay"}
  /\ stream' = "off"
  /\ UNCHANGED <<serverVars, clientVars, poll, run>>

PollUnwinds ==
  /\ run = "stopping"
  /\ poll = "delay"
  /\ poll' = "off"
  /\ UNCHANGED <<serverVars, clientVars, stream, run>>

\* Mutant: stop() awaits the stream loop only.
StreamSettled == stream = "off"

\* Promise.allSettled over both loops; before start() has returned there are
\* none, and its refresh is not among them.
TasksSettled == stream = "off" /\ poll = "off"

StopReturns ==
  /\ run = "stopping"
  /\ TasksSettled
  /\ run' = "stopped"
  /\ UNCHANGED <<serverVars, clientVars, stream, poll>>

-----------------------------------------------------------------------------
RefreshSucceeds == \E t \in Tasks : NotModified(t) \/ Install(t)

Next ==
  \/ \E release \in Releases : Publish(release)
  \/ Announce \/ Disconnect
  \/ \E t \in Tasks : Serve(t) \/ ServeMixed(t) \/ NotModified(t) \/ Install(t) \/ RefreshFails(t)
  \/ ConnectStream \/ ConnectFails \/ ReadEvent \/ StreamEnds \/ ReconnectDue
  \/ PollDue
  \/ Stop \/ StreamUnwinds \/ PollUnwinds \/ StopReturns

Spec == Init /\ [][Next]_vars

\* Timers fire, and an abort reaches whatever waits for it; a request that is
\* neither answered nor aborted is not assumed to end.
LocalFairness ==
  /\ WF_vars(PollDue)
  /\ WF_vars(StreamUnwinds) /\ WF_vars(PollUnwinds) /\ WF_vars(StopReturns)
  /\ \A t \in Tasks : WF_vars(run \in {"stopping", "stopped"} /\ RefreshFails(t))

\* An answered request ends, one way or the other, and the control plane is
\* reachable now and then: not every request fails, not every answer is mixed up.
NetworkFairness ==
  /\ \A t \in Tasks :
       WF_vars(op[t].phase \in {"unmodified", "answered"} /\ (NotModified(t) \/ Install(t) \/ RefreshFails(t)))
  /\ SF_vars(\E t \in Tasks : Serve(t))
  /\ SF_vars(RefreshSucceeds)

FairSpec == Spec /\ LocalFairness

-----------------------------------------------------------------------------
(* Properties                                                              *)

\* The policy in force and its entity tag are those of the release that was
\* current at the control plane when it last answered, and the edge can read
\* it: whatever failed or was mixed up on the way and whoever shared the
\* refresh, nothing unverified is installed, and a 304 is never taken for an
\* answer about another snapshot than the one in hand.
SnapshotIsGenuine ==
  snapshot # NoSnapshot =>
    /\ asOf # 0
    /\ snapshot.policy = published[asOf][1]
    /\ snapshot.etag = Quoted(VersionOf(snapshot.policy))
    /\ snapshot.policy \notin Unreadable
    /\ \E i \in 1 .. asOf :
         published[i][1] = snapshot.policy /\ published[i][2] \in TrustedKeys

\* Refreshes overlap with publications but never with each other, so that no
\* late answer puts an older policy back.
NeverOlder == [][asOf' >= asOf]_vars

\* When stop() has returned, no loop of the synchronizer is left running, and
\* none awaits a refresh.  The one request that may still be in flight, and may
\* replace the snapshot, is that of a start() which stop() interrupted: stop()
\* does not wait for it.
StoppedIsQuiet ==
  run = "stopped" =>
    /\ stream = "off" /\ poll = "off"
    /\ joined["stream"] = NoTask /\ joined["poll"] = NoTask
    /\ InFlight # {} => InFlight = {"start"} /\ joined["start"] = "start"

\* Given a control plane that answers now and then, the edge ends up with the
\* current policy, for good, once publications cease: a lost, coalesced or
\* overtaken announcement is made up for by the polling loop, which no error
\* ends.
Converges ==
  NetworkFairness =>
    (<>[](run = "running" /\ Accepts(Answer(Current))) => <>[](SnapshotTag = Quoted(CurrentVersion)))

\* stop() returns even if the control plane never answers again, and the abort
\* ends every refresh, also that of a start() which stop() does not wait for.
StopEnds == run = "stopping" ~> (run = "stopped" /\ InFlight = {})

=============================================================================
