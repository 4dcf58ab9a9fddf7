--------------------------- MODULE CircuitBreaker ---------------------------
(***************************************************************************)
(* The upstream circuit breaker of the edge proxy                          *)
(* (edge/src/circuit-breaker.ts), driven by the requests the gateway sends *)
(* upstream, together with the gauge its transition observer maintains     *)
(* (edge/src/metrics.ts).                                                  *)
(*                                                                         *)
(* The map #circuits is a total function on Upstreams; an upstream without *)
(* an entry has state "absent".  A permit handed out by acquire() is held  *)
(* by the request that asked for it until one of its three callbacks runs; *)
(* the `completed` flag makes every later call a no-op, so a permit is     *)
(* gone once it is used.                                                   *)
(***************************************************************************)
EXTENDS Integers, FiniteSets

CONSTANTS
  Upstreams,         \* upstream origins: scheme, host and port
  Requests,          \* requests the gateway has in flight
  FailureThreshold,  \* SHIELDWARD_CIRCUIT_FAILURE_THRESHOLD
  OpenDuration,      \* SHIELDWARD_CIRCUIT_OPEN_MS
  MaximumUpstreams,  \* SHIELDWARD_CIRCUIT_MAX_UPSTREAMS
  UpstreamTimeout,   \* SHIELDWARD_UPSTREAM_TIMEOUT_MS
  NoPermit,          \* a request that holds no permit
  MaxTime            \* bound on the clock

ASSUME UpstreamsAssumption == IsFiniteSet(Upstreams)

ASSUME LimitsAssumption ==
  /\ FailureThreshold \in Nat \ {0}
  /\ OpenDuration \in Nat \ {0}
  /\ MaximumUpstreams \in Nat \ {0}
  /\ UpstreamTimeout \in Nat \ {0}
  /\ MaxTime \in Nat

VARIABLES
  now,          \* the clock #nowMilliseconds reads
  circuits,     \* #circuits
  permits,      \* the unfinished permit of each request
  unavailable,  \* the gauge #unavailableUpstreamCircuits
  streak        \* history: failures recorded since the last recorded success

vars == <<now, circuits, permits, unavailable, streak>>

States == {"absent", "closed", "open", "half_open"}

Circuit ==
  [state : States, consecutiveFailures : Nat, openedUntil : Nat, lastTouched : Nat]

Absent ==
  [state |-> "absent", consecutiveFailures |-> 0, openedUntil |-> 0, lastTouched |-> 0]

Permit == [upstream : Upstreams, probe : BOOLEAN, deadline : Nat]

ASSUME NoPermitAssumption == NoPermit \notin Permit

Held(r) == permits[r] # NoPermit

HeldOn(r, k) == Held(r) /\ permits[r].upstream = k

Retained(C) == {k \in Upstreams : C[k].state # "absent"}

Unavailable(C) == {k \in Upstreams : C[k].state \in {"open", "half_open"}}

TypeOK ==
  /\ now \in Nat
  /\ circuits \in [Upstreams -> Circuit]
  /\ permits \in [Requests -> Permit \cup {NoPermit}]
  /\ unavailable \in Nat
  /\ streak \in [Upstreams -> 0 .. FailureThreshold]

Init ==
  /\ now = 0
  /\ circuits = [k \in Upstreams |-> Absent]
  /\ permits = [r \in Requests |-> NoPermit]
  /\ unavailable = 0
  /\ streak = [k \in Upstreams |-> 0]

-----------------------------------------------------------------------------
(* The map's helpers.                                                      *)

\* Mutant: eviction that does not look at the state.
EvictableAny(C) == {j \in Upstreams : C[j].state # "absent"}

\* #evictClosedCircuit: only a closed circuit is a candidate, and the one
\* touched least recently goes.  Equal times are broken by insertion order in
\* the code, by an arbitrary choice here.
Evictable(C) ==
  {j \in Upstreams :
     /\ C[j].state = "closed"
     /\ \A i \in Upstreams :
          C[i].state = "closed" => C[j].lastTouched <= C[i].lastTouched}

Fresh ==
  [state |-> "closed", consecutiveFailures |-> 0, openedUntil |-> 0, lastTouched |-> now]

\* Mutant: eviction starts one entry late.
FindOrCreateOneMore(k) ==
  IF circuits[k].state # "absent" THEN {circuits}
  ELSE IF Cardinality(Retained(circuits)) <= MaximumUpstreams
  THEN {[circuits EXCEPT ![k] = Fresh]}
  ELSE {[circuits EXCEPT ![j] = Absent, ![k] = Fresh] : j \in Evictable(circuits)}

\* #findOrCreate: the maps it may leave behind.  No map at all stands for
\* `undefined`: the map is full and nothing in it may be evicted.
FindOrCreate(k) ==
  IF circuits[k].state # "absent" THEN {circuits}
  ELSE IF Cardinality(Retained(circuits)) < MaximumUpstreams
  THEN {[circuits EXCEPT ![k] = Fresh]}
  ELSE {[circuits EXCEPT ![j] = Absent, ![k] = Fresh] : j \in Evictable(circuits)}

\* Mutant: the observer only counts a recovery that starts from "open".
TransitionFromOpen(previous, next) ==
  unavailable' =
    IF previous = "closed" /\ next # "closed" THEN unavailable + 1
    ELSE IF previous = "open" /\ next = "closed" /\ unavailable > 0 THEN unavailable - 1
    ELSE unavailable

\* #transition together with the observer the gateway installs: the gauge
\* counts the circuits that left "closed" and have not come back to it.
Transition(previous, next) ==
  unavailable' =
    IF previous = "closed" /\ next # "closed" THEN unavailable + 1
    ELSE IF previous # "closed" /\ next = "closed" /\ unavailable > 0 THEN unavailable - 1
    ELSE unavailable

Grant(r, k, halfOpenProbe) ==
  permits' = [permits EXCEPT ![r] =
    [upstream |-> k, probe |-> halfOpenProbe, deadline |-> now + UpstreamTimeout]]

Finish(r) == permits' = [permits EXCEPT ![r] = NoPermit]

-----------------------------------------------------------------------------
(* acquire()                                                               *)

\* A closed circuit, found or created, admits the request.
AcquireOrdinary(r, k) ==
  /\ ~Held(r)
  /\ \E C \in FindOrCreate(k) :
       /\ C[k].state = "closed"
       /\ circuits' = [C EXCEPT ![k].lastTouched = now]
  /\ Grant(r, k, FALSE)
  /\ UNCHANGED <<now, unavailable, streak>>

\* An open circuit whose period is over becomes half open and admits a probe.
AcquireProbe(r, k) ==
  /\ ~Held(r)
  /\ circuits[k].state = "open"
  /\ now >= circuits[k].openedUntil
  /\ circuits' = [circuits EXCEPT ![k].state = "half_open", ![k].lastTouched = now]
  /\ Transition("open", "half_open")
  /\ Grant(r, k, TRUE)
  /\ UNCHANGED <<now, streak>>

\* An open circuit in its period, or a half open one, rejects.
AcquireRejected(r, k) ==
  /\ ~Held(r)
  /\ \/ circuits[k].state = "open" /\ now < circuits[k].openedUntil
     \/ circuits[k].state = "half_open"
  /\ circuits' = [circuits EXCEPT ![k].lastTouched = now]
  /\ UNCHANGED <<now, permits, unavailable, streak>>

\* The map is full of unavailable circuits: an unknown upstream is rejected.
AcquireRejectedFull(r, k) ==
  /\ ~Held(r)
  /\ FindOrCreate(k) = {}
  /\ UNCHANGED vars

-----------------------------------------------------------------------------
(* The three callbacks of a permit                                         *)

RecordSuccess(r) ==
  LET k == permits[r].upstream IN
  /\ Held(r)
  /\ circuits' = [circuits EXCEPT ![k] = Absent]
  /\ IF circuits[k].state = "absent" THEN UNCHANGED unavailable
     ELSE Transition(circuits[k].state, "closed")
  /\ streak' = [streak EXCEPT ![k] = 0]
  /\ Finish(r)
  /\ UNCHANGED now

\* Mutant: the period starts already expired.
ReopenAtOnce == now

\* The instant until which a circuit opened now rejects.
OpenUntil == now + OpenDuration

\* Mutant: one failure too few.
ThresholdOffByOne(c) == c.consecutiveFailures + 2 >= FailureThreshold

\* This failure is the one that opens a closed circuit.
ThresholdReached(c) == c.consecutiveFailures + 1 >= FailureThreshold

\* The entry recordFailure leaves behind when it found or created c.
Failed(c) ==
  CASE c.state = "half_open" ->
         [c EXCEPT !.state = "open", !.openedUntil = OpenUntil, !.lastTouched = now]
    [] c.state = "open" ->
         [c EXCEPT !.openedUntil = IF @ >= OpenUntil THEN @ ELSE OpenUntil,
                   !.lastTouched = now]
    [] c.state = "closed" /\ ThresholdReached(c) ->
         [state |-> "open", consecutiveFailures |-> c.consecutiveFailures + 1,
          openedUntil |-> OpenUntil, lastTouched |-> now]
    [] OTHER ->
         [c EXCEPT !.consecutiveFailures = @ + 1, !.lastTouched = now]

RecordFailure(r) ==
  LET k == permits[r].upstream IN
  /\ Held(r)
  /\ \/ \E C \in FindOrCreate(k) :
          /\ circuits' = [C EXCEPT ![k] = Failed(C[k])]
          /\ Transition(C[k].state, Failed(C[k]).state)
     \/ /\ FindOrCreate(k) = {}
        /\ UNCHANGED <<circuits, unavailable>>
  /\ streak' = [streak EXCEPT ![k] = IF @ < FailureThreshold THEN @ + 1 ELSE @]
  /\ Finish(r)
  /\ UNCHANGED now

\* Mutant: an abandoned probe does not give its turn back.
AbandonedForgetsProbe(c, halfOpenProbe) ==
  IF c.state = "closed" /\ c.consecutiveFailures = 0 THEN Absent ELSE c

\* What abandon leaves behind: the client went away, which says nothing of
\* the upstream.  A probe gives its turn back by reopening the circuit with a
\* period that is already over.
Abandoned(c, halfOpenProbe) ==
  IF halfOpenProbe /\ c.state = "half_open"
  THEN [c EXCEPT !.state = "open", !.openedUntil = now]
  ELSE IF c.state = "closed" /\ c.consecutiveFailures = 0
  THEN Absent
  ELSE c

Abandon(r) ==
  LET k == permits[r].upstream IN
  /\ Held(r)
  /\ circuits' = [circuits EXCEPT ![k] = Abandoned(@, permits[r].probe)]
  /\ UNCHANGED <<now, unavailable, streak>>
  /\ Finish(r)

-----------------------------------------------------------------------------
\* The upstream deadline (AbortSignal.timeout in proxyToUpstream) ends every
\* fetch, and with it every permit, before the clock passes it.
Tick ==
  /\ now < MaxTime
  /\ \A r \in Requests : Held(r) => now < permits[r].deadline
  /\ now' = now + 1
  /\ UNCHANGED <<circuits, permits, unavailable, streak>>

Next ==
  \/ \E r \in Requests, k \in Upstreams :
       \/ AcquireOrdinary(r, k)
       \/ AcquireProbe(r, k)
       \/ AcquireRejected(r, k)
       \/ AcquireRejectedFull(r, k)
  \/ \E r \in Requests : RecordSuccess(r) \/ RecordFailure(r) \/ Abandon(r)
  \/ Tick

Spec == Init /\ [][Next]_vars

-----------------------------------------------------------------------------
(* Properties                                                              *)

\* A half open circuit rejects everybody, so it must never be left without an
\* outstanding probe: only the probe's own completion (or a late completion of
\* an older request) can move it on.  Failing, abandoned, late and overlapping
\* completions must all respect this, or the upstream is cut off for good.
HalfOpenHasProbe ==
  \A k \in Upstreams :
    circuits[k].state = "half_open" =>
      \E r \in Requests : HeldOn(r, k) /\ permits[r].probe

\* The gauge of unavailable upstreams, kept by increments and decrements in
\* the transition observer, equals the number of circuits that are not closed,
\* whatever deletions and evictions happened in between.
GaugeCountsUnavailable == unavailable = Cardinality(Unavailable(circuits))

\* The map never retains more than maximumUpstreams circuits, although both
\* acquire and a late recordFailure may insert.
RetainedWithinBound == Cardinality(Retained(circuits)) <= MaximumUpstreams

\* A circuit is unavailable only after failureThreshold failures of that very
\* upstream with no success in between: neither evictions nor other upstreams'
\* failures can open it.
OpensOnlyAfterFailures ==
  \A k \in Upstreams :
    circuits[k].state \in {"open", "half_open"} => streak[k] = FailureThreshold

\* The inductive form of OpensOnlyAfterFailures: a closed circuit has counted
\* no more failures than there were since the last success.
FailuresInv ==
  /\ OpensOnlyAfterFailures
  /\ \A k \in Upstreams :
       circuits[k].state = "closed" => circuits[k].consecutiveFailures <= streak[k]

\* An unavailable circuit becomes available only by a success of that
\* upstream: eviction under capacity pressure, abandonment and the passage of
\* time never forget it.
RecoversOnlyBySuccess ==
  [][\A k \in Upstreams :
       k \in Unavailable(circuits) /\ k \notin Unavailable(circuits)' => streak'[k] = 0]_vars

\* When the upstream deadline is shorter than the open period, a probe is
\* alone: while it is in flight its circuit is half open and no other request
\* is in flight to that upstream.  This is the documented promise that exactly
\* one request becomes the recovery probe and all others are rejected until it
\* is decided; it rests on requests admitted before the circuit opened being
\* gone when the probe starts.
ProbeIsAlone ==
  UpstreamTimeout < OpenDuration =>
    \A k \in Upstreams, r \in Requests :
      HeldOn(r, k) /\ permits[r].probe =>
        /\ circuits[k].state = "half_open"
        /\ \A s \in Requests : HeldOn(s, k) => s = r

\* The inductive form of ProbeIsAlone.  Every fetch in flight is within its
\* deadline, and an open circuit stays open beyond the deadline of every
\* request still in flight to it, so that when its period ends nobody is left.
TimingInv ==
  /\ \A r \in Requests :
       Held(r) => now <= permits[r].deadline /\ permits[r].deadline <= now + UpstreamTimeout
  /\ UpstreamTimeout < OpenDuration =>
       \A k \in Upstreams, r \in Requests :
         HeldOn(r, k) =>
           /\ circuits[k].state = "half_open" =>
                permits[r].probe /\ \A s \in Requests : HeldOn(s, k) => s = r
           /\ permits[r].probe => circuits[k].state = "half_open"
           /\ circuits[k].state = "open" => permits[r].deadline < circuits[k].openedUntil

\* docs/circuit-breaking-and-draining.md: "exactly one request becomes the
\* half-open recovery probe."  Stated without regard to the relation between
\* the two durations, as the document does.
ExactlyOneProbe ==
  \A r, s \in Requests :
    /\ Held(r) /\ Held(s)
    /\ permits[r].upstream = permits[s].upstream
    /\ permits[r].probe /\ permits[s].probe
    => r = s

\* A half open circuit is always decided: the probe's fetch settles and its
\* callback closes or reopens the circuit.
HalfOpenIsDecided ==
  \A k \in Upstreams :
    circuits[k].state = "half_open" ~> circuits[k].state # "half_open"

=============================================================================
