--------------------------- MODULE EdgeRequestPath ---------------------------
(***************************************************************************)
(* The gateway and the circuit breaker together, as #handleAdmitted in     *)
(* edge/src/gateway.ts connects them: a request is forwarded exactly when  *)
(* acquire() grants it a permit, and every way out of the fetch uses that  *)
(* permit.                                                                 *)
(***************************************************************************)
EXTENDS CircuitBreaker

CONSTANTS
  MaxInFlight, MaxBody, ChunkSizes, Versions, Unbuildable, NoVersion

VARIABLES
  snapshot, activeVersion, engine,
  pc, active, accepting, waiter, buffered, released, audits, decidedBy, decidedFor

G == INSTANCE Gateway

gatewayVars ==
  <<snapshot, activeVersion, engine,
    pc, active, accepting, waiter, buffered, released, audits, decidedBy, decidedFor>>
breakerVars == vars
pathVars == <<gatewayVars, breakerVars>>

PathInit == G!Init /\ Init

-----------------------------------------------------------------------------
\* acquire() for the route's upstream grants a permit.
Forward(r) ==
  /\ G!Forward(r)
  /\ \E k \in Upstreams : AcquireOrdinary(r, k) \/ AcquireProbe(r, k)

\* acquire() rejects: 503 upstream_circuit_open.
RejectByCircuit(r) ==
  /\ G!RejectByCircuit(r)
  /\ \E k \in Upstreams : AcquireRejected(r, k) \/ AcquireRejectedFull(r, k)

\* The upstream answered: a status of 500 and above counts as a failure.
UpstreamResponds(r) ==
  /\ G!UpstreamResponds(r)
  /\ RecordSuccess(r) \/ RecordFailure(r)

\* The fetch failed or its deadline expired.
UpstreamFails(r) ==
  /\ G!UpstreamFails(r)
  /\ RecordFailure(r)

\* Mutant: the abort path returns without using the permit.
ClientAbortsWithPermit(r) ==
  /\ G!ClientAborts(r)
  /\ UNCHANGED breakerVars

\* The client went away: neutral for the circuit.
ClientAborts(r) ==
  /\ G!ClientAborts(r)
  /\ Abandon(r)

\* The steps of a request that do not involve the breaker.
Elsewhere(r) ==
  /\ \/ G!Admit(r) \/ G!Refuse(r)
     \/ \E size \in ChunkSizes : G!ReadChunk(r, size) \/ G!BodyTooLarge(r, size)
     \/ G!BodyDiscarded(r) \/ G!RefuseBody(r)
     \/ G!BeginEvaluation(r) \/ G!EvaluationUnavailable(r) \/ G!Deny(r)
     \/ G!StreamEnds(r) \/ G!ClientCancels(r) \/ G!CancelSettles(r)
  /\ UNCHANGED breakerVars

\* A finished request's place is taken by the next one, so that a few of them
\* keep the breaker busy for as long as the clock runs.
Recycle(r) ==
  /\ pc[r] \in {"done", "aborted", "refused"}
  /\ pc' = [pc EXCEPT ![r] = "new"]
  /\ released' = [released EXCEPT ![r] = FALSE]
  /\ audits' = [audits EXCEPT ![r] = 0]
  /\ decidedBy' = [decidedBy EXCEPT ![r] = NoVersion]
  /\ decidedFor' = [decidedFor EXCEPT ![r] = NoVersion]
  /\ UNCHANGED <<active, accepting, waiter, buffered, snapshot, activeVersion, engine, breakerVars>>

Settle(r) == UpstreamResponds(r) \/ UpstreamFails(r) \/ ClientAborts(r)

PathNext ==
  \/ \E r \in Requests :
       \/ Forward(r) \/ RejectByCircuit(r)
       \/ UpstreamResponds(r) \/ UpstreamFails(r) \/ ClientAborts(r)
       \/ Elsewhere(r) \/ Recycle(r)
  \/ \E v \in Versions : G!InstallSnapshot(v) /\ UNCHANGED breakerVars
  \/ G!BeginDrain /\ UNCHANGED breakerVars
  \/ Tick /\ UNCHANGED gatewayVars

PathSpec == PathInit /\ [][PathNext]_pathVars

\* The upstream deadline settles every fetch.
FairSpec == PathSpec /\ \A r \in Requests : WF_pathVars(Settle(r))

-----------------------------------------------------------------------------
(* Properties                                                              *)

\* A permit is outstanding exactly while its request is at the upstream: no
\* path out of the fetch leaves a permit unused, which for a probe would leave
\* the circuit half open, rejecting everybody, for good.
PermitsMatchFetches ==
  \A r \in Requests : Held(r) <=> pc[r] = "upstream"

=============================================================================
