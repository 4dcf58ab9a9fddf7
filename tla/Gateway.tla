------------------------------ MODULE Gateway ------------------------------
(***************************************************************************)
(* A request's way through the edge gateway (edge/src/gateway.ts): the     *)
(* admission gate, reading the body, evaluating the policy, forwarding to  *)
(* the upstream, completing (audit and metrics) and streaming the response *)
(* back, which is what holds the admission slot.                           *)
(*                                                                         *)
(* Each action is the code between two awaits of handle() or one callback  *)
(* of the response stream.  The breaker appears here only as the decision  *)
(* to forward; EdgeRequestPath composes this module with CircuitBreaker.   *)
(***************************************************************************)
EXTENDS Naturals, FiniteSets, FiniteSetsExt, LivePolicy

CONSTANTS
  Requests,      \* requests that may arrive
  MaxInFlight,   \* SHIELDWARD_MAX_IN_FLIGHT_REQUESTS
  MaxBody,       \* SHIELDWARD_MAX_REQUEST_BODY_BYTES
  ChunkSizes     \* sizes of the chunks that a request body arrives in

ASSUME RequestsAssumption == IsFiniteSet(Requests)
ASSUME MaxInFlightAssumption == MaxInFlight \in Nat \ {0}
ASSUME BodyAssumption == MaxBody \in Nat \ {0} /\ ChunkSizes \subseteq Nat

VARIABLES
  pc,         \* where the handler of each request is
  active,     \* AdmissionGate.#active (and the gauge of active requests)
  accepting,  \* AdmissionGate.#accepting
  waiter,     \* the promise of the one caller of waitForIdle()
  buffered,   \* the bytes of each request's body that the handler holds
  released,   \* the `released` flag of each admitted request
  audits,     \* history: audit events recorded for each request
  decidedBy,  \* history: the engine that decided each request
  decidedFor  \* history: the snapshot current when its evaluation began

gateVars == <<active, accepting, waiter, released>>
historyVars == <<audits, decidedBy, decidedFor>>
gatewayVars == <<pc, buffered, gateVars, historyVars>>
vars == <<gatewayVars, policyVars>>

Phases ==
  {"new", "body", "discarding", "policy", "upstream", "stream", "cancelling", "done", "aborted",
   "refused"}

TypeOK ==
  /\ PolicyTypeOK
  /\ pc \in [Requests -> Phases]
  /\ active \in 0 .. MaxInFlight
  /\ accepting \in BOOLEAN
  /\ waiter \in {"none", "waiting", "resolved"}
  /\ buffered \in [Requests -> 0 .. MaxBody]
  /\ released \in [Requests -> BOOLEAN]
  /\ audits \in [Requests -> Nat]
  /\ decidedBy \in [Requests -> Versions \cup {NoVersion}]
  /\ decidedFor \in [Requests -> Versions \cup {NoVersion}]

GatewayInit ==
  /\ pc = [r \in Requests |-> "new"]
  /\ active = 0
  /\ accepting = TRUE
  /\ waiter = "none"
  /\ buffered = [r \in Requests |-> 0]
  /\ released = [r \in Requests |-> FALSE]
  /\ audits = [r \in Requests |-> 0]
  /\ decidedBy = [r \in Requests |-> NoVersion]
  /\ decidedFor = [r \in Requests |-> NoVersion]

Init == PolicyInit /\ GatewayInit

-----------------------------------------------------------------------------
(* AdmissionGate                                                           *)

Goto(r, phase) == pc' = [pc EXCEPT ![r] = phase]

\* release(): the flag makes a second call a no-op; the last slot resolves
\* everybody who waits for idleness.
Release(r) ==
  /\ released' = [released EXCEPT ![r] = TRUE]
  /\ active' = IF released[r] THEN active ELSE active - 1
  /\ waiter' = IF active' = 0 /\ waiter = "waiting" THEN "resolved" ELSE waiter
  /\ UNCHANGED accepting

\* tryAcquire() accepts.
MayAdmit == accepting /\ active < MaxInFlight

Admit(r) ==
  /\ pc[r] = "new"
  /\ MayAdmit
  /\ active' = active + 1
  /\ Goto(r, "body")
  /\ UNCHANGED <<accepting, waiter, buffered, released, historyVars, policyVars>>

Audit(r) == audits' = [audits EXCEPT ![r] = @ + 1]

\* 503 gateway_draining or gateway_overloaded: completed, and no slot is held.
Refuse(r) ==
  /\ pc[r] = "new"
  /\ ~MayAdmit
  /\ Audit(r)
  /\ Goto(r, "refused")
  /\ UNCHANGED <<buffered, gateVars, decidedBy, decidedFor, policyVars>>

BeginDrain ==
  /\ accepting
  /\ accepting' = FALSE
  /\ UNCHANGED <<pc, active, waiter, buffered, released, historyVars, policyVars>>

\* What waitForIdle() returns now.
IdlePromise == IF active = 0 THEN "resolved" ELSE "waiting"

\* Its only caller has begun to drain.
WaitForIdle ==
  /\ ~accepting
  /\ waiter = "none"
  /\ waiter' = IdlePromise
  /\ UNCHANGED <<pc, active, accepting, buffered, released, historyVars, policyVars>>

-----------------------------------------------------------------------------
(* The admitted request                                                    *)

\* The handler returns or throws, and its buffer goes with it.
DropBody(r) == buffered' = [buffered EXCEPT ![r] = 0]

\* #complete() and releaseWhenConsumed(): the response is audited; one without
\* a body gives its slot back at once, any other when its stream ends.
Respond(r) ==
  /\ Audit(r)
  /\ DropBody(r)
  /\ \/ Goto(r, "done") /\ Release(r)
     \/ Goto(r, "stream") /\ UNCHANGED gateVars

\* Mutant: an error response is not completed.
RespondErrorUnaudited(r) ==
  /\ DropBody(r)
  /\ Goto(r, "stream")
  /\ UNCHANGED <<gateVars, audits>>

\* A response the gateway builds itself always has a body.
RespondError(r) ==
  /\ Audit(r)
  /\ DropBody(r)
  /\ Goto(r, "stream")
  /\ UNCHANGED gateVars

\* Mutant: the limit is compared with the chunk.
ChunkFits(r, size) == size <= MaxBody

\* totalBytes with this chunk is within the limit.
Fits(r, size) == buffered[r] + size <= MaxBody

\* A chunk of the body arrives; GET and HEAD requests skip this.
ReadChunk(r, size) ==
  /\ pc[r] = "body"
  /\ Fits(r, size)
  /\ buffered' = [buffered EXCEPT ![r] = @ + size]
  /\ UNCHANGED <<pc, gateVars, historyVars, policyVars>>

\* A chunk too many: what was read is kept while the rest is cancelled, which
\* may never settle.
BodyTooLarge(r, size) ==
  /\ pc[r] = "body"
  /\ ~Fits(r, size)
  /\ Goto(r, "discarding")
  /\ UNCHANGED <<buffered, gateVars, historyVars, policyVars>>

\* The cancellation settled, well or not: 413 request_body_too_large.
BodyDiscarded(r) ==
  /\ pc[r] = "discarding"
  /\ RespondError(r)
  /\ UNCHANGED <<decidedBy, decidedFor, policyVars>>

\* The declared length is invalid or too large, or reading fails midway.
RefuseBody(r) ==
  /\ pc[r] = "body"
  /\ RespondError(r)
  /\ UNCHANGED <<decidedBy, decidedFor, policyVars>>

\* The body is complete and evaluate() runs up to its first await.
BeginEvaluation(r) ==
  /\ pc[r] = "body"
  /\ \E v \in Versions :
       /\ EvaluateBy(v)
       /\ decidedBy' = [decidedBy EXCEPT ![r] = v]
  /\ decidedFor' = [decidedFor EXCEPT ![r] = snapshot]
  /\ Goto(r, "policy")
  /\ UNCHANGED <<buffered, gateVars, audits>>

\* The body is complete and evaluate() throws: 503 policy_evaluation_failed.
EvaluationUnavailable(r) ==
  /\ pc[r] = "body"
  /\ EvaluateFails
  /\ RespondError(r)
  /\ UNCHANGED <<decidedBy, decidedFor>>

\* The evaluation throws, denies, or allows a request without a route.
Deny(r) ==
  /\ pc[r] = "policy"
  /\ RespondError(r)
  /\ UNCHANGED <<decidedBy, decidedFor, policyVars>>

\* The evaluation allows the request and the circuit breaker rejects it.
RejectByCircuit(r) ==
  /\ pc[r] = "policy"
  /\ RespondError(r)
  /\ UNCHANGED <<decidedBy, decidedFor, policyVars>>

\* The evaluation allows the request and the circuit breaker grants a permit.
Forward(r) ==
  /\ pc[r] = "policy"
  /\ Goto(r, "upstream")
  /\ UNCHANGED <<buffered, gateVars, historyVars, policyVars>>

UpstreamResponds(r) ==
  /\ pc[r] = "upstream"
  /\ Respond(r)
  /\ UNCHANGED <<decidedBy, decidedFor, policyVars>>

\* 502 upstream_unavailable or 504 upstream_timeout.
UpstreamFails(r) ==
  /\ pc[r] = "upstream"
  /\ RespondError(r)
  /\ UNCHANGED <<decidedBy, decidedFor, policyVars>>

\* Mutant: the error path forgets the slot.
ClientAbortsAndKeepsSlot(r) ==
  /\ pc[r] = "upstream"
  /\ Goto(r, "aborted")
  /\ DropBody(r)
  /\ UNCHANGED <<gateVars, historyVars, policyVars>>

\* The client goes away during the fetch: the error is rethrown, nothing is
\* completed, and handle()'s catch gives the slot back.
ClientAborts(r) ==
  /\ pc[r] = "upstream"
  /\ Goto(r, "aborted")
  /\ DropBody(r)
  /\ Release(r)
  /\ UNCHANGED <<historyVars, policyVars>>

-----------------------------------------------------------------------------
(* The response stream                                                     *)

\* pull(): the source is exhausted or fails.  A read that is pending when the
\* client cancels may end here too, before the cancellation settles.
StreamEnds(r) ==
  /\ pc[r] \in {"stream", "cancelling"}
  /\ ~released[r]
  /\ Release(r)
  /\ pc' = IF pc[r] = "stream" THEN [pc EXCEPT ![r] = "done"] ELSE pc
  /\ UNCHANGED <<buffered, historyVars, policyVars>>

\* cancel(): the client stops reading; the slot is kept until the source has
\* been cancelled.
ClientCancels(r) ==
  /\ pc[r] = "stream"
  /\ Goto(r, "cancelling")
  /\ UNCHANGED <<buffered, gateVars, historyVars, policyVars>>

CancelSettles(r) ==
  /\ pc[r] = "cancelling"
  /\ Goto(r, "done")
  /\ Release(r)
  /\ UNCHANGED <<buffered, historyVars, policyVars>>

RequestStep(r) ==
  \/ Admit(r) \/ Refuse(r)
  \/ \E size \in ChunkSizes : ReadChunk(r, size) \/ BodyTooLarge(r, size)
  \/ BodyDiscarded(r) \/ RefuseBody(r) \/ BeginEvaluation(r) \/ EvaluationUnavailable(r)
  \/ Deny(r) \/ RejectByCircuit(r) \/ Forward(r)
  \/ UpstreamResponds(r) \/ UpstreamFails(r) \/ ClientAborts(r)
  \/ StreamEnds(r) \/ ClientCancels(r) \/ CancelSettles(r)

InstallSnapshot(v) == Install(v) /\ UNCHANGED gatewayVars

Next ==
  \/ \E r \in Requests : RequestStep(r)
  \/ \E v \in Versions : InstallSnapshot(v)
  \/ BeginDrain
  \/ WaitForIdle

Spec == Init /\ [][Next]_vars

-----------------------------------------------------------------------------
(* Properties                                                              *)

\* The requests that hold an admission slot.
Holders ==
  {r \in Requests :
     /\ pc[r] \in {"body", "discarding", "policy", "upstream", "stream", "cancelling"}
     /\ ~released[r]}

\* The gate's counter is exactly the number of requests that hold a slot, on
\* every path out of the handler and its stream: a slot leaked once lowers the
\* capacity for good and keeps every later drain from becoming idle; a slot
\* given back twice lifts the limit.  The promise of waitForIdle() is kept: it
\* is pending only while somebody can still resolve it, and resolved only by
\* an idleness that draining makes permanent.
GateIsExact ==
  /\ active = Cardinality(Holders)
  /\ waiter = "waiting" => Holders # {}
  /\ waiter = "resolved" => Holders = {}

\* Request bodies together never take more than the slots allow, each at the
\* limit of one body: however they are cut into chunks, however long they are
\* kept, and whatever ends a request early.
BodiesWithinBudget ==
  MapThenSumSet(LAMBDA r : buffered[r], Requests) <= MaxInFlight * MaxBody

\* Every request that got past the evaluation was decided by an engine built
\* from the snapshot current when its evaluation began: a snapshot installed
\* meanwhile neither replaces nor mixes into the decision, and a snapshot that
\* cannot be built never falls back on an older policy.
DecidedByItsSnapshot ==
  \A r \in Requests :
    /\ decidedBy[r] = decidedFor[r]
    /\ pc[r] \in {"policy", "upstream"} => decidedBy[r] \in Versions \ Unbuildable

\* Every response that leaves the gateway was audited exactly once, and a
\* request whose client went away during the fetch not at all.
AuditedOnce ==
  \A r \in Requests :
    audits[r] = IF pc[r] \in {"refused", "stream", "cancelling", "done"} THEN 1 ELSE 0

=============================================================================
