# ShieldWard: a TLA+ verification project

ShieldWard is a security proxy for APIs. A control plane (Go: `cmd/`,
`internal/`) compiles and signs a policy and hands it out; edge gateways
(TypeScript: `edge/src/`) verify it, keep it up to date and decide with it which
requests reach the upstreams. This directory holds TLA+ models of the parts of
it in which order, concurrency and failure matter, the TLC configurations that
check them on small instances, and proofs, checked by TLAPS, of the properties
that matter most for every value of the parameters.

Modules are translated from the source; where the source and a document
disagree, the module follows the source and the disagreement is a finding
(below). `PROJECT.json` maps each definition to the lines it models.

## The system and its parts

| Part | State it keeps | Operations | Module |
| --- | --- | --- | --- |
| Circuit breaker (`circuit-breaker.ts`) | bounded map of upstream circuits, permits handed out | `acquire`, `recordSuccess`, `recordFailure`, `abandon`, eviction | `CircuitBreaker` |
| Gateway (`gateway.ts`) | admission gate: active count, draining flag, waiters; one handler per request with its buffered body; response streams | `handle`, `beginDrain`, `waitForIdle`, stream `pull` and `cancel` | `Gateway` |
| Live policy (`live-policy.ts`) | the active engine and its version | `evaluate`, which swaps the engine | `LivePolicy` |
| Proxying (`proxy.ts`) | a fetch and its deadline | `proxyToUpstream` | in `EdgeRequestPath`, `CircuitBreaker` |
| Edge process (`index.ts`, `shutdown.ts`, `app.ts`) | progress of `main`, the limiter's connection, timers, the shutdown under way, exit code | start, `/readyz`, signal and `error` handlers, `performGracefulShutdown`, `stopDependencies` | `EdgeProcess` |
| Configuration client (`config-client.ts`) | the verified snapshot, the refresh in flight | `refresh` | `ConfigSync` |
| Synchronizer (`config-sync.ts`) | stream loop, polling loop, abort controller | `start`, `stop` | `ConfigSync` |
| Rate limiter in memory (`rate-limit.ts`) | bounded map of buckets | `check` | `MemoryRateLimiter` |
| Rate limiter in Redis (`redis-rate-limit.ts`) | hashes in Redis, commands in flight | `check`, the Lua script | `RedisRateLimiter` |
| Choice of the limiter (`rate-limit-runtime.ts`) | the backend | `createRateLimitRuntime`, `close` | `RateLimiting`, `EdgeProcess` |
| Bundle store (`internal/server/store.go`) | current envelope, subscribers' channels | `Publish`, `Subscribe`, cancel, `pushLatest` | `BundleStore`, `LatestValue` |
| HTTP API (`internal/server/handler.go`) | none of its own | `GET /v1/bundle`, `GET /v1/events` | in `BundleStore`, `ControlPlane`, `ConfigSync` |
| Policy watcher (`cmd/shieldwardd/reload.go`) | last observation of the file | one iteration of `watchPolicy` | `PolicyWatcher`, `PolicyRestore` |
| Control-plane process (`cmd/shieldwardd/serve.go`) | the process context, the server, its handlers | `runServe` | `ControlPlane` |
| Key files (`internal/signing/keyfile.go`) | two files | `keygen` | `KeyFiles` |
| Signing and verification (`signing.go`, `verify.ts`, `trusted-keys.ts`, `bundle.ts`) | none | `Sign`, `verifyBundleEnvelope` | `BundleVerification` |
| Policy engine, JWT, WAF, route matcher (`policy-engine.ts`, `jwt.ts`, `waf.ts`, `route-matcher.ts`) | resolvers of key sets, evaluations between awaits | `evaluate` | `PolicyEngine` |
| TLS reload (`tls.ts`, `tls_reload.go`) | the material in use, a fingerprint, the reload in flight | one reload | `TlsReload` |
| Event stream decoder (`sse.ts`) | a partial line and event | `push`, `finish` | `EventStream` |
| Compiler, policy model, canonical JSON | none | pure functions | in `PolicyEngine`: the checks across routes, templates, tables |
| Runtime configuration, command line, health checks | none | parse and validate | assumptions on the constants |
| Metrics, audit log | counters | record | the breaker's gauge, the number of audit records, the reload recorded last |
| Scripts, deployment manifests | none | none at run time | not modelled |

How they interact: `keygen` writes the key that `serve` signs with and edges
trust; the watcher publishes into the store; the store announces to event
streams; the edge's decoder takes the announcements out of the stream; the
synchronizer, on an announcement or by a timer, makes the client refresh; the
client verifies the answer, and its snapshot is what `LivePolicy` builds its
engine from; the gateway evaluates each request with it, asks the limiter and
the breaker, fetches, and streams the answer back while holding an admission
slot; the shutdown drains the gateway before it stops synchronizer and limiter.

What is hard about it, and what each part must guarantee:

* **Breaker.** Completions arrive in any order, long after the circuit changed
  under them; a probe may be abandoned; the map is bounded, entries are deleted
  and recreated. A half open circuit must not be stranded, an unavailable one
  not forgotten, a healthy one not opened, the gauge not drift.
* **Gateway.** Every path out of a handler and its stream gives the slot back
  once and is audited once; bodies come in chunks of any size; the engine may be
  swapped, or be impossible to build, while requests are being evaluated.
* **Edge process.** Requests, signals, server errors, the backend's failures, the
  grace period and the stop of the dependencies race. It must end, its exit
  status and its readiness must tell the truth, and a start that fails must not
  leave something behind that keeps the process alive.
* **Synchronization.** Three tasks share one refresh, publications overtake
  answers, announcements are lost or coalesced, answers arrive in part. The
  snapshot must be genuine, never older than before, and in the end the current one.
* **Event stream.** The network cuts the text anywhere, also inside a line ending.
* **Store.** `pushLatest` makes three separate selects on a channel that a
  handler reads at the same time and that a cancellation closes.
* **Limiters.** Windows, clean-up, eviction and policies change around a count
  that must neither be exceeded nor be charged to the wrong request; with Redis,
  replies are lost and commands run late.
* **Control plane.** The policy file changes between an observation and the read
  it leads to; event streams never end by themselves and clients stall, yet a
  signal must end the process.
* **Key files.** `keygen` writes two files, and may be killed between any two
  system calls or run twice at once.
* **Policy engine.** Templates overlap; a compiler in one language and a matcher
  in another must agree on what a document says, and each has regular
  expressions of its own; requests wait for key sets and
  the limiter while policies change; resolvers outlive policies. Nothing may be
  skipped, nobody charged for another, no retired key set used.
* **TLS reload.** Three files are replaced one by one under reloaders that read
  them separately, at two ends that know nothing of each other. Both ends must
  trust each other all the time, and every rotation must be taken in.

## The modules and the code

**CircuitBreaker.** `circuits` is the map `#circuits` as a total function with a
state "absent"; `permits[r]` is the permit a request holds, gone when one of the
three callbacks has run (the `completed` flag); `now` is the injected clock.
`Acquire*` are the returns of `acquire`, `RecordSuccess`, `RecordFailure` and
`Abandon` the callbacks, `FindOrCreate` yields the maps `#findOrCreate` may leave
behind (none for `undefined`). The deadline of `AbortSignal.timeout` is part of
the permit and `Tick` does not pass it. `streak` is a history variable.

**Gateway** (extends **LivePolicy**). `pc[r]` is the place of the handler
between two awaits, `active`, `accepting`, `waiter` and `released` are the
admission gate, `buffered` is how much of its body a handler holds. Every
action is the code between two awaits or a callback of the response stream; a body
that is too large is kept until the cancellation of its stream has settled. The
verdict of the policy engine is a choice (`Deny`,
`Forward`). `audits`, `decidedBy` and `decidedFor` are history.

**EdgeRequestPath** extends `CircuitBreaker` and has an instance of `Gateway`: the
gateway's step to and from the upstream is one step with the breaker's. `Recycle`
lets a place be used by the next request.

**EdgeProcess** extends `Gateway` with `main()`: the limiter's connection, the
first policy, the listening server, their failures, the two handlers of
`index.ts` and `performGracefulShutdown`. `main` is where `main()`, then
`shutdown()`, is; `limiter` is the Redis client, which reconnects by itself;
`Ready` is what `/readyz` answers. The HTTP server is external: it calls back at
any time, with or without an error, or never.

**BundleVerification** is what both ends do to a bundle, as operators: the
version is the digest of the policy, the key identifier that of the key, the
signature covers the bundle with its version, and the entity tag is the version
in quotes. Digests and signatures are records of what they were made from.

**ConfigSync** (extends `BundleVerification`) has the control plane's two
endpoints, the client and the synchronizer. A release is a policy and the key it
was signed with; `ServeMixed` lets any part of an answer be replaced by that of
another. `op[t]` is the refresh task `t` has started, `joined[t]` the task whose
refresh `t` awaits. `published` is the sequence of publications, which lets the
history variable `asOf` say as of which one the snapshot is known to be current,
so that a rollback to an earlier policy is told from a late answer. `Stop` may
come at any time. During `start()` there are no loops to wait for, so `stop()`
returns while the refresh that `start()` awaits is in flight; when that settles,
`start()` sees the abort and starts no loop (`Settle`). This is what
`StoppedIsQuiet` says of it, and `StopEnds` that this refresh ends as well.

**EventStream.** A text is a sequence of tokens. `ReadChunk` is a read of any
length, `DecodeLine` one turn of the loop in `push`, `Finish` the end of the
connection. `Decode` says what a text means without a decoder and without a loop:
`Lines` gives the line that ends at each position of the whole text, `Block` those
since the last blank one, `Data` and `Type` what a block says, and `Ordered` puts
positions in order by counting the ones before.

**BundleStore** has one action per select of `pushLatest`, with handlers
receiving in between, and is shown to implement **LatestValue**, a register
whose readers see newer and newer values and may miss all but the last.

**MemoryRateLimiter**, **RedisRateLimiter**, **RateLimiting.** A check in
memory is one step. In Redis it is sent, executed and answered in three, each
of which may fail. `RateLimiting` selects one of them, as the configuration does.

**PolicyEngine.** `Validate` to `Compile` are the control plane, `WafBuilds` and
`EngineBuilds` the constructors at the edge, `Resolve` the matcher, as operators
on documents and bundles. A WAF pattern is known by the languages that accept it
(`compilesIn`): the control plane asks Go, the edge JavaScript, so a bundle may be
published that no engine can be built from, and every evaluation then fails
(`EvaluateFails`). `Portable` says that a document has no such pattern. A path is a
sequence of segments; a pattern is what `compilePathTemplate` keeps of a
template; one expression per method is the sequence of its alternatives, the
first of which to match the whole path wins; `Listed` is the loop that collects
them. `evaluate()` has an action for each
way to its first await (`Evaluate*`), for the end of the verification and for
the answer of the limiter. An engine is the document it was built from, kept in
the evaluation. `RoutesAsDocumented` compares with a definition that uses no
tables and builds paths from templates rather than taking them apart.

**TlsReload.** `files` is what is on disk, `loads` a load with what it has read
so far, `current` the material of each reloader, `context` what the listener was
given. The edge's files are read in any order, the control plane's in the order
of `load`. The operator carries out the rollover of
docs/mutual-tls-and-certificate-rotation.md one file at a time, in any order
within a step, waiting for the reloaders between steps. `Loads` only matters to a
reloader without single flight, which is the mutant.

**PolicyWatcher** has one action per file operation of an iteration: observe,
read and compile, sign and publish. Each edit is observable (its size or time
differs). **PolicyRestore** adds the reload recorded last.

**KeyFiles** has one action per system call of `keygen` that matters: creating,
writing and removing each file. A pair is known by the run that made it.

**ControlPlane** composes `KeyFiles`, `PolicyWatcher` and `BundleStore` under
`runServe`: the watcher is the store's only publisher and waits for its loop;
`stalled` are the handlers whose client does not read; `RequestContextDone` is
the `BaseContext` that ties every handler to the process.

## The runs

| Run | Shows |
| --- | --- |
| `breaker` | 3 requests, 3 upstreams, room for 2: safety of the breaker |
| `breaker_probe` | finding: two probes at once |
| `edge_process` | 3 requests with bodies in chunks, 2 slots, 2 policies of which 1 cannot be built: the edge from start to exit, safety and termination |
| `request_path` | 2 requests used again and again, 2 upstreams, room for 1: gateway with breaker |
| `control_plane` | 2 keygens, 2 edits among 2 valid policies, a broken one and none, 2 clients: safety, refinement, delivery of the policy, termination |
| `config_sync` | 3 publications among 3 policies (1 the edge cannot read) and 2 keys (1 trusted), answers mixed: safety, `stop()`, convergence |
| `event_stream` | every text of up to 4 lines, every mixture of line endings, every cut: decoding against a reference |
| `rate_limiting` | memory: 3 keys, room for 2, 2 policies; Redis: 3 checks at a time, 1 key |
| `redis_rollout` | finding: replicas with different limits |
| `tls_rollover` | 3 reloaders, a rollover in 3 steps: no outage, no older material, completion |
| `policy_engine` | 2 requests, 4 documents that compile, 1 of them unreadable at the edge, and 7 that do not: routing against a reference, enforcement |
| `policy_restore` | finding: a restored policy is not confirmed |

Every property has a mutant, a plausible mistake in the code under which TLC
finds the property violated; the definition called "Mutant" before the one it
stands for.

Why the bounds are enough for what they are meant to show (for safety, the
proofs remove them):

* Breaker: three requests are a probe, a late completion from before the circuit
  opened, and one that is turned away; three upstreams over a map with room for
  two force evictions of closed entries and refusals when both are unavailable;
  a threshold of 2 separates the first failure from the opening one; the clock
  runs long enough for a circuit to open, be probed, reopen and be probed again.
  The proofs remove these bounds.
* Edge process: with three requests and two slots one is refused while two are at
  different places; chunks of one and two against a limit of one make a body too
  large at once and in two parts; two policies, one that builds and one that does
  not, give both kinds of swap, in both directions.
* Control plane: the three selects involve one subscriber and one publication;
  two and three make a publication overlap with the subscription and
  cancellation of another. Two edits on top of the first policy are broken or
  missing and valid again, or a change and a return, each at any step of an
  iteration. Two keygens overlap at every pair of steps. The proofs remove the
  bounds on subscribers, publications and keygens.
* Synchronization: three publications, of any releases in any order, include A,
  B, A, and an unreadable policy or one signed with a foreign key between two good
  ones, which is what would confuse tags, late answers and shared refreshes; every
  single part of an answer is exchanged.
* Event stream: four lines hold a complete event and the begin of the next, a
  repeated field, comments and empty events; every chunking of each is explored.
* Limiters: windows of 3 and 2 within 6 ticks end together and apart; three keys
  for two places fill the map; in Redis three checks in flight straddle a window.
* Policy engine: the templates overlap as literal, parameter and wildcard, in both
  orders, with parameters that differ in name only, and the paths have trailing
  slashes and empty segments; one document moves the issuer's key set, one has a
  pattern that only Go accepts on a route that not every request takes, and of the
  rejected ones each breaks one rule. Two requests are enough for one of them to
  create a resolver that the other uses.
* TLS: every file of the rollover is replaced, at once or through an unusable state.

Deadlock is checked except where the system really stops: after all requests
and the shutdown are over (`edge_process`, `request_path`), after `stop()`
(`config_sync`), when the process has returned (`control_plane`), at the end of a
connection (`event_stream`).

## Fairness

* `request_path`: every fetch settles (`WF` of `Settle`); `proxy.ts` passes
  `AbortSignal.timeout` to every fetch, and the permit is used in the same turn.
* `edge_process`: the grace timer fires and `stopDependencies` settles. Nothing
  is assumed of clients, upstreams or the server.
* `control_plane`: the ticker ticks, goroutines that can run are scheduled, and the
  ten seconds of the shutdown pass. Nothing is assumed of operators and clients:
  `PolicyReachesClients` is about clients that stay and read.
* `config_sync`: `FairSpec` assumes only that timers fire and that an abort
  reaches what waits for it, the refresh of `start()` also after `stop()` has
  returned; with no more than that, `stop()` returns and every refresh ends.
  `Converges` is an implication from `NetworkFairness`: an answered request ends
  and not every request fails for ever. The code sets no deadline on these
  requests, so this cannot be had for less (see the hazards).
* `tls_rollover`: timers fire, file operations return, and the operator finishes
  the job, also that of repairing a file.

## What is proved

`EdgeRequestPath_proofs` is first about the breaker whoever calls it, for any
finite set of upstreams, any set of requests and any limits, from the named
assumptions of `CircuitBreaker` (finitely many upstreams, positive limits,
`NoPermit` is no permit):

* `TypeCorrect` (`TypeOK`), `ProbeOutstanding` (`HalfOpenHasProbe` is inductive with the
  types), `GaugeIsExact` and `MapIsBounded` (inductive with finiteness:
  cardinalities change by one with each entry created, evicted, deleted or
  moved between states).
* `NoSpuriousOpen`: `OpensOnlyAfterFailures` alone is not inductive, since a
  closed circuit's count could be anything; `FailuresInv` adds that it never
  exceeds the failures since the last success.
* `ProbeAlone`: `ProbeIsAlone` needs `TimingInv`: every fetch is within its
  deadline, and an open circuit stays open beyond the deadline of every request
  still in flight to it, so that when a probe starts nobody is left.
* `RecoveryNeedsSuccess`, an action property: only the recording of a success
  makes an unavailable circuit available.

Then about the breaker behind the gateway, for any requests and upstreams:

* `EveryPermitIsUsed`: `PermitsMatchFetches` is inductive with the places of the
  requests and the types of the permits.
* `GatewayDrivesTheBreaker`: every behaviour of the composition is one of
  `CircuitBreaker`; `BreakerBehindTheGateway` draws the conclusion that the
  promises above hold of the requests the gateway serves.
* `RejectionsAwaitAProbe` joins the two: whenever a circuit is half open, one of the
  gateway's requests is at that upstream as its probe, alone there if the deadline
  is shorter than the open period. Neither component can say this by itself: the
  breaker knows of the probe, the gateway of the request.

`EdgeProcess_proofs`, for any finite set of requests, any limits, chunk sizes and
policy versions, about the whole process: `GateExact`, `BodiesStayWithinBudget`,
`EveryResponseAuditedOnce`, `DecisionsFollowSnapshots`,
`RequestsKeepTheirDependencies`, `SuccessIsClean`, `ReadinessIsTruthful`,
`EndedMeansNothingRuns` and `ProcessTypeCorrect`. `ProcessInv` has two halves.
`GatewayInv` says of each request where a slot may have been given back, where a
body may be held and where it has been audited, and of the gate that the counter
is the number of holders and the promise of `waitForIdle()` is resolved only when
there are none and none can come. The rest says, for each stage of `main()` and
`shutdown()`, what runs. None of the properties is inductive without it: exit
status 0, for one, needs the stage to remember how the race of the shutdown was
decided. The budget is a sum over the requests; `SumBound` bounds it.

`ControlPlane_proofs`. For any set of subscribers: `NoSubscriberLeftBehind`,
`NoSendOnClosed` and `StoreRefines` (the store implements `LatestValue`), all from
`StoreInv`, which says what holds between the selects: the target is still to
do, its channel is empty after the drain because nobody else sends, and whoever
is still to do has not seen the new version. For any set of runs of `keygen`:
`KeyTypeCorrect` and `PairsMatch`. `PairMatches` alone is not inductive; `KeyInv`
adds what each run between two system calls knows: that the public file is its own
from its creation on, complete once written, and the private file its own while it
writes it, so that nobody else can be about to remove or replace either. For the
whole process: `ControlPlaneRunsTheStore`, that every step of `runServe`, of the
watcher and of a handler is a step of the store or leaves it alone, and with it
`ControlPlaneIsSafe`.

`ConfigSync_proofs`, for any policies, keys, releases and publications:
`InstalledIsGenuine`, `StopIsQuiet`, `NeverTakenBack` (an action property),
`SyncTypeCorrect` and `EdgeReadsTheRegister`: every step is one of the register of
`LatestValue` that the store implements as well, here with the edge as its reader
and the confirmed publication as what it has observed (the register of an edge
that starts is not a new one, so only the steps are compared). `StopIsQuiet` says
that after `stop()` both loops are over and that no refresh is in flight but the one
`start()` itself began and awaits. `SyncInv` adds that there is one refresh at a
time, who awaits it, that no loop runs while `start()` does, and, for each place of
a refresh, as of which publication its answer is current: a request in flight was sent with the tag of the snapshot, and a bundle
that passes the checks was current when it was served. Answers that are mixed from
parts of others enter the proof as whatever passes the checks of
`BundleVerification`; that only genuine ones do (`AcceptedIsGenuine`) is a lemma
about digests and signatures as terms.

`RateLimiting_proofs`. In memory, for any policies, keys, capacity, interval and
clock: `MemoryLimitHolds`, `MemoryCapacityIsExact`, `MemoryLimitsOnlyTheSpent` and
`MemoryTypeCorrect`, from `MemoryInv`: a bucket whose window is running counts
exactly what its key was granted in that window, and no clean-up takes such a
bucket away. In Redis, for any number of checks in flight and any keys:
`OneLimit`, under the hypothesis that all replicas check with one policy. Without
it the statement is false (finding 2). `RedisInv` says that the stored count of
the running window covers what was let through and what is granted but not yet
answered, and that nothing is granted in a window that has not begun.

`TlsReload_proofs`, for any number of loads that single flight has to keep
apart: `RolloverHasNoOutage`, `MaterialIsNeverStale` and
`ReloadTypeCorrect`. The rollover itself is the one of the documentation.
`ReloadInv` says, for each file of each reloader, that disk, load and material
each have what the step of the rollover starts from or what it leads to, that
neither load nor material is ahead of the disk, and that the load is not behind the
material; the trust between the ends then follows step by step.

`PolicyEngine_proofs`, for any documents and requests:
`CompiledAsDocumented`, `AllowedMeansEnforced`, `ChargesAreOwned`,
`VerifiedByTheRightKeys` and `EngineTypeCorrect`. The first rests on two lemmas
about the compiler. `ListedInOrder`: the loop that fills the tables keeps the
order of the document, so the first alternative that matches is the first route
that fits. `PatternsFit`: an expression matches exactly the paths that can be made
from its template. `EnginesBuild`: an engine can be built from a bundle that was
published exactly when its document is `Portable`. The others follow from `EngineInv`: a resolver has the keys of
the URL it is remembered under, and an evaluation that has reached a stage has
passed the earlier ones under the document it began with, which is `Portable` as
long as the request is not refused (`Underway`). That a route has at most
one policy for tokens, an assumption on the documents (a pointer in the code), is
needed: the issuer is checked by one policy and the keys were chosen by another
step.

`EventStream_proofs`, for any texts: `CutsDoNotMatter`, that is `DecodedAsWhole`. The
decoder works on a buffer and two partial results, the definition on positions of
the whole text. `DecoderInv` relates them by the position `c` up to which lines have
been taken: the buffer is what was read after `c`; `c` is the end of a line (or the
beginning), and not a carriage return at the end of what was read, whose line
feed may still come; the data and the type collected so far are those of the block
that is open after `c`; the events delivered are those of the lines up to `c`. Three
groups of lemmas carry it: counting (`EveryRank`: a finite set of numbers has an
element of each rank, so that adding a last element appends to `Ordered`), what one
more line does to a block, its data, its type and the events (`EventsGrow`), and
where the next line of a text ends (`LineTaken`, `NoEndingLeft`).

The assumptions are those named in the modules: kinds of constants, finite sets
where something is counted, positive limits, and values that stand for "none" being
no others. TLC evaluates each of them on the instances.

Some facts need an induction over data: the sum of the bodies, and the loop over
the routes. The library's induction theorems cannot be instantiated here, but "a
set of numbers that is not empty has a least element" (`NatMin`) can be used
without them: the least counterexample is refuted by the one before. The loop is
written as a recursive function (`Listed`) for this reason. The ranks of a set of
numbers need none: a map into as many numbers that never takes a value twice takes
each (`EveryRank`).

Only model-checked:

* Liveness (`ShutdownEnds`, `HalfOpenIsDecided`, `PolicyReachesClients`,
  `ServeEnds`, `StopEnds`, `Converges`, `RolloverCompletes`): fairness is out of
  the prover's reach.
* The three properties that do not hold (see the findings).

## Findings

1. `breaker_probe`: "exactly one request becomes the half-open recovery probe"
   (docs/circuit-breaking-and-draining.md) does not hold when the upstream
   timeout is longer than the open period, which the configuration permits: a
   late failure reopens the half open circuit under the probe, and a second probe
   follows. With the defaults it holds, and `ProbeAlone` proves it.
2. `redis_rollout`: "enforce one limit across all replicas"
   (docs/distributed-rate-limiting.md) does not hold while replicas have
   different limits for a route; each check starts a new count.
3. `policy_restore`: "confirm a successful reload" (docs/failure-drills.md) after
   restoring the policy that is still published: no reload is recorded.

## What is not modelled

Cryptography is symbolic; parsing (JWT, JSON, YAML, PEM, the schema of bundles)
appears as the set of inputs it accepts. URL and header rewriting, formatting of metrics
and logs, flags and environment variables keep no state. The HTTP server, the
fetch implementation, Redis and the file system are external and modelled by how
the code uses them. A synchronizer that is started again after `stop()` is left out:
`index.ts` starts it once. The audit record's policy version is read at completion, not
at evaluation; no document says which one it should be, so no property does.

## Plan

Order of work: breaker, gateway and their composition; store and
synchronization; limiters; TLS reload; policy engine; event stream; key files and
the control plane as a whole; the edge process from start to exit; symbolic
verification of bundles; proofs of all safety properties that hold (done). Next:

1. The gateway with `PolicyEngine` in place of the free choice of its verdict.
2. The edge's synchronizer against `ControlPlane` in place of its short form of
   the two endpoints.
