---------------------------- MODULE RateLimiting ----------------------------
(***************************************************************************)
(* The rate limiter of an edge as createRateLimitRuntime                   *)
(* (edge/src/rate-limit-runtime.ts) sets it up: the configuration selects  *)
(* one of two backends for the life of the process.  What is not selected  *)
(* stays as it was.                                                        *)
(***************************************************************************)
EXTENDS MemoryRateLimiter

CONSTANTS
  Checks,           \* RedisRateLimiter: check() calls under way
  NoEntry,          \* RedisRateLimiter: no such key in Redis
  NoCall,           \* RedisRateLimiter: this check has not begun
  ReplicaKeys,      \* the keys checked with a Redis that replicas share
  ReplicaPolicies   \* the policies they check with

ASSUME ReplicaAssumption ==
  ReplicaPolicies \subseteq [requests : Nat \ {0}, window : Nat \ {0}] /\ ReplicaPolicies # {}

VARIABLES
  backend,                          \* RateLimitRuntime.backend
  clock, entries, calls, admitted   \* of RedisRateLimiter

redisVars == <<clock, entries, calls, admitted>>

Redis == INSTANCE RedisRateLimiter WITH Keys <- ReplicaKeys, Policies <- ReplicaPolicies

ASSUME RedisAssumption ==
  IsFiniteSet(Checks) /\ NoEntry \notin Redis!Entry /\ NoCall \notin Redis!Call

RateLimitInit ==
  /\ backend \in {"memory", "redis"}
  /\ Init
  /\ Redis!Init

MemoryStep ==
  /\ backend = "memory"
  /\ Next
  /\ UNCHANGED <<backend, redisVars>>

RedisStep ==
  /\ backend = "redis"
  /\ Redis!Next
  /\ UNCHANGED <<backend, vars>>

RateLimitNext == MemoryStep \/ RedisStep

RateLimitSpec == RateLimitInit /\ [][RateLimitNext]_<<backend, vars, redisVars>>

\* The promise of the distributed backend, whatever is timed out, lost or
\* executed late: see RedisRateLimiter.
OneLimitAcrossReplicas == Redis!OneLimitAcrossReplicas

=============================================================================
