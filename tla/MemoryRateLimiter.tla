------------------------- MODULE MemoryRateLimiter -------------------------
(***************************************************************************)
(* The in-memory fixed-window limiter of one edge process                  *)
(* (FixedWindowRateLimiter in edge/src/rate-limit.ts): a bounded map of    *)
(* buckets, emptied of expired ones from time to time and when it is full. *)
(* check() is synchronous, so it is one step.  One limiter serves every    *)
(* policy engine: while a new policy is rolled out, requests already in    *)
(* the old engine check with the old limits, so that a key is checked with *)
(* any of Policies in any order.                                           *)
(*                                                                         *)
(* Invalid input and an invalid clock throw before anything is read; they  *)
(* leave no trace here.                                                    *)
(***************************************************************************)
EXTENDS Naturals, FiniteSets

CONSTANTS
  Keys,             \* pairs of a route and an identity
  Policies,         \* records of requests and window
  NoBucket,         \* the map has no such key
  MaxBuckets,       \* the map's capacity
  CleanupInterval,  \* CLEANUP_INTERVAL_MS
  MaxTime           \* bound on the clock

ASSUME LimiterAssumption ==
  /\ Policies \subseteq [requests : Nat \ {0}, window : Nat \ {0}] /\ Policies # {}
  /\ IsFiniteSet(Keys)
  /\ MaxBuckets \in Nat \ {0}
  /\ CleanupInterval \in Nat \ {0}
  /\ MaxTime \in Nat

VARIABLES
  now,            \* the clock
  buckets,        \* #buckets
  nextCleanupAt,  \* #nextCleanupAt
  outcome,        \* history: how the last check() ended
  spent           \* history: what each key was granted by checks with the same
                  \* policy, one after the other, in one aligned window

vars == <<now, buckets, nextCleanupAt, outcome, spent>>

WindowStart(t, window) == (t \div window) * window

Bucket == [count : Nat, policy : Policies, resetAt : Nat]

ASSUME NoBucketAssumption == NoBucket \notin Bucket

Outcomes == {"none", "allowed", "limited", "exhausted"}

Account == [policy : Policies, start : Nat, count : Nat]

TypeOK ==
  /\ now \in 0 .. MaxTime
  /\ buckets \in [Keys -> Bucket \cup {NoBucket}]
  /\ nextCleanupAt \in Nat
  /\ outcome \in Outcomes
  /\ spent \in [Keys -> Account]

Init ==
  /\ now = 0
  /\ buckets = [k \in Keys |-> NoBucket]
  /\ nextCleanupAt = 0
  /\ outcome = "none"
  /\ \E p \in Policies : spent = [k \in Keys |-> [policy |-> p, start |-> 0, count |-> 0]]

-----------------------------------------------------------------------------
Stored(B) == {k \in Keys : B[k] # NoBucket}

\* Mutant: a bucket counts as expired while its window is still running.
ExpiredEarly(b) == now + 1 >= b.resetAt

Expired(b) == now >= b.resetAt

RemoveExpired(B) ==
  [k \in Keys |-> IF B[k] # NoBucket /\ Expired(B[k]) THEN NoBucket ELSE B[k]]

\* The periodic clean-up at the start of check().
CleanedUp == IF now >= nextCleanupAt THEN RemoveExpired(buckets) ELSE buckets

\* Mutant: a bucket outlives the policy it was made for.
MustCreateForAnyPolicy(b, p) == b = NoBucket \/ Expired(b)

\* There is no bucket, or it is of another window or of another policy.
MustCreate(b, p) == b = NoBucket \/ Expired(b) \/ b.policy # p

\* Mutant: the map is not emptied when it is full.
MakeRoomNever(B, k) == B

\* A new key finds the map full: expired buckets go at once.
MakeRoom(B, k) ==
  IF B[k] = NoBucket /\ Cardinality(Stored(B)) >= MaxBuckets THEN RemoveExpired(B) ELSE B

HasRoom(B, k) == B[k] # NoBucket \/ Cardinality(Stored(B)) < MaxBuckets

\* Windows are aligned with the clock.
ResetAt(p) == WindowStart(now, p.window) + p.window

\* The bucket that check() counts in.
Opened(B, k, p) ==
  IF MustCreate(B[k], p) THEN [count |-> 0, policy |-> p, resetAt |-> ResetAt(p)] ELSE B[k]

\* The account of k, continued or started anew, with granted more requests.
Charged(k, p, granted) ==
  LET start == WindowStart(now, p.window) IN
  [policy |-> p, start |-> start,
   count |-> granted + IF spent[k].policy = p /\ spent[k].start = start
                       THEN spent[k].count ELSE 0]

Check(k, p) ==
  LET B == IF MustCreate(CleanedUp[k], p) THEN MakeRoom(CleanedUp, k) ELSE CleanedUp
      b == Opened(B, k, p)
  IN
  /\ nextCleanupAt' = IF now >= nextCleanupAt THEN now + CleanupInterval ELSE nextCleanupAt
  /\ \/ /\ ~HasRoom(B, k)
        /\ buckets' = B
        /\ outcome' = "exhausted"
        /\ UNCHANGED spent
     \/ /\ HasRoom(B, k)
        /\ b.count >= b.policy.requests
        /\ buckets' = [B EXCEPT ![k] = b]
        /\ outcome' = "limited"
        /\ spent' = [spent EXCEPT ![k] = Charged(k, p, 0)]
     \/ /\ HasRoom(B, k)
        /\ b.count < b.policy.requests
        /\ buckets' = [B EXCEPT ![k] = [b EXCEPT !.count = @ + 1]]
        /\ outcome' = "allowed"
        /\ spent' = [spent EXCEPT ![k] = Charged(k, p, 1)]
  /\ UNCHANGED now

Tick ==
  /\ now < MaxTime
  /\ now' = now + 1
  /\ UNCHANGED <<buckets, nextCleanupAt, outcome, spent>>

Next == Tick \/ \E k \in Keys, p \in Policies : Check(k, p)

Spec == Init /\ [][Next]_vars

-----------------------------------------------------------------------------
(* Properties                                                              *)

\* No key gets more requests through in a window aligned with the clock than
\* its policy allows, whatever is cleaned up, evicted or created meanwhile, as
\* long as its policy stays the same.
LimitHolds == \A k \in Keys : spent[k].count <= spent[k].policy.requests

\* The map uses the room it has and no more: whoever sends requests it never
\* outgrows its bound, and a request is turned away for lack of capacity only
\* when every bucket in it belongs to a window that is still running.
CapacityIsExact ==
  [][/\ Cardinality(Stored(buckets')) <= MaxBuckets
     /\ now' = now /\ outcome' = "exhausted" =>
          \A k \in Stored(buckets') : buckets'[k].resetAt > now]_vars

\* A request is limited only when its key has used up what the policy of its
\* bucket grants: nobody pays for somebody else's requests.
LimitedOnlyWhenSpent ==
  [][\A k \in Keys, p \in Policies :
       Check(k, p) /\ outcome' = "limited" => spent'[k].count = p.requests]_vars

=============================================================================
