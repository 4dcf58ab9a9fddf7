------------------------- MODULE RateLimiting_proofs -------------------------
(***************************************************************************)
(* Proofs about the two rate limiters: the one in memory for any keys,     *)
(* policies, capacity and times, the one in Redis for any number of        *)
(* replicas, checks and keys and one policy.                               *)
(***************************************************************************)
EXTENDS RateLimiting, TLAPS, FiniteSetTheorems

-----------------------------------------------------------------------------
(* Windows                                                                 *)

\* A window contains the time it is the window of.
LEMMA WindowContains ==
  ASSUME NEW t \in Nat, NEW w \in Nat \ {0}
  PROVE  /\ WindowStart(t, w) \in Nat /\ WindowStart(t, w) <= t
         /\ t < WindowStart(t, w) + w
BY DEF WindowStart

\* A quotient is known by its bounds.
LEMMA QuotientIs ==
  ASSUME NEW t \in Nat, NEW w \in Nat \ {0}, NEW q \in Nat, q * w <= t, t < q * w + w
  PROVE  t \div w = q
OBVIOUS

\* Until a window ends the clock stays in it.
LEMMA WindowStays ==
  ASSUME NEW t \in Nat, NEW w \in Nat \ {0}, t + 1 < WindowStart(t, w) + w
  PROVE  WindowStart(t + 1, w) = WindowStart(t, w)
<1> DEFINE q == t \div w
<1>1. q \in Nat /\ q * w <= t + 1 /\ t + 1 < q * w + w
  BY WindowContains DEF WindowStart
<1> HIDE DEF q
<1>2. (t + 1) \div w = q
  BY <1>1, QuotientIs
<1> QED
  BY <1>2 DEF q, WindowStart

-----------------------------------------------------------------------------
(* The limiter in memory                                                   *)

\* A bucket whose window is running counts exactly what its key was granted in
\* that window, and a key that was granted something in a running window has
\* such a bucket: no clean-up takes it away.
AccountInv(k) ==
  /\ buckets[k] # NoBucket /\ now < buckets[k].resetAt =>
       /\ spent[k].policy = buckets[k].policy
       /\ spent[k].start = WindowStart(now, buckets[k].policy.window)
       /\ buckets[k].resetAt = spent[k].start + buckets[k].policy.window
       /\ spent[k].count = buckets[k].count
  /\ spent[k].count > 0 /\ now < spent[k].start + spent[k].policy.window =>
       buckets[k] # NoBucket /\ now < buckets[k].resetAt
  /\ spent[k].count <= spent[k].policy.requests

MemoryInv ==
  /\ TypeOK
  /\ \A k \in Keys : AccountInv(k)
  /\ Cardinality(Stored(buckets)) <= MaxBuckets

\* The fields of what the limiter stores.
LEMMA LimiterFields ==
  ASSUME TypeOK, NEW k \in Keys
  PROVE  /\ now \in Nat
         /\ spent[k].policy \in Policies /\ spent[k].start \in Nat /\ spent[k].count \in Nat
         /\ buckets[k] # NoBucket => /\ buckets[k] \in Bucket
                                     /\ buckets[k].count \in Nat
                                     /\ buckets[k].policy \in Policies
                                     /\ buckets[k].resetAt \in Nat
         /\ \A p \in Policies : p.requests \in Nat \ {0} /\ p.window \in Nat \ {0}
<1>1. now \in Nat
  BY LimiterAssumption DEF TypeOK
<1>2. spent[k] \in Account
  BY DEF TypeOK
<1>3. buckets[k] \in Bucket \cup {NoBucket}
  BY DEF TypeOK
<1>4. \A p \in Policies : p.requests \in Nat \ {0} /\ p.window \in Nat \ {0}
  BY LimiterAssumption
<1> QED
  BY <1>1, <1>2, <1>3, <1>4 DEF Account, Bucket

\* The stored keys are finitely many, and fewer when buckets are dropped.
LEMMA StoredIsFinite ==
  ASSUME NEW B
  PROVE  /\ IsFiniteSet(Stored(B)) /\ Cardinality(Stored(B)) \in Nat
         /\ \A C : Stored(C) \subseteq Stored(B) => Cardinality(Stored(C)) <= Cardinality(Stored(B))
<1>1. IsFiniteSet(Stored(B))
  <2>1. Stored(B) \in SUBSET Keys
    BY DEF Stored
  <2> QED
    BY <2>1, FS_Subset, LimiterAssumption
<1> QED
  BY <1>1, FS_CardinalityType, FS_Subset

\* The map that check() works on once it has cleaned up and made room.
Swept(k, p) ==
  IF MustCreate(CleanedUp[k], p) THEN MakeRoom(CleanedUp, k) ELSE CleanedUp

\* Sweeping drops expired buckets and touches no other.
LEMMA SweepDropsExpired ==
  ASSUME TypeOK, NEW k \in Keys, NEW p \in Policies
  PROVE  /\ Swept(k, p) \in [Keys -> Bucket \cup {NoBucket}]
         /\ \A j \in Keys :
              \/ Swept(k, p)[j] = buckets[j]
              \/ Swept(k, p)[j] = NoBucket /\ buckets[j] # NoBucket /\ now >= buckets[j].resetAt
         /\ Stored(Swept(k, p)) \subseteq Stored(buckets)
<1>0. buckets \in [Keys -> Bucket \cup {NoBucket}]
  BY DEF TypeOK
<1> DEFINE Ok(B) ==
      /\ B \in [Keys -> Bucket \cup {NoBucket}]
      /\ \A j \in Keys :
           \/ B[j] = buckets[j]
           \/ B[j] = NoBucket /\ buckets[j] # NoBucket /\ now >= buckets[j].resetAt
<1>1. Ok(CleanedUp)
  BY <1>0 DEF CleanedUp, RemoveExpired, Expired
<1>2. ASSUME NEW B, Ok(B) PROVE Ok(RemoveExpired(B))
  BY <1>2 DEF RemoveExpired, Expired
<1> HIDE DEF Ok
<1>3. Ok(Swept(k, p))
  BY <1>1, <1>2 DEF Swept, MakeRoom
<1> QED
  BY <1>3 DEF Ok, Stored

\* When there is no room after that, every bucket's window is running.
LEMMA NoRoomMeansAllRunning ==
  ASSUME TypeOK, NEW k \in Keys, NEW p \in Policies, ~HasRoom(Swept(k, p), k)
  PROVE  \A j \in Stored(Swept(k, p)) : now < Swept(k, p)[j].resetAt
<1>1. MustCreate(CleanedUp[k], p)
  BY DEF Swept, HasRoom, MustCreate
<1>2. Swept(k, p) = RemoveExpired(CleanedUp)
  BY <1>1, StoredIsFinite, LimiterAssumption DEF Swept, MakeRoom, HasRoom
<1>3. \A j \in Keys : Swept(k, p)[j] # NoBucket => Swept(k, p)[j] = buckets[j] /\ ~Expired(buckets[j])
  BY <1>2, SweepDropsExpired DEF RemoveExpired
<1>4. \A j \in Keys : buckets[j] # NoBucket => (~Expired(buckets[j]) => now < buckets[j].resetAt)
  BY LimiterFields DEF Expired
<1> QED
  BY <1>3, <1>4 DEF Stored

LEMMA MemoryInvInit == Init => MemoryInv
<1> SUFFICES ASSUME Init PROVE MemoryInv
  OBVIOUS
<1> USE DEF Init
<1>1. PICK p \in Policies : spent = [k \in Keys |-> [policy |-> p, start |-> 0, count |-> 0]]
  OBVIOUS
<1>2. TypeOK
  BY <1>1, LimiterAssumption DEF TypeOK, Outcomes, Account
<1>3. \A k \in Keys : AccountInv(k)
  BY <1>1, LimiterAssumption DEF AccountInv
<1>4. Stored(buckets) = {}
  BY DEF Stored
<1>5. Cardinality(Stored(buckets)) <= MaxBuckets
  BY <1>4, FS_EmptySet, LimiterAssumption
<1> QED
  BY <1>2, <1>3, <1>5 DEF MemoryInv

\* Time passes: a window that is still running is still the same one.
LEMMA MemoryTick ==
  ASSUME MemoryInv, Tick
  PROVE  MemoryInv'
<1>1. TypeOK'
  BY LimiterAssumption DEF MemoryInv, TypeOK, Tick
<1>2. ASSUME NEW k \in Keys PROVE AccountInv(k)'
  <2>1. AccountInv(k) /\ TypeOK
    BY DEF MemoryInv
  <2>2. /\ now' = now + 1 /\ buckets' = buckets /\ spent' = spent
        /\ now \in Nat /\ spent[k].start \in Nat /\ spent[k].count \in Nat
        /\ spent[k].policy \in Policies
        /\ buckets[k] # NoBucket => buckets[k].policy \in Policies /\ buckets[k].resetAt \in Nat
        /\ \A p \in Policies : p.requests \in Nat /\ p.window \in Nat \ {0}
    BY <2>1, LimiterFields DEF Tick
  <2>3. ASSUME buckets[k] # NoBucket, now + 1 < buckets[k].resetAt
        PROVE  WindowStart(now + 1, buckets[k].policy.window) = spent[k].start
    <3>1. /\ spent[k].start = WindowStart(now, buckets[k].policy.window)
          /\ now + 1 < spent[k].start + buckets[k].policy.window
      BY <2>1, <2>2, <2>3 DEF AccountInv
    <3> QED
      BY <2>2, <2>3, <3>1, WindowStays
  <2> QED
    BY <2>1, <2>2, <2>3 DEF AccountInv
<1>3. Cardinality(Stored(buckets))' <= MaxBuckets
  BY DEF MemoryInv, Tick
<1> QED
  BY <1>1, <1>2, <1>3 DEF MemoryInv

\* A swept bucket that is not counted in keeps its account as it was.
LEMMA OthersKeepTheirAccounts ==
  ASSUME MemoryInv, NEW k \in Keys, NEW p \in Policies, NEW j \in Keys,
         buckets'[j] = Swept(k, p)[j], spent'[j] = spent[j], now' = now
  PROVE  AccountInv(j)'
<1>1. AccountInv(j) /\ TypeOK
  BY DEF MemoryInv
<1>2. \/ Swept(k, p)[j] = buckets[j]
      \/ Swept(k, p)[j] = NoBucket /\ buckets[j] # NoBucket /\ now >= buckets[j].resetAt
  BY <1>1, SweepDropsExpired
<1>3. now \in Nat /\ (buckets[j] # NoBucket => buckets[j].resetAt \in Nat)
  BY <1>1, LimiterFields
<1> QED
  BY <1>1, <1>2, <1>3 DEF AccountInv

\* The bucket that check() counts in agrees with the account it continues: a
\* new one is made only when nothing was granted in this window under p.
LEMMA OpenedAgrees ==
  ASSUME MemoryInv, NEW k \in Keys, NEW p \in Policies
  PROVE  LET b == Opened(Swept(k, p), k, p) IN
         /\ b \in Bucket /\ b.policy = p /\ b.count \in Nat /\ b.count <= p.requests
         /\ now < b.resetAt /\ b.resetAt = WindowStart(now, p.window) + p.window
         /\ \A n \in Nat : Charged(k, p, n) =
              [policy |-> p, start |-> WindowStart(now, p.window), count |-> n + b.count]
<1> DEFINE B == Swept(k, p)
           b == Opened(B, k, p)
           start == WindowStart(now, p.window)
<1>0. TypeOK /\ AccountInv(k)
  BY DEF MemoryInv
<1>1. /\ now \in Nat /\ p.window \in Nat \ {0} /\ p.requests \in Nat \ {0}
      /\ spent[k].start \in Nat /\ spent[k].count \in Nat /\ spent[k].policy \in Policies
      /\ buckets[k] # NoBucket => buckets[k] \in Bucket /\ buckets[k].count \in Nat
                                  /\ buckets[k].policy \in Policies /\ buckets[k].resetAt \in Nat
  BY <1>0, LimiterFields
<1>2. start \in Nat /\ start <= now /\ now < start + p.window
  BY <1>1, WindowContains
<1>3. \/ B[k] = buckets[k]
      \/ B[k] = NoBucket /\ buckets[k] # NoBucket /\ now >= buckets[k].resetAt
  BY <1>0, SweepDropsExpired
<1> HIDE DEF B, start
<1>4. CASE MustCreate(B[k], p)
  <2>1. b = [count |-> 0, policy |-> p, resetAt |-> start + p.window]
    BY <1>4 DEF Opened, ResetAt, start
  <2>2. b \in Bucket /\ b.policy = p /\ b.count = 0 /\ b.resetAt = start + p.window
    BY <1>1, <1>2, <2>1 DEF Bucket
  <2>3. spent[k].policy = p /\ spent[k].start = start => spent[k].count = 0
    <3> SUFFICES ASSUME spent[k].policy = p, spent[k].start = start, spent[k].count # 0
                 PROVE  FALSE
      OBVIOUS
    <3>1. buckets[k] # NoBucket /\ now < buckets[k].resetAt
      BY <1>0, <1>1, <1>2 DEF AccountInv
    <3>2. buckets[k].policy = p
      BY <1>0, <3>1 DEF AccountInv
    <3>3. B[k] = buckets[k]
      BY <1>1, <1>3, <3>1
    <3> QED
      BY <1>1, <1>4, <3>1, <3>2, <3>3 DEF MustCreate, Expired
  <2>4. \A n \in Nat : Charged(k, p, n) = [policy |-> p, start |-> start, count |-> n + b.count]
    <3> TAKE n \in Nat
    <3>1. n + (IF spent[k].policy = p /\ spent[k].start = start THEN spent[k].count ELSE 0)
            = n + b.count
      BY <2>2, <2>3
    <3> QED
      BY <3>1 DEF Charged, start
  <2> QED
    BY <1>1, <1>2, <2>2, <2>4 DEF B, start
<1>5. CASE ~MustCreate(B[k], p)
  <2>1. B[k] = buckets[k] /\ buckets[k] # NoBucket /\ now < buckets[k].resetAt
        /\ buckets[k].policy = p /\ b = buckets[k]
    BY <1>1, <1>3, <1>5 DEF MustCreate, Expired, Opened
  <2>2. /\ spent[k].policy = p /\ spent[k].start = start /\ spent[k].count = b.count
        /\ b.resetAt = start + p.window /\ b.count <= p.requests
    BY <1>0, <2>1 DEF AccountInv, start
  <2>3. \A n \in Nat : Charged(k, p, n) = [policy |-> p, start |-> start, count |-> n + b.count]
    BY <2>2 DEF Charged, start
  <2> QED
    BY <1>1, <2>1, <2>2, <2>3 DEF B, start
<1> QED
  BY <1>4, <1>5

\* The three ways check() ends, with its local definitions by name.
LEMMA CheckEnds ==
  ASSUME NEW k \in Keys, NEW p \in Policies, Check(k, p)
  PROVE  LET B == Swept(k, p)
             b == Opened(B, k, p)
         IN
         /\ now' = now
         /\ nextCleanupAt' = IF now >= nextCleanupAt THEN now + CleanupInterval ELSE nextCleanupAt
         /\ \/ /\ ~HasRoom(B, k) /\ buckets' = B /\ outcome' = "exhausted" /\ spent' = spent
            \/ /\ HasRoom(B, k) /\ b.count >= b.policy.requests
               /\ buckets' = [B EXCEPT ![k] = b] /\ outcome' = "limited"
               /\ spent' = [spent EXCEPT ![k] = Charged(k, p, 0)]
            \/ /\ HasRoom(B, k) /\ b.count < b.policy.requests
               /\ buckets' = [B EXCEPT ![k] = [b EXCEPT !.count = @ + 1]] /\ outcome' = "allowed"
               /\ spent' = [spent EXCEPT ![k] = Charged(k, p, 1)]
BY Zenon DEF Check, Swept

\* check() preserves the invariant, counts at most up to the limit and stores
\* at most one bucket more.
LEMMA MemoryCheck ==
  ASSUME MemoryInv, NEW k \in Keys, NEW p \in Policies, Check(k, p)
  PROVE  MemoryInv'
<1> DEFINE B == Swept(k, p)
           b == Opened(B, k, p)
           start == WindowStart(now, p.window)
<1>0. TypeOK /\ now' = now
  BY CheckEnds DEF MemoryInv
<1>1. /\ now \in Nat /\ p.window \in Nat \ {0} /\ p.requests \in Nat \ {0}
      /\ start \in Nat /\ start <= now /\ now < start + p.window
  BY <1>0, LimiterFields, WindowContains
<1>2. B \in [Keys -> Bucket \cup {NoBucket}] /\ Stored(B) \subseteq Stored(buckets)
  BY <1>0, SweepDropsExpired
<1>3. /\ b \in Bucket /\ b.policy = p /\ b.count \in Nat /\ b.count <= p.requests
      /\ b.resetAt = start + p.window
      /\ \A n \in Nat : Charged(k, p, n) = [policy |-> p, start |-> start, count |-> n + b.count]
  BY OpenedAgrees
<1>4. Cardinality(Stored(B)) <= MaxBuckets /\ Cardinality(Stored(B)) \in Nat
  <2>1. Cardinality(Stored(B)) <= Cardinality(Stored(buckets))
    BY <1>2, StoredIsFinite
  <2> QED
    BY <2>1, StoredIsFinite, LimiterAssumption DEF MemoryInv
<1>5. nextCleanupAt' \in Nat /\ outcome' \in Outcomes
  BY <1>0, <1>1, CheckEnds, LimiterAssumption DEF TypeOK, Outcomes
<1> HIDE DEF B, b, start
<1>6. CASE ~HasRoom(B, k) /\ buckets' = B /\ spent' = spent
  <2>1. TypeOK'
    BY <1>0, <1>2, <1>5, <1>6 DEF TypeOK
  <2>2. \A j \in Keys : AccountInv(j)'
    BY <1>0, <1>6, OthersKeepTheirAccounts DEF B
  <2> QED
    BY <1>4, <1>6, <2>1, <2>2 DEF MemoryInv
<1>7. ASSUME NEW n \in {0, 1}, NEW c \in Bucket, HasRoom(B, k), b.count + n <= p.requests,
             c.policy = p, c.resetAt = b.resetAt, c.count = b.count + n,
             buckets' = [B EXCEPT ![k] = c],
             spent' = [spent EXCEPT ![k] = Charged(k, p, n)]
      PROVE  MemoryInv'
  <2>1. spent \in [Keys -> Account] /\ buckets'[k] = c /\ c # NoBucket
    BY <1>0, <1>2, <1>7, NoBucketAssumption DEF TypeOK
  <2>2. /\ spent'[k].policy = p /\ spent'[k].start = start /\ spent'[k].count = b.count + n
        /\ spent'[k] \in Account
    <3>1. spent'[k] = [policy |-> p, start |-> start, count |-> n + b.count]
      BY <1>3, <1>7, <2>1
    <3>2. n + b.count = b.count + n /\ n + b.count \in Nat
      BY <1>3
    <3> QED
      BY <1>1, <3>1, <3>2 DEF Account
  <2>3. TypeOK'
    <3>1. buckets' \in [Keys -> Bucket \cup {NoBucket}]
      BY <1>2, <1>7
    <3>2. spent' \in [Keys -> Account]
      BY <1>7, <2>1, <2>2
    <3> QED
      BY <1>0, <1>5, <3>1, <3>2 DEF TypeOK
  <2>4. AccountInv(k)'
    BY <1>0, <1>1, <1>3, <1>7, <2>1, <2>2 DEF AccountInv, start
  <2>5. ASSUME NEW j \in Keys, j # k PROVE AccountInv(j)'
    <3>1. buckets'[j] = B[j] /\ spent'[j] = spent[j]
      BY <1>2, <1>7, <2>1, <2>5
    <3> QED
      BY <1>0, <3>1, OthersKeepTheirAccounts DEF B
  <2>6. Cardinality(Stored(buckets')) <= MaxBuckets
    <3>1. Stored(buckets') = Stored(B) \cup {k}
      BY <1>2, <1>7, <2>1 DEF Stored
    <3>2. Cardinality(Stored(B) \cup {k}) =
            IF k \in Stored(B) THEN Cardinality(Stored(B)) ELSE Cardinality(Stored(B)) + 1
      BY StoredIsFinite, FS_AddElement
    <3>3. k \in Stored(B) \/ Cardinality(Stored(B)) < MaxBuckets
      BY <1>7 DEF HasRoom, Stored
    <3> QED
      BY <1>4, <3>1, <3>2, <3>3, LimiterAssumption
  <2> QED
    BY <2>3, <2>4, <2>5, <2>6 DEF MemoryInv
<1>8. CASE /\ HasRoom(B, k) /\ b.count >= b.policy.requests
           /\ buckets' = [B EXCEPT ![k] = b] /\ spent' = [spent EXCEPT ![k] = Charged(k, p, 0)]
  <2>1. 0 \in {0, 1} /\ b.count + 0 <= p.requests /\ b.count = b.count + 0
    BY <1>1, <1>3
  <2> QED
    BY <1>3, <1>7, <1>8, <2>1, Zenon
<1>9. CASE /\ HasRoom(B, k) /\ b.count < b.policy.requests
           /\ buckets' = [B EXCEPT ![k] = [b EXCEPT !.count = @ + 1]]
           /\ spent' = [spent EXCEPT ![k] = Charged(k, p, 1)]
  <2> DEFINE c == [b EXCEPT !.count = @ + 1]
  <2>1. c \in Bucket /\ c.policy = p /\ c.resetAt = b.resetAt /\ c.count = b.count + 1
    BY <1>3 DEF Bucket
  <2>2. b.count + 1 <= p.requests
    BY <1>1, <1>3, <1>9
  <2> QED
    BY <1>7, <1>9, <2>1, <2>2
<1> QED
  BY <1>6, <1>8, <1>9, CheckEnds DEF B, b

LEMMA MemoryInvNext == MemoryInv /\ [Next]_vars => MemoryInv'
<1> SUFFICES ASSUME MemoryInv, [Next]_vars PROVE MemoryInv'
  OBVIOUS
<1>1. CASE UNCHANGED vars
  BY <1>1 DEF vars, MemoryInv, TypeOK, AccountInv
<1> QED
  BY <1>1, MemoryTick, MemoryCheck DEF Next

\* What one step of check() may do: the map stays within its bound, is called
\* full only when all of it is in use, and a request is limited only when its
\* key has spent what p grants.
LEMMA CapacityStep ==
  ASSUME MemoryInv, [Next]_vars, vars' # vars
  PROVE  /\ Cardinality(Stored(buckets')) <= MaxBuckets
         /\ now' = now /\ outcome' = "exhausted" =>
              \A k \in Stored(buckets') : buckets'[k].resetAt > now
<1>1. Cardinality(Stored(buckets')) <= MaxBuckets
  BY MemoryInvNext DEF MemoryInv
<1>2. CASE Tick
  <2>1. now' # now
    BY <1>2, LimiterAssumption DEF Tick, MemoryInv, TypeOK
  <2> QED
    BY <1>1, <2>1
<1>3. ASSUME NEW k \in Keys, NEW p \in Policies, Check(k, p), outcome' = "exhausted"
      PROVE  \A j \in Stored(buckets') : buckets'[j].resetAt > now
  <2>1. ~HasRoom(Swept(k, p), k) /\ buckets' = Swept(k, p)
    BY <1>3, CheckEnds
  <2>2. \A j \in Stored(buckets') : now < buckets'[j].resetAt
    BY <2>1, NoRoomMeansAllRunning DEF MemoryInv
  <2>3. buckets' \in [Keys -> Bucket \cup {NoBucket}] /\ now \in Nat
    BY MemoryInvNext, LimiterAssumption DEF MemoryInv, TypeOK
  <2>4. \A j \in Stored(buckets') : buckets'[j].resetAt \in Nat
    BY <2>3 DEF Stored, Bucket
  <2> QED
    BY <2>2, <2>3, <2>4
<1> QED
  BY <1>1, <1>2, <1>3 DEF Next

LEMMA LimitedStep ==
  ASSUME MemoryInv, NEW k \in Keys, NEW p \in Policies, Check(k, p), outcome' = "limited"
  PROVE  spent'[k].count = p.requests
<1> DEFINE b == Opened(Swept(k, p), k, p)
<1>1. /\ b.policy = p /\ b.count \in Nat /\ b.count <= p.requests
      /\ \A n \in Nat : Charged(k, p, n) =
           [policy |-> p, start |-> WindowStart(now, p.window), count |-> n + b.count]
  BY OpenedAgrees
<1>2. b.count >= b.policy.requests /\ spent' = [spent EXCEPT ![k] = Charged(k, p, 0)]
  BY CheckEnds
<1> HIDE DEF b
<1>3. p.requests \in Nat /\ spent \in [Keys -> Account]
  BY LimiterFields DEF MemoryInv, TypeOK
<1>4. spent'[k].count = 0 + b.count
  BY <1>1, <1>2, <1>3
<1> QED
  BY <1>1, <1>2, <1>3, <1>4

-----------------------------------------------------------------------------
(* What holds of the limiter in memory                                     *)

\* A step of the runtime is one of the limiter in memory or leaves it alone.
LEMMA RuntimeToMemory ==
  [RateLimitNext]_<<backend, vars, redisVars>> => [Next]_vars
BY DEF RateLimitNext, MemoryStep, RedisStep

LEMMA MemoryInvHolds == RateLimitSpec => []MemoryInv
<1>1. RateLimitInit => MemoryInv
  BY MemoryInvInit DEF RateLimitInit
<1>2. MemoryInv /\ [RateLimitNext]_<<backend, vars, redisVars>> => MemoryInv'
  BY MemoryInvNext, RuntimeToMemory
<1> QED
  BY <1>1, <1>2, PTL DEF RateLimitSpec

\* The state of the limiter in memory has its types.
THEOREM MemoryTypeCorrect == RateLimitSpec => []TypeOK
<1>1. MemoryInv => TypeOK
  BY DEF MemoryInv
<1> QED
  BY <1>1, MemoryInvHolds, PTL

\* No key exceeds its policy's limit in a window, for any clean-up interval,
\* capacity, policies and clock.
THEOREM MemoryLimitHolds == RateLimitSpec => []LimitHolds
<1>1. MemoryInv => LimitHolds
  BY DEF MemoryInv, AccountInv, LimitHolds
<1> QED
  BY <1>1, MemoryInvHolds, PTL

\* The map of buckets never outgrows its bound, and turns a request away only
\* when every bucket's window is running.
THEOREM MemoryCapacityIsExact == RateLimitSpec => CapacityIsExact
<1>1. MemoryInv /\ [RateLimitNext]_<<backend, vars, redisVars>> =>
        [/\ Cardinality(Stored(buckets')) <= MaxBuckets
         /\ now' = now /\ outcome' = "exhausted" =>
              \A k \in Stored(buckets') : buckets'[k].resetAt > now]_vars
  BY CapacityStep, RuntimeToMemory
<1> QED
  BY <1>1, MemoryInvHolds, PTL DEF RateLimitSpec, CapacityIsExact

\* A request is limited only when its own key has used up its policy's limit.
THEOREM MemoryLimitsOnlyTheSpent == RateLimitSpec => LimitedOnlyWhenSpent
<1>1. MemoryInv /\ [RateLimitNext]_<<backend, vars, redisVars>> =>
        [\A k \in Keys, p \in Policies :
           Check(k, p) /\ outcome' = "limited" => spent'[k].count = p.requests]_vars
  BY LimitedStep
<1> QED
  BY <1>1, MemoryInvHolds, PTL DEF RateLimitSpec, LimitedOnlyWhenSpent

-----------------------------------------------------------------------------
(* The limiter in Redis, with one policy at all replicas                   *)

\* The start of the window in which Redis is now.
RedisWindow(p) == Redis!WindowStart(p.window)

\* A grant of the script that has not been replied to yet.
Holds(call, k, s) ==
  call # NoCall /\ call.phase = "executed" /\ call.allowed /\ call.key = k /\ call.start = s

Pending(k, s) == {c \in Checks : Holds(calls[c], k, s)}

\* All that the script has granted and that was or may still be let through.
Granted(k, s) == admitted[k][s] + Cardinality(Pending(k, s))

\* What Redis stores for k is of the running window.
EntryInv(p, k) ==
  entries[k] # NoEntry =>
    /\ entries[k].start = RedisWindow(p)
    /\ entries[k].expiresAt = RedisWindow(p) + p.window
    /\ entries[k].count <= p.requests

\* In the running window the stored count covers all grants, in later ones there
\* are none yet, and what was granted earlier was within the limit.
GrantInv(p, k, s) ==
  /\ Granted(k, s) <= p.requests
  /\ s > RedisWindow(p) => Granted(k, s) = 0
  /\ s = RedisWindow(p) => Granted(k, s) <= IF entries[k] = NoEntry THEN 0 ELSE entries[k].count

RedisInv(p) ==
  /\ Redis!TypeOK
  /\ \A c \in Checks : calls[c] # NoCall => calls[c].start \in 0 .. MaxTime
  /\ \A k \in ReplicaKeys : EntryInv(p, k)
  /\ \A k \in ReplicaKeys, s \in 0 .. MaxTime : GrantInv(p, k, s)

\* Redis aligns its windows as the limiter in memory does, by other arithmetic.
LEMMA SameWindows ==
  ASSUME clock \in Nat, NEW w \in Nat \ {0}
  PROVE  Redis!WindowStart(w) = WindowStart(clock, w)
BY DEF Redis!WindowStart, WindowStart

\* The window of Redis, and what becomes of it when time passes.
LEMMA RedisWindowMoves ==
  ASSUME clock \in Nat, NEW p, p.window \in Nat \ {0}
  PROVE  /\ RedisWindow(p) \in Nat /\ RedisWindow(p) <= clock
         /\ clock < RedisWindow(p) + p.window
         /\ clock' = clock + 1 =>
              IF clock + 1 < RedisWindow(p) + p.window
              THEN RedisWindow(p)' = RedisWindow(p)
              ELSE RedisWindow(p)' > RedisWindow(p)
<1> DEFINE w == p.window
<1>1. /\ RedisWindow(p) = WindowStart(clock, w)
      /\ RedisWindow(p) \in Nat /\ RedisWindow(p) <= clock /\ clock < RedisWindow(p) + w
  BY SameWindows, WindowContains DEF RedisWindow
<1>2. ASSUME clock' = clock + 1
      PROVE  IF clock + 1 < RedisWindow(p) + w
             THEN RedisWindow(p)' = RedisWindow(p)
             ELSE RedisWindow(p)' > RedisWindow(p)
  <2>1. RedisWindow(p)' = WindowStart(clock + 1, w)
    BY <1>2 DEF RedisWindow, Redis!WindowStart, WindowStart
  <2>2. CASE clock + 1 < RedisWindow(p) + w
    BY <1>1, <2>1, <2>2, WindowStays
  <2>3. CASE ~(clock + 1 < RedisWindow(p) + w)
    <3>1. clock + 1 < WindowStart(clock + 1, w) + w /\ WindowStart(clock + 1, w) \in Nat
      BY WindowContains
    <3> QED
      BY <1>1, <2>1, <2>3, <3>1
  <2> QED
    BY <2>2, <2>3
<1> QED
  BY <1>1, <1>2

\* The grants pending are finitely many.
LEMMA PendingIsFinite ==
  ASSUME NEW k, NEW s
  PROVE  IsFiniteSet(Pending(k, s)) /\ Cardinality(Pending(k, s)) \in Nat
<1>1. Pending(k, s) \in SUBSET Checks
  BY DEF Pending
<1> QED
  BY <1>1, FS_Subset, FS_CardinalityType, RedisAssumption

\* A call changes: it is pending for its own key and window or not at all.
LEMMA PendingChange ==
  ASSUME NEW c \in Checks, NEW k, NEW s,
         \A d \in Checks : d # c => calls'[d] = calls[d]
  PROVE  /\ Cardinality(Pending(k, s)') \in Nat
         /\ Holds(calls'[c], k, s) /\ ~Holds(calls[c], k, s) =>
              Cardinality(Pending(k, s)') = Cardinality(Pending(k, s)) + 1
         /\ ~Holds(calls'[c], k, s) /\ Holds(calls[c], k, s) =>
              Cardinality(Pending(k, s)') = Cardinality(Pending(k, s)) - 1
         /\ (Holds(calls'[c], k, s) <=> Holds(calls[c], k, s)) =>
              Cardinality(Pending(k, s)') = Cardinality(Pending(k, s))
<1> DEFINE P == Pending(k, s)
           Q == Pending(k, s)'
<1>1. Q = {d \in Checks : Holds(calls'[d], k, s)}
  BY DEF Pending, Holds
<1>2. P = {d \in Checks : Holds(calls[d], k, s)}
  BY DEF Pending
<1>3. IsFiniteSet(P) /\ Cardinality(P) \in Nat
  BY PendingIsFinite
<1>4. Q \in SUBSET Checks
  BY <1>1
<1> HIDE DEF P, Q
<1>5. Cardinality(Q) \in Nat
  BY <1>4, FS_Subset, FS_CardinalityType, RedisAssumption
<1>6. ASSUME Holds(calls'[c], k, s), ~Holds(calls[c], k, s)
      PROVE  Cardinality(Q) = Cardinality(P) + 1
  <2>1. Q = P \cup {c} /\ c \notin P
    BY <1>1, <1>2, <1>6
  <2>2. Cardinality(P \cup {c}) = Cardinality(P) + 1
    BY <1>3, <2>1, FS_AddElement
  <2> QED
    BY <2>1, <2>2
<1>7. ASSUME ~Holds(calls'[c], k, s), Holds(calls[c], k, s)
      PROVE  Cardinality(Q) = Cardinality(P) - 1
  <2>1. Q = P \ {c} /\ c \in P
    BY <1>1, <1>2, <1>7
  <2>2. Cardinality(P \ {c}) = Cardinality(P) - 1
    BY <1>3, <2>1, FS_RemoveElement
  <2> QED
    BY <2>1, <2>2
<1>8. ASSUME Holds(calls'[c], k, s) <=> Holds(calls[c], k, s)
      PROVE  Q = P
  BY <1>1, <1>2, <1>8
<1> QED
  BY <1>5, <1>6, <1>7, <1>8 DEF P, Q

\* What is granted is a number.
LEMMA GrantedIsNatural ==
  ASSUME Redis!TypeOK, NEW k \in ReplicaKeys, NEW s \in 0 .. MaxTime
  PROVE  admitted[k][s] \in Nat /\ Granted(k, s) \in Nat /\ admitted[k][s] <= Granted(k, s)
<1>1. admitted[k][s] \in Nat
  BY DEF Redis!TypeOK
<1> QED
  BY <1>1, PendingIsFinite DEF Granted

\* At first nothing is stored, under way or granted.
LEMMA RedisInvInit ==
  ASSUME NEW p, ReplicaPolicies = {p}, Redis!Init
  PROVE  RedisInv(p)
<1>1. p.requests \in Nat /\ p.window \in Nat \ {0}
  BY ReplicaAssumption
<1>2. Redis!TypeOK
  BY LimiterAssumption DEF Redis!TypeOK, Redis!Init
<1>3. ASSUME NEW k \in ReplicaKeys, NEW s \in 0 .. MaxTime
      PROVE  Granted(k, s) = 0
  <2>1. Pending(k, s) = {}
    BY DEF Pending, Holds, Redis!Init
  <2> QED
    BY <2>1, FS_EmptySet DEF Granted, Redis!Init
<1>4. \A k \in ReplicaKeys : entries[k] = NoEntry
  BY DEF Redis!Init
<1>5. \A c \in Checks : calls[c] = NoCall
  BY DEF Redis!Init
<1> QED
  BY <1>1, <1>2, <1>3, <1>4, <1>5 DEF RedisInv, EntryInv, GrantInv

\* A step that leaves the store and the clock alone and grants nothing.
LEMMA NothingGranted ==
  ASSUME NEW p, ReplicaPolicies = {p}, RedisInv(p), clock' = clock, entries' = entries,
         Redis!TypeOK', \A c \in Checks : calls'[c] # NoCall => calls'[c].start \in 0 .. MaxTime,
         \A k \in ReplicaKeys, s \in 0 .. MaxTime :
           Granted(k, s)' \in Nat /\ Granted(k, s)' <= Granted(k, s)
  PROVE  RedisInv(p)'
<1>1. RedisWindow(p)' = RedisWindow(p)
  BY DEF RedisWindow, Redis!WindowStart
<1>2. ASSUME NEW k \in ReplicaKeys PROVE EntryInv(p, k)'
  BY <1>1 DEF RedisInv, EntryInv
<1>3. ASSUME NEW k \in ReplicaKeys, NEW s \in 0 .. MaxTime PROVE GrantInv(p, k, s)'
  <2>1. Granted(k, s)' \in Nat /\ Granted(k, s)' <= Granted(k, s)
    OBVIOUS
  <2>2. Granted(k, s) \in Nat /\ GrantInv(p, k, s)
    BY GrantedIsNatural DEF RedisInv
  <2>3. p.requests \in Nat /\ entries[k] \in Redis!Entry \cup {NoEntry}
    BY ReplicaAssumption DEF RedisInv, Redis!TypeOK
  <2>4. entries[k] # NoEntry => entries[k].count \in Nat
    BY <2>3 DEF Redis!Entry
  <2>5. Granted(k, s)' <= p.requests
    BY <2>1, <2>2, <2>3 DEF GrantInv
  <2>6. s > RedisWindow(p)' => Granted(k, s)' = 0
    BY <1>1, <2>1, <2>2 DEF GrantInv
  <2>7. s = RedisWindow(p)' =>
          Granted(k, s)' <= IF entries'[k] = NoEntry THEN 0 ELSE entries'[k].count
    BY <1>1, <2>1, <2>2, <2>4 DEF GrantInv
  <2> QED
    BY <2>5, <2>6, <2>7 DEF GrantInv
<1> QED
  BY <1>2, <1>3 DEF RedisInv

\* What the calls and the entries consist of, with the one policy p.
LEMMA RedisFields ==
  ASSUME NEW p, ReplicaPolicies = {p}, RedisInv(p)
  PROVE  /\ clock \in Nat /\ p.requests \in Nat \ {0} /\ p.window \in Nat \ {0}
         /\ \A c \in Checks : calls[c] # NoCall =>
              /\ calls[c] \in Redis!Call /\ calls[c].key \in ReplicaKeys
              /\ calls[c].policy = p /\ calls[c].start \in 0 .. MaxTime
         /\ \A k \in ReplicaKeys : entries[k] # NoEntry =>
              /\ entries[k] \in Redis!Entry /\ entries[k].policy = p
              /\ entries[k].count \in Nat
BY ReplicaAssumption, LimiterAssumption DEF RedisInv, Redis!TypeOK, Redis!Call, Redis!Entry

\* A call ends, or changes without being executed.
LEMMA CallEnds ==
  ASSUME NEW p, ReplicaPolicies = {p}, RedisInv(p), clock' = clock, entries' = entries,
         admitted' = admitted, NEW c \in Checks,
         NEW call \in Redis!Call \cup {NoCall},
         calls' = [calls EXCEPT ![c] = call],
         call # NoCall => call.phase # "executed" /\ call.start \in 0 .. MaxTime
  PROVE  RedisInv(p)'
<1>1. calls' \in [Checks -> Redis!Call \cup {NoCall}] /\ calls'[c] = call
      /\ \A d \in Checks : d # c => calls'[d] = calls[d]
  BY DEF RedisInv, Redis!TypeOK
<1>2. Redis!TypeOK'
  BY <1>1 DEF RedisInv, Redis!TypeOK
<1>3. \A d \in Checks : calls'[d] # NoCall => calls'[d].start \in 0 .. MaxTime
  BY <1>1 DEF RedisInv
<1>4. ASSUME NEW k \in ReplicaKeys, NEW s \in 0 .. MaxTime
      PROVE  Granted(k, s)' \in Nat /\ Granted(k, s)' <= Granted(k, s)
  <2>1. ~Holds(calls'[c], k, s)
    BY <1>1 DEF Holds
  <2>2. Cardinality(Pending(k, s)') \in Nat /\ Cardinality(Pending(k, s)) \in Nat
        /\ Cardinality(Pending(k, s)') <= Cardinality(Pending(k, s))
    BY <1>1, <2>1, PendingChange, PendingIsFinite
  <2>3. admitted[k][s] \in Nat /\ admitted'[k][s] = admitted[k][s]
    BY GrantedIsNatural DEF RedisInv
  <2> QED
    BY <2>2, <2>3 DEF Granted
<1> QED
  BY <1>2, <1>3, <1>4, NothingGranted

\* A reply that arrives turns a pending grant into a request let through.
LEMMA ReplyKeeps ==
  ASSUME NEW p, ReplicaPolicies = {p}, RedisInv(p), NEW c \in Checks, Redis!Reply(c)
  PROVE  RedisInv(p)'
<1> USE DEF Redis!Reply
<1>1. CASE ~calls[c].allowed
  BY <1>1, CallEnds
<1>2. CASE calls[c].allowed
  <2> DEFINE kc == calls[c].key
             sc == calls[c].start
  <2>1. kc \in ReplicaKeys /\ sc \in 0 .. MaxTime
    BY RedisFields
  <2>2. calls' \in [Checks -> Redis!Call \cup {NoCall}] /\ calls'[c] = NoCall
        /\ \A d \in Checks : d # c => calls'[d] = calls[d]
    BY DEF RedisInv, Redis!TypeOK
  <2>3. admitted \in [ReplicaKeys -> [0 .. MaxTime -> Nat]]
    BY DEF RedisInv, Redis!TypeOK
  <2>4. admitted' = [admitted EXCEPT ![kc] = [admitted[kc] EXCEPT ![sc] = admitted[kc][sc] + 1]]
    BY <1>2
  <2> HIDE DEF kc, sc
  <2>5. /\ admitted' \in [ReplicaKeys -> [0 .. MaxTime -> Nat]]
        /\ \A k \in ReplicaKeys, s \in 0 .. MaxTime :
             admitted'[k][s] = IF k = kc /\ s = sc THEN admitted[k][s] + 1 ELSE admitted[k][s]
    <3> DEFINE old == admitted[kc]
               row == [old EXCEPT ![sc] = old[sc] + 1]
    <3>1. old \in [0 .. MaxTime -> Nat]
      BY <2>1, <2>3
    <3>2. admitted' = [admitted EXCEPT ![kc] = row]
      BY <2>4
    <3> HIDE DEF old
    <3>3. /\ row \in [0 .. MaxTime -> Nat]
          /\ \A s \in 0 .. MaxTime : row[s] = IF s = sc THEN old[s] + 1 ELSE old[s]
      <4>1. old[sc] + 1 \in Nat
        BY <2>1, <3>1
      <4> QED
        BY <2>1, <3>1, <4>1
    <3> HIDE DEF row
    <3>4. admitted' \in [ReplicaKeys -> [0 .. MaxTime -> Nat]]
          /\ \A k \in ReplicaKeys : admitted'[k] = IF k = kc THEN row ELSE admitted[k]
      BY <2>1, <2>3, <3>2, <3>3
    <3> QED
      BY <2>1, <3>3, <3>4 DEF old
  <2>6. Redis!TypeOK'
    BY <2>2, <2>5 DEF RedisInv, Redis!TypeOK
  <2>7. \A d \in Checks : calls'[d] # NoCall => calls'[d].start \in 0 .. MaxTime
    BY <2>2 DEF RedisInv
  <2>8. ASSUME NEW k \in ReplicaKeys, NEW s \in 0 .. MaxTime
        PROVE  Granted(k, s)' \in Nat /\ Granted(k, s)' <= Granted(k, s)
    <3>1. ~Holds(calls'[c], k, s) /\ (Holds(calls[c], k, s) <=> k = kc /\ s = sc)
      BY <1>2, <2>2 DEF Holds, kc, sc
    <3>2. admitted[k][s] \in Nat
      BY <2>3
    <3>3. Cardinality(Pending(k, s)) \in Nat
      BY PendingIsFinite
    <3>4. Cardinality(Pending(k, s)') \in Nat
      BY <2>2, PendingChange
    <3>5. Cardinality(Pending(k, s)') =
            IF k = kc /\ s = sc THEN Cardinality(Pending(k, s)) - 1 ELSE Cardinality(Pending(k, s))
      BY <2>2, <3>1, PendingChange
    <3>6. Granted(k, s)' = admitted'[k][s] + Cardinality(Pending(k, s)')
      BY DEF Granted
    <3> QED
      BY <2>5, <3>2, <3>3, <3>4, <3>5, <3>6 DEF Granted
  <2> QED
    BY <2>6, <2>7, <2>8, NothingGranted
<1> QED
  BY <1>1, <1>2

\* The script ran for key k with policy p.
Ran(p, k) == entries' = [entries EXCEPT ![k] = Redis!Stepped(@, p)]

\* What the script leaves: the window's entry, one higher if it grants.
LEMMA ScriptSteps ==
  ASSUME NEW p, ReplicaPolicies = {p}, RedisInv(p), NEW k \in ReplicaKeys, Ran(p, k),
         clock' = clock
  PROVE  LET count == IF entries[k] = NoEntry THEN 0 ELSE entries[k].count IN
         /\ entries' \in [ReplicaKeys -> Redis!Entry \cup {NoEntry}]
         /\ count \in Nat /\ count <= p.requests
         /\ Redis!Counted(entries[k], p) = count
         /\ \A j \in ReplicaKeys : EntryInv(p, j)'
         /\ entries'[k] # NoEntry
         /\ entries'[k].count = IF count < p.requests THEN count + 1 ELSE count
         /\ \A j \in ReplicaKeys : j # k => entries'[j] = entries[j]
<1> DEFINE count == IF entries[k] = NoEntry THEN 0 ELSE entries[k].count
           e == [start |-> RedisWindow(p), policy |-> p,
                 count |-> IF count < p.requests THEN count + 1 ELSE count,
                 expiresAt |-> RedisWindow(p) + p.window]
<1>1. /\ clock \in Nat /\ p.requests \in Nat \ {0} /\ p.window \in Nat \ {0}
      /\ RedisWindow(p) \in Nat /\ RedisWindow(p)' = RedisWindow(p)
  BY RedisFields, RedisWindowMoves DEF RedisWindow, Redis!WindowStart
<1>2. count \in Nat /\ count <= p.requests
  BY RedisFields DEF RedisInv, EntryInv
<1>3. Redis!Counted(entries[k], p) = count
  BY RedisFields DEF RedisInv, EntryInv, Redis!Counted, Redis!Stale, RedisWindow
<1>4. Redis!Stepped(entries[k], p) = e
  BY <1>3 DEF Redis!Stepped, Redis!Grants, RedisWindow
<1> HIDE DEF count
<1>5. e \in Redis!Entry /\ e # NoEntry
  BY <1>1, <1>2, RedisAssumption DEF Redis!Entry
<1>6. e.start = RedisWindow(p) /\ e.expiresAt = RedisWindow(p) + p.window
      /\ e.count = IF count < p.requests THEN count + 1 ELSE count
  OBVIOUS
<1> HIDE DEF e
<1>7. entries \in [ReplicaKeys -> Redis!Entry \cup {NoEntry}]
  BY DEF RedisInv, Redis!TypeOK
<1>8. /\ entries' \in [ReplicaKeys -> Redis!Entry \cup {NoEntry}]
      /\ entries'[k] = e /\ \A j \in ReplicaKeys : j # k => entries'[j] = entries[j]
  BY <1>4, <1>5, <1>7 DEF Ran
<1>9. ASSUME NEW j \in ReplicaKeys PROVE EntryInv(p, j)'
  <2>1. CASE j = k
    BY <1>1, <1>2, <1>5, <1>6, <1>8, <2>1 DEF EntryInv
  <2>2. CASE j # k
    BY <1>1, <1>8, <2>2 DEF RedisInv, EntryInv
  <2> QED
    BY <2>1, <2>2
<1> QED
  BY <1>2, <1>3, <1>5, <1>6, <1>8, <1>9 DEF count

\* The script runs; what it grants, if anything, is pending or goes to nobody.
LEMMA ScriptKeeps ==
  ASSUME NEW p, ReplicaPolicies = {p}, RedisInv(p), NEW c \in Checks,
         calls[c] # NoCall, calls[c].phase # "executed", Ran(p, calls[c].key),
         clock' = clock, admitted' = admitted,
         NEW call \in Redis!Call \cup {NoCall},
         calls' = [calls EXCEPT ![c] = call],
         call # NoCall =>
           /\ call.key = calls[c].key /\ call.start = RedisWindow(p)
           /\ call.allowed <=> Redis!Counted(entries[calls[c].key], p) < p.requests
  PROVE  RedisInv(p)'
<1> DEFINE kc == calls[c].key
           count == IF entries[kc] = NoEntry THEN 0 ELSE entries[kc].count
<1>1. kc \in ReplicaKeys
  BY RedisFields
<1>2. /\ p.requests \in Nat /\ RedisWindow(p) \in 0 .. MaxTime
      /\ RedisWindow(p)' = RedisWindow(p)
  <2>1. clock \in Nat /\ clock <= MaxTime /\ MaxTime \in Nat
    BY LimiterAssumption DEF RedisInv, Redis!TypeOK
  <2> QED
    BY <2>1, RedisFields, RedisWindowMoves DEF RedisWindow, Redis!WindowStart
<1>3. /\ entries' \in [ReplicaKeys -> Redis!Entry \cup {NoEntry}]
      /\ count \in Nat /\ count <= p.requests
      /\ Redis!Counted(entries[kc], p) = count
      /\ \A j \in ReplicaKeys : EntryInv(p, j)'
      /\ entries'[kc] # NoEntry
      /\ entries'[kc].count = IF count < p.requests THEN count + 1 ELSE count
      /\ \A j \in ReplicaKeys : j # kc => entries'[j] = entries[j]
  BY <1>1, ScriptSteps
<1>4. /\ calls' \in [Checks -> Redis!Call \cup {NoCall}] /\ calls'[c] = call
      /\ \A d \in Checks : d # c => calls'[d] = calls[d]
  BY DEF RedisInv, Redis!TypeOK
<1>5. Redis!TypeOK'
  BY <1>3, <1>4 DEF RedisInv, Redis!TypeOK
<1>6. \A d \in Checks : calls'[d] # NoCall => calls'[d].start \in 0 .. MaxTime
  BY <1>2, <1>4 DEF RedisInv
<1>7. ASSUME NEW k \in ReplicaKeys, NEW s \in 0 .. MaxTime PROVE GrantInv(p, k, s)'
  <2> DEFINE grants == k = kc /\ s = RedisWindow(p) /\ count < p.requests
  <2>1. ~Holds(calls[c], k, s) /\ (Holds(calls'[c], k, s) => grants)
    BY <1>3, <1>4 DEF Holds
  <2>2. Granted(k, s) \in Nat /\ GrantInv(p, k, s)
    BY GrantedIsNatural DEF RedisInv
  <2> HIDE DEF kc, count
  <2>3. /\ Granted(k, s)' \in Nat
        /\ \/ Granted(k, s)' = Granted(k, s)
           \/ grants /\ Granted(k, s)' = Granted(k, s) + 1
    <3> HIDE DEF grants
    <3>1. admitted[k][s] \in Nat /\ admitted'[k][s] = admitted[k][s]
      BY GrantedIsNatural DEF RedisInv
    <3>2. Cardinality(Pending(k, s)) \in Nat
      BY PendingIsFinite
    <3>3. \/ Cardinality(Pending(k, s)') = Cardinality(Pending(k, s))
          \/ grants /\ Cardinality(Pending(k, s)') = Cardinality(Pending(k, s)) + 1
      BY <1>4, <2>1, PendingChange
    <3>4. Granted(k, s)' = admitted[k][s] + Cardinality(Pending(k, s)')
      BY <3>1 DEF Granted
    <3>5. Granted(k, s) = admitted[k][s] + Cardinality(Pending(k, s))
      BY DEF Granted
    <3>6. ASSUME Cardinality(Pending(k, s)') = Cardinality(Pending(k, s))
          PROVE  Granted(k, s)' = Granted(k, s)
      BY <3>4, <3>5, <3>6
    <3>7. ASSUME Cardinality(Pending(k, s)') = Cardinality(Pending(k, s)) + 1
          PROVE  Granted(k, s)' = Granted(k, s) + 1
      BY <3>1, <3>2, <3>4, <3>5, <3>7
    <3>8. \/ Granted(k, s)' = Granted(k, s)
          \/ grants /\ Granted(k, s)' = Granted(k, s) + 1
      BY <3>3, <3>6, <3>7, Zenon
    <3>9. Granted(k, s)' = Granted(k, s) \/ Granted(k, s)' = Granted(k, s) + 1
      BY <3>8
    <3>10. Granted(k, s)' \in Nat
      BY <2>2, <3>9
    <3> QED
      BY <3>8, <3>10, Zenon
  <2>4. s = RedisWindow(p) /\ k = kc => Granted(k, s) <= count
    BY <2>2 DEF GrantInv, count
  <2>5. Granted(k, s)' <= p.requests
    BY <1>2, <1>3, <2>2, <2>3, <2>4 DEF GrantInv
  <2>6. s > RedisWindow(p)' => Granted(k, s)' = 0
    BY <1>2, <2>2, <2>3 DEF GrantInv
  <2>7. s = RedisWindow(p)' =>
          Granted(k, s)' <= IF entries'[k] = NoEntry THEN 0 ELSE entries'[k].count
    <3>1. CASE k = kc
      BY <1>2, <1>3, <2>2, <2>3, <2>4, <3>1
    <3>2. CASE k # kc
      BY <1>2, <1>3, <2>2, <2>3, <3>2 DEF GrantInv
    <3> QED
      BY <3>1, <3>2
  <2> QED
    BY <2>5, <2>6, <2>7 DEF GrantInv
<1> QED
  BY <1>3, <1>5, <1>6, <1>7 DEF RedisInv

\* Time passes: what is stored expires exactly when the window ends.
LEMMA TickKeeps ==
  ASSUME NEW p, ReplicaPolicies = {p}, RedisInv(p), Redis!Tick
  PROVE  RedisInv(p)'
<1> USE DEF Redis!Tick
<1>1. /\ clock \in Nat /\ clock' = clock + 1 /\ p.requests \in Nat \ {0}
      /\ p.window \in Nat \ {0}
  BY RedisFields
<1>2. /\ RedisWindow(p) \in Nat /\ RedisWindow(p) <= clock
      /\ clock < RedisWindow(p) + p.window
      /\ IF clock + 1 < RedisWindow(p) + p.window
         THEN RedisWindow(p)' = RedisWindow(p)
         ELSE RedisWindow(p)' > RedisWindow(p)
  BY <1>1, RedisWindowMoves
<1>3. Redis!TypeOK'
  <2>1. clock' \in 0 .. MaxTime
    BY <1>1, LimiterAssumption DEF RedisInv, Redis!TypeOK
  <2> QED
    BY <2>1 DEF RedisInv, Redis!TypeOK
<1>4. \A k \in ReplicaKeys :
        entries'[k] = IF clock + 1 < RedisWindow(p) + p.window THEN entries[k] ELSE NoEntry
  BY <1>1, <1>2 DEF RedisInv, EntryInv
<1>5. ASSUME NEW k \in ReplicaKeys, NEW s \in 0 .. MaxTime
      PROVE  Granted(k, s)' = Granted(k, s) /\ Granted(k, s) \in Nat
  BY GrantedIsNatural DEF Granted, Pending, Holds, RedisInv
<1>6. CASE clock + 1 < RedisWindow(p) + p.window
  <2>1. ASSUME NEW k \in ReplicaKeys PROVE EntryInv(p, k)'
    BY <1>2, <1>4, <1>6 DEF RedisInv, EntryInv
  <2>2. ASSUME NEW k \in ReplicaKeys, NEW s \in 0 .. MaxTime PROVE GrantInv(p, k, s)'
    BY <1>2, <1>4, <1>5, <1>6 DEF RedisInv, GrantInv
  <2> QED
    BY <1>3, <2>1, <2>2 DEF RedisInv
<1>7. CASE ~(clock + 1 < RedisWindow(p) + p.window)
  <2>1. ASSUME NEW k \in ReplicaKeys PROVE EntryInv(p, k)'
    BY <1>4, <1>7 DEF EntryInv
  <2>2. ASSUME NEW k \in ReplicaKeys, NEW s \in 0 .. MaxTime PROVE GrantInv(p, k, s)'
    <3>1. GrantInv(p, k, s)
      BY DEF RedisInv
    <3>2. RedisWindow(p)' > RedisWindow(p) /\ RedisWindow(p)' \in Nat
      <4>1. clock' \in Nat
        BY <1>1
      <4> QED
        BY <1>1, <1>2, <1>7, <4>1 DEF RedisWindow, Redis!WindowStart
    <3>3. s >= RedisWindow(p)' => Granted(k, s)' = 0
      BY <1>2, <1>5, <3>1, <3>2 DEF GrantInv
    <3>4. Granted(k, s)' <= p.requests
      BY <1>5, <3>1 DEF GrantInv
    <3> QED
      BY <1>4, <1>5, <1>7, <3>2, <3>3, <3>4 DEF GrantInv
  <2> QED
    BY <1>3, <2>1, <2>2 DEF RedisInv
<1> QED
  BY <1>6, <1>7

\* Every step of Redis and its callers preserves the invariant.
LEMMA RedisInvNext ==
  ASSUME NEW p, ReplicaPolicies = {p}, RedisInv(p), [Redis!Next]_redisVars
  PROVE  RedisInv(p)'
<1>1. CASE UNCHANGED redisVars
  <2>1. ASSUME NEW k \in ReplicaKeys PROVE EntryInv(p, k)'
    BY <1>1 DEF redisVars, RedisInv, EntryInv, RedisWindow, Redis!WindowStart
  <2>2. ASSUME NEW k \in ReplicaKeys, NEW s \in 0 .. MaxTime PROVE GrantInv(p, k, s)'
    <3>1. Granted(k, s)' = Granted(k, s) /\ RedisWindow(p)' = RedisWindow(p)
      BY <1>1 DEF redisVars, Granted, Pending, Holds, RedisWindow, Redis!WindowStart
    <3> QED
      BY <1>1, <3>1 DEF redisVars, RedisInv, GrantInv
  <2> QED
    BY <1>1, <2>1, <2>2 DEF redisVars, RedisInv, Redis!TypeOK
<1>2. ASSUME NEW c \in Checks, NEW k \in ReplicaKeys, Redis!Send(c, k, p)
      PROVE  RedisInv(p)'
  <2> DEFINE call ==
        [phase |-> "sent", key |-> k, policy |-> p, allowed |-> FALSE, start |-> 0]
  <2>1. call \in Redis!Call /\ call.phase # "executed" /\ call.start \in 0 .. MaxTime
    BY LimiterAssumption DEF Redis!Call
  <2>2. calls' = [calls EXCEPT ![c] = call] /\ UNCHANGED <<clock, entries, admitted>>
    BY <1>2 DEF Redis!Send
  <2> HIDE DEF call
  <2> QED
    BY <2>1, <2>2, CallEnds
<1>3. ASSUME NEW c \in Checks, Redis!Execute(c) PROVE RedisInv(p)'
  <2> DEFINE kc == calls[c].key
             ok == Redis!Counted(entries[kc], p) < p.requests
             call == [calls[c] EXCEPT !.phase = "executed", !.allowed = ok,
                                      !.start = RedisWindow(p)]
  <2>1. /\ calls[c] # NoCall /\ calls[c].phase = "sent" /\ kc \in ReplicaKeys
        /\ calls[c] \in Redis!Call /\ calls[c].policy = p /\ Ran(p, kc)
        /\ UNCHANGED <<clock, admitted>>
    BY <1>3, RedisFields DEF Redis!Execute, Redis!RunScript, Ran
  <2>2. RedisWindow(p) \in Nat
    BY RedisFields, RedisWindowMoves
  <2>3. calls' = [calls EXCEPT ![c] = call]
    BY <1>3, <2>1 DEF Redis!Execute, Redis!Grants, RedisWindow
  <2>4. call \in Redis!Call
    <3>1. ok \in BOOLEAN
      OBVIOUS
    <3> HIDE DEF ok
    <3> QED
      BY <2>1, <2>2, <3>1 DEF Redis!Call
  <2>5. call.key = kc /\ call.start = RedisWindow(p) /\ (call.allowed <=> ok)
    BY <2>1 DEF Redis!Call
  <2> HIDE DEF call
  <2> QED
    BY <2>1, <2>3, <2>4, <2>5, ScriptKeeps
<1>4. ASSUME NEW c \in Checks, Redis!Reply(c) PROVE RedisInv(p)'
  BY <1>4, ReplyKeeps
<1>5. ASSUME NEW c \in Checks, Redis!ReplyLost(c) PROVE RedisInv(p)'
  BY <1>5, CallEnds DEF Redis!ReplyLost, Redis!FailsClosed
<1>6. ASSUME NEW c \in Checks, Redis!TimesOut(c) PROVE RedisInv(p)'
  <2> DEFINE call == [calls[c] EXCEPT !.phase = "abandoned"]
  <2>1. calls[c] \in Redis!Call /\ calls[c].start \in 0 .. MaxTime
    BY <1>6, RedisFields DEF Redis!TimesOut
  <2>2. call \in Redis!Call /\ call.phase # "executed" /\ call.start = calls[c].start
    BY <2>1 DEF Redis!Call
  <2>3. calls' = [calls EXCEPT ![c] = call] /\ UNCHANGED <<clock, entries, admitted>>
    BY <1>6 DEF Redis!TimesOut, Redis!FailsClosed
  <2> HIDE DEF call
  <2> QED
    BY <2>1, <2>2, <2>3, CallEnds
<1>7. ASSUME NEW c \in Checks, Redis!ExecuteLate(c) PROVE RedisInv(p)'
  <2>1. /\ calls[c] # NoCall /\ calls[c].phase # "executed" /\ Ran(p, calls[c].key)
        /\ UNCHANGED <<clock, admitted>> /\ calls' = [calls EXCEPT ![c] = NoCall]
    BY <1>7, RedisFields DEF Redis!ExecuteLate, Redis!RunScript, Ran
  <2> QED
    BY <2>1, ScriptKeeps
<1>8. ASSUME NEW c \in Checks, Redis!Dropped(c) PROVE RedisInv(p)'
  BY <1>8, CallEnds DEF Redis!Dropped
<1>9. CASE Redis!Tick
  BY <1>9, TickKeeps
<1> QED
  BY <1>1, <1>2, <1>3, <1>4, <1>5, <1>6, <1>7, <1>8, <1>9 DEF Redis!Next

\* However many replicas check with one Redis, and whatever of their commands is
\* timed out, lost or executed late: as long as they check with one policy they
\* never together let more requests of a key through in a window than it grants.
\* With two policies, as during a rollout, this is false.
THEOREM OneLimit ==
  ASSUME NEW CONSTANT p, ReplicaPolicies = {p}
  PROVE  RateLimitSpec => []OneLimitAcrossReplicas
<1>1. RateLimitInit => RedisInv(p)
  BY RedisInvInit DEF RateLimitInit
<1>2. RedisInv(p) /\ [RateLimitNext]_<<backend, vars, redisVars>> => RedisInv(p)'
  <2>1. [RateLimitNext]_<<backend, vars, redisVars>> => [Redis!Next]_redisVars
    BY DEF RateLimitNext, MemoryStep, RedisStep
  <2> QED
    BY <2>1, RedisInvNext
<1>3. RedisInv(p) => OneLimitAcrossReplicas
  <2> SUFFICES ASSUME RedisInv(p), NEW k \in ReplicaKeys, NEW s \in 0 .. MaxTime
               PROVE  admitted[k][s] <= p.requests
    BY DEF OneLimitAcrossReplicas, Redis!OneLimitAcrossReplicas
  <2>1. Granted(k, s) <= p.requests /\ p.requests \in Nat
    BY RedisFields DEF RedisInv, GrantInv
  <2> QED
    BY <2>1, GrantedIsNatural DEF RedisInv
<1> QED
  BY <1>1, <1>2, <1>3, PTL DEF RateLimitSpec

=============================================================================
