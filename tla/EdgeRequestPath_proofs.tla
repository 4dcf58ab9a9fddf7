----------------------- MODULE EdgeRequestPath_proofs -----------------------
(***************************************************************************)
(* Proofs about the circuit breaker, for every number of upstreams and     *)
(* requests and every setting of the limits: first for any caller that     *)
(* holds a permit until it uses it, then behind the gateway, which is      *)
(* shown to be such a caller.                                              *)
(***************************************************************************)
EXTENDS EdgeRequestPath, FiniteSetTheorems, TLAPS

-----------------------------------------------------------------------------
(* The breaker, whoever calls it                                           *)

\* An absent entry and a newly created one are well-formed circuits.
LEMMA EntryTypes ==
  ASSUME now \in Nat
  PROVE  Absent \in Circuit /\ Fresh \in Circuit
  BY DEF Absent, Fresh, Circuit, States

\* What #findOrCreate may do: the entry of k is the old one or a new closed
\* one, and any other entry is unchanged or an evicted closed one.
LEMMA FindOrCreateEffect ==
  ASSUME TypeOK, NEW k \in Upstreams, NEW C \in FindOrCreate(k)
  PROVE  /\ C \in [Upstreams -> Circuit]
         /\ \/ circuits[k].state # "absent" /\ C[k] = circuits[k]
            \/ circuits[k].state = "absent" /\ C[k] = Fresh
         /\ \A j \in Upstreams \ {k} :
              \/ C[j] = circuits[j]
              \/ circuits[j].state = "closed" /\ C[j] = Absent
<1> USE EntryTypes DEF TypeOK
<1>1. CASE circuits[k].state # "absent"
  BY <1>1 DEF FindOrCreate
<1>2. CASE circuits[k].state = "absent" /\ C = [circuits EXCEPT ![k] = Fresh]
  BY <1>2
<1>3. CASE /\ circuits[k].state = "absent"
           /\ \E j \in Evictable(circuits) :
                C = [circuits EXCEPT ![j] = Absent, ![k] = Fresh]
  <2>1. PICK j \in Evictable(circuits) :
          C = [circuits EXCEPT ![j] = Absent, ![k] = Fresh]
    BY <1>3
  <2>2. j \in Upstreams /\ circuits[j].state = "closed" /\ j # k
    BY <1>3 DEF Evictable
  <2> QED  BY <1>3, <2>1, <2>2
<1> QED  BY <1>1, <1>2, <1>3 DEF FindOrCreate

\* The entry recordFailure writes: a well-formed one, available only if it was
\* and the threshold is not reached.
LEMMA FailedEffect ==
  ASSUME now \in Nat, NEW c \in Circuit, c.state # "absent"
  PROVE  /\ Failed(c) \in Circuit
         /\ Failed(c).state \in {"closed", "open"}
         /\ Failed(c).state = "closed" =>
              /\ c.state = "closed"
              /\ c.consecutiveFailures + 1 < FailureThreshold
              /\ Failed(c).consecutiveFailures = c.consecutiveFailures + 1
         /\ c.state = "closed" /\ Failed(c).state = "open" =>
              c.consecutiveFailures + 1 >= FailureThreshold
         /\ Failed(c).state = "open" => Failed(c).openedUntil >= now + OpenDuration
<1> USE LimitsAssumption DEF OpenUntil, ThresholdReached
<1>0. /\ c.state \in {"closed", "open", "half_open"}
      /\ c.consecutiveFailures \in Nat /\ c.openedUntil \in Nat
      /\ c = [state |-> c.state, consecutiveFailures |-> c.consecutiveFailures,
              openedUntil |-> c.openedUntil, lastTouched |-> c.lastTouched]
  BY DEF Circuit, States
<1>1. CASE c.state = "half_open"
  <2>1. Failed(c) = [state |-> "open", consecutiveFailures |-> c.consecutiveFailures,
                     openedUntil |-> OpenUntil, lastTouched |-> now]
    <3>1. Failed(c) = [c EXCEPT !.state = "open", !.openedUntil = OpenUntil, !.lastTouched = now]
      BY <1>1 DEF Failed
    <3> QED  BY <1>0, <3>1
  <2> QED  BY <1>0, <1>1, <2>1 DEF Circuit, States
<1>2. CASE c.state = "open"
  <2> DEFINE until == IF c.openedUntil >= OpenUntil THEN c.openedUntil ELSE OpenUntil
  <2>1. Failed(c) = [c EXCEPT !.openedUntil = until, !.lastTouched = now]
    BY <1>2 DEF Failed
  <2>2. until \in Nat /\ until >= now + OpenDuration
    BY <1>0
  <2> HIDE DEF until
  <2>3. Failed(c) = [state |-> "open", consecutiveFailures |-> c.consecutiveFailures,
                     openedUntil |-> until, lastTouched |-> now]
    BY <1>0, <1>2, <2>1
  <2> QED  BY <1>0, <1>2, <2>2, <2>3 DEF Circuit, States
<1>3. CASE c.state = "closed" /\ ThresholdReached(c)
  BY <1>0, <1>3 DEF Failed, Circuit, States
<1>4. CASE c.state = "closed" /\ ~ThresholdReached(c)
  <2>1. Failed(c) = [c EXCEPT !.consecutiveFailures = @ + 1, !.lastTouched = now]
    BY <1>4 DEF Failed
  <2>2. Failed(c) = [state |-> "closed", consecutiveFailures |-> c.consecutiveFailures + 1,
                     openedUntil |-> c.openedUntil, lastTouched |-> now]
    BY <1>0, <1>4, <2>1
  <2> QED  BY <1>0, <1>4, <2>2 DEF Circuit, States
<1> QED  BY <1>0, <1>1, <1>2, <1>3, <1>4

-----------------------------------------------------------------------------

\* Every step of the breaker and its permits keeps the types of the state.
LEMMA TypeStep == TypeOK /\ [Next]_vars => TypeOK'
<1> SUFFICES ASSUME TypeOK, [Next]_vars PROVE TypeOK'
  OBVIOUS
<1> USE LimitsAssumption, EntryTypes
<1>1. ASSUME NEW r \in Requests, NEW k \in Upstreams, AcquireOrdinary(r, k)
      PROVE  TypeOK'
  <2>1. PICK C \in FindOrCreate(k) : circuits' = [C EXCEPT ![k].lastTouched = now]
    BY <1>1 DEF AcquireOrdinary
  <2>2. C \in [Upstreams -> Circuit]
    BY FindOrCreateEffect
  <2>3. circuits' \in [Upstreams -> Circuit]
    BY <2>1, <2>2 DEF Circuit, TypeOK
  <2>4. permits' \in [Requests -> Permit \cup {NoPermit}]
    BY <1>1 DEF AcquireOrdinary, Grant, Permit, TypeOK
  <2> QED  BY <1>1, <2>3, <2>4 DEF AcquireOrdinary, TypeOK
<1>2. ASSUME NEW r \in Requests, NEW k \in Upstreams, AcquireProbe(r, k)
      PROVE  TypeOK'
  <2>1. circuits' \in [Upstreams -> Circuit]
    BY <1>2 DEF AcquireProbe, Circuit, States, TypeOK
  <2>2. permits' \in [Requests -> Permit \cup {NoPermit}]
    BY <1>2 DEF AcquireProbe, Grant, Permit, TypeOK
  <2> QED  BY <1>2, <2>1, <2>2 DEF AcquireProbe, Transition, TypeOK
<1>3. ASSUME NEW r \in Requests, NEW k \in Upstreams, AcquireRejected(r, k)
      PROVE  TypeOK'
  BY <1>3 DEF AcquireRejected, Circuit, TypeOK
<1>4. ASSUME NEW r \in Requests, NEW k \in Upstreams, AcquireRejectedFull(r, k)
      PROVE  TypeOK'
  BY <1>4 DEF AcquireRejectedFull, vars, TypeOK
<1>5. ASSUME NEW r \in Requests, RecordSuccess(r)
      PROVE  TypeOK'
  <2> DEFINE k == permits[r].upstream
  <2>1. k \in Upstreams
    BY <1>5 DEF RecordSuccess, Held, Permit, TypeOK
  <2>2. unavailable' \in Nat
    BY <1>5 DEF RecordSuccess, Transition, TypeOK
  <2> QED  BY <1>5, <2>1, <2>2 DEF RecordSuccess, Finish, TypeOK
<1>6. ASSUME NEW r \in Requests, RecordFailure(r)
      PROVE  TypeOK'
  <2> DEFINE k == permits[r].upstream
  <2>1. k \in Upstreams
    BY <1>6 DEF RecordFailure, Held, Permit, TypeOK
  <2>2. CASE FindOrCreate(k) = {} /\ UNCHANGED <<circuits, unavailable>>
    BY <1>6, <2>1, <2>2 DEF RecordFailure, Finish, TypeOK
  <2>3. ASSUME NEW C \in FindOrCreate(k),
               circuits' = [C EXCEPT ![k] = Failed(C[k])],
               Transition(C[k].state, Failed(C[k]).state)
        PROVE  TypeOK'
    <3>1. C \in [Upstreams -> Circuit] /\ C[k].state # "absent"
      BY <2>1, FindOrCreateEffect DEF Fresh
    <3>2. Failed(C[k]) \in Circuit
      BY <2>1, <3>1, FailedEffect DEF TypeOK
    <3>3. unavailable' \in Nat
      BY <2>3 DEF Transition, TypeOK
    <3> QED  BY <1>6, <2>1, <2>3, <3>1, <3>2, <3>3 DEF RecordFailure, Finish, TypeOK
  <2> QED  BY <1>6, <2>2, <2>3 DEF RecordFailure
<1>7. ASSUME NEW r \in Requests, Abandon(r)
      PROVE  TypeOK'
  <2> DEFINE k == permits[r].upstream
  <2>1. k \in Upstreams
    BY <1>7 DEF Abandon, Held, Permit, TypeOK
  <2>2. Abandoned(circuits[k], permits[r].probe) \in Circuit
    BY <2>1 DEF Abandoned, Circuit, States, TypeOK
  <2> QED  BY <1>7, <2>1, <2>2 DEF Abandon, Finish, TypeOK
<1>8. CASE Tick
  BY <1>8 DEF Tick, TypeOK
<1>9. CASE UNCHANGED vars
  BY <1>9 DEF vars, TypeOK
<1> QED
  BY <1>1, <1>2, <1>3, <1>4, <1>5, <1>6, <1>7, <1>8, <1>9 DEF Next

\* The breaker's variables keep their types: clock readings stay natural
\* numbers, the gauge never goes below zero, an entry is always well-formed.
THEOREM TypeCorrect == Spec => []TypeOK
<1>1. Init => TypeOK
  BY LimitsAssumption, EntryTypes DEF Init, TypeOK, Absent, Circuit, States
<1> QED  BY <1>1, TypeStep, PTL DEF Spec

-----------------------------------------------------------------------------
(* A half open circuit always has its probe.                               *)

\* Nothing is returned by #findOrCreate only for an upstream without an entry.
LEMMA FullMeansAbsent ==
  ASSUME NEW k \in Upstreams, FindOrCreate(k) = {}
  PROVE  circuits[k].state = "absent"
  BY DEF FindOrCreate

\* No step leaves a half open circuit without its probe: acquire hands one out
\* with the transition, and each callback that uses the probe up also moves the
\* circuit on.
LEMMA ProbeStep == TypeOK /\ HalfOpenHasProbe /\ [Next]_vars => HalfOpenHasProbe'
<1> SUFFICES ASSUME TypeOK, HalfOpenHasProbe, [Next]_vars,
                    NEW i \in Upstreams, circuits'[i].state = "half_open"
             PROVE  \E s \in Requests :
                      /\ permits'[s] # NoPermit
                      /\ permits'[s].upstream = i
                      /\ permits'[s].probe
  BY DEF HalfOpenHasProbe, HeldOn, Held
<1> USE EntryTypes, NoPermitAssumption DEF TypeOK
<1>0. circuits[i].state = "half_open" =>
        \E s \in Requests : permits[s] # NoPermit /\ permits[s].upstream = i /\ permits[s].probe
  BY DEF HalfOpenHasProbe, HeldOn, Held
<1>1. ASSUME NEW r \in Requests, NEW k \in Upstreams, AcquireOrdinary(r, k)
      PROVE  \E s \in Requests :
               permits'[s] # NoPermit /\ permits'[s].upstream = i /\ permits'[s].probe
  <2>1. PICK C \in FindOrCreate(k) :
          C[k].state = "closed" /\ circuits' = [C EXCEPT ![k].lastTouched = now]
    BY <1>1 DEF AcquireOrdinary
  <2>2. circuits[i].state = "half_open"
    BY <2>1, FindOrCreateEffect DEF Absent, Circuit
  <2>3. PICK s \in Requests : permits[s] # NoPermit /\ permits[s].upstream = i /\ permits[s].probe
    BY <1>0, <2>2
  <2>4. s # r /\ permits'[s] = permits[s]
    BY <1>1, <2>3 DEF AcquireOrdinary, Grant, Held
  <2> QED  BY <2>3, <2>4
<1>2. ASSUME NEW r \in Requests, NEW k \in Upstreams, AcquireProbe(r, k)
      PROVE  \E s \in Requests :
               permits'[s] # NoPermit /\ permits'[s].upstream = i /\ permits'[s].probe
  <2>0. permits'[r] = [upstream |-> k, probe |-> TRUE, deadline |-> now + UpstreamTimeout]
    BY <1>2 DEF AcquireProbe, Grant
  <2>1. CASE i = k
    <3>1. permits'[r] \in Permit
      BY <2>0, LimitsAssumption DEF Permit
    <3> QED  BY <2>0, <2>1, <3>1
  <2>2. CASE i # k
    <3>1. circuits[i].state = "half_open"
      BY <1>2, <2>2 DEF AcquireProbe
    <3>2. PICK s \in Requests : permits[s] # NoPermit /\ permits[s].upstream = i /\ permits[s].probe
      BY <1>0, <3>1
    <3>3. s # r /\ permits'[s] = permits[s]
      BY <1>2, <3>2 DEF AcquireProbe, Grant, Held
    <3> QED  BY <3>2, <3>3
  <2> QED  BY <2>1, <2>2
<1>3. ASSUME NEW r \in Requests, NEW k \in Upstreams, AcquireRejected(r, k)
      PROVE  circuits[i].state = "half_open" /\ permits' = permits
  BY <1>3 DEF AcquireRejected, Circuit
<1>4. ASSUME NEW r \in Requests, NEW k \in Upstreams, AcquireRejectedFull(r, k)
      PROVE  circuits[i].state = "half_open" /\ permits' = permits
  BY <1>4 DEF AcquireRejectedFull, vars
<1>5. ASSUME NEW r \in Requests, Held(r), Finish(r),
             circuits[i].state = "half_open",
             permits[r].upstream # i \/ ~permits[r].probe
      PROVE  \E s \in Requests :
               permits'[s] # NoPermit /\ permits'[s].upstream = i /\ permits'[s].probe
  BY <1>0, <1>5 DEF Finish, Held
<1>6. ASSUME NEW r \in Requests, RecordSuccess(r)
      PROVE  circuits[i].state = "half_open" /\ permits[r].upstream # i
  <2>1. permits[r].upstream \in Upstreams
    BY <1>6 DEF RecordSuccess, Held, Permit
  <2> QED  BY <1>6, <2>1 DEF RecordSuccess, Absent
<1>7. ASSUME NEW r \in Requests, RecordFailure(r)
      PROVE  circuits[i].state = "half_open" /\ permits[r].upstream # i
  <2> DEFINE k == permits[r].upstream
  <2>1. k \in Upstreams
    BY <1>7 DEF RecordFailure, Held, Permit
  <2>2. CASE FindOrCreate(k) = {} /\ circuits' = circuits
    BY <2>1, <2>2, FullMeansAbsent
  <2>3. ASSUME NEW C \in FindOrCreate(k), circuits' = [C EXCEPT ![k] = Failed(C[k])]
        PROVE  circuits[i].state = "half_open" /\ k # i
    <3>1. C \in [Upstreams -> Circuit] /\ C[k].state # "absent"
      BY <2>1, FindOrCreateEffect DEF Fresh
    <3>2. Failed(C[k]).state # "half_open"
      BY <2>1, <3>1, FailedEffect
    <3>3. k # i
      BY <2>1, <2>3, <3>1, <3>2
    <3>4. C[i].state = "half_open"
      BY <2>3, <3>1, <3>3
    <3> QED  BY <2>1, <3>3, <3>4, FindOrCreateEffect DEF Absent
  <2> QED  BY <1>7, <2>2, <2>3 DEF RecordFailure
<1>8. ASSUME NEW r \in Requests, Abandon(r)
      PROVE  circuits[i].state = "half_open" /\ (permits[r].upstream # i \/ ~permits[r].probe)
  <2>1. permits[r].upstream \in Upstreams
    BY <1>8 DEF Abandon, Held, Permit
  <2>2. CASE permits[r].upstream # i
    BY <1>8, <2>1, <2>2 DEF Abandon
  <2>3. CASE permits[r].upstream = i
    <3>1. circuits'[i] = Abandoned(circuits[i], permits[r].probe)
      BY <1>8, <2>1, <2>3 DEF Abandon
    <3> QED  BY <3>1, <2>3 DEF Abandoned, Absent, Circuit
  <2> QED  BY <2>2, <2>3
<1>9. CASE Tick
  BY <1>0, <1>9 DEF Tick
<1>10. CASE UNCHANGED vars
  BY <1>0, <1>10 DEF vars
<1>11. ASSUME NEW r \in Requests, RecordSuccess(r) \/ RecordFailure(r) \/ Abandon(r)
       PROVE  \E s \in Requests :
                permits'[s] # NoPermit /\ permits'[s].upstream = i /\ permits'[s].probe
  <2>1. Held(r) /\ Finish(r)
    BY <1>11 DEF RecordSuccess, RecordFailure, Abandon
  <2> QED  BY <1>5, <1>6, <1>7, <1>8, <1>11, <2>1
<1> QED
  BY <1>0, <1>1, <1>2, <1>3, <1>4, <1>9, <1>10, <1>11 DEF Next

\* A half open circuit is never left without an outstanding probe, so it can
\* always be decided: no interleaving of late, failed and abandoned requests
\* cuts an upstream off for good.
THEOREM ProbeOutstanding == Spec => []HalfOpenHasProbe
<1>1. Init => HalfOpenHasProbe
  BY DEF Init, HalfOpenHasProbe, Absent
<1> QED  BY <1>1, TypeCorrect, ProbeStep, PTL DEF Spec

-----------------------------------------------------------------------------
(* With a deadline shorter than the open period, a probe is alone.         *)

\* The part of TimingInv about request s in flight to upstream i.
Settled(i, s) ==
  /\ circuits[i].state = "half_open" =>
       permits[s].probe /\ \A t \in Requests : HeldOn(t, i) => t = s
  /\ permits[s].probe => circuits[i].state = "half_open"
  /\ circuits[i].state = "open" => permits[s].deadline < circuits[i].openedUntil

\* The inductive step for ProbeIsAlone: every way to open a circuit sets its
\* period beyond the deadlines of what is in flight.
LEMMA TimingStep == TypeOK /\ TimingInv /\ [Next]_vars => TimingInv'
<1> SUFFICES ASSUME TypeOK, TimingInv, [Next]_vars PROVE TimingInv'
  OBVIOUS
<1> USE EntryTypes, NoPermitAssumption, LimitsAssumption DEF TypeOK
<1>a. \A s \in Requests : Held(s) =>
        /\ permits[s] \in Permit
        /\ permits[s].upstream \in Upstreams /\ permits[s].deadline \in Nat
        /\ now <= permits[s].deadline /\ permits[s].deadline <= now + UpstreamTimeout
  BY DEF TimingInv, Held, Permit
<1>b. UpstreamTimeout < OpenDuration =>
        \A i \in Upstreams, s \in Requests : HeldOn(s, i) => Settled(i, s)
  BY DEF TimingInv, Settled
<1>c. \A i \in Upstreams : circuits[i].openedUntil \in Nat /\ circuits[i] \in Circuit
  BY DEF Circuit
<1>d. ASSUME
        \A s \in Requests : Held(s)' =>
          now' <= permits'[s].deadline /\ permits'[s].deadline <= now' + UpstreamTimeout,
        UpstreamTimeout < OpenDuration =>
          \A i \in Upstreams, s \in Requests : HeldOn(s, i)' => Settled(i, s)'
      PROVE  TimingInv'
  BY <1>d DEF TimingInv, Settled
<1>1. ASSUME NEW r \in Requests, NEW k \in Upstreams, AcquireOrdinary(r, k)
      PROVE  TimingInv'
  <2>1. permits' = [permits EXCEPT ![r] =
          [upstream |-> k, probe |-> FALSE, deadline |-> now + UpstreamTimeout]]
    BY <1>1 DEF AcquireOrdinary, Grant
  <2>2. \A s \in Requests : Held(s)' =>
          now' <= permits'[s].deadline /\ permits'[s].deadline <= now' + UpstreamTimeout
    BY <1>1, <1>a, <2>1 DEF AcquireOrdinary, Held
  <2>3. PICK C \in FindOrCreate(k) :
          C[k].state = "closed" /\ circuits' = [C EXCEPT ![k].lastTouched = now]
    BY <1>1 DEF AcquireOrdinary
  <2>4. /\ circuits'[k].state = "closed"
        /\ circuits[k].state \in {"absent", "closed"}
        /\ \A i \in Upstreams \ {k} :
             \/ circuits'[i] = circuits[i]
             \/ circuits[i].state = "closed" /\ circuits'[i].state = "absent"
    BY <2>3, FindOrCreateEffect DEF Absent, Circuit
  <2>5. ASSUME UpstreamTimeout < OpenDuration, NEW i \in Upstreams, NEW s \in Requests,
               HeldOn(s, i)'
        PROVE  Settled(i, s)'
    <3>1. CASE s = r
      BY <2>1, <2>4, <2>5, <3>1 DEF Settled, HeldOn
    <3>2. CASE s # r
      <4>1. HeldOn(s, i) /\ Settled(i, s) /\ permits'[s] = permits[s]
        BY <1>b, <2>1, <2>5, <3>2 DEF HeldOn, Held
      <4>2. CASE i = k
        BY <2>4, <4>1, <4>2 DEF Settled
      <4>3. CASE i # k
        <5>1. \A t \in Requests : HeldOn(t, i)' => HeldOn(t, i)
          BY <2>1, <4>3 DEF HeldOn, Held
        <5> QED  BY <2>4, <4>1, <4>3, <5>1 DEF Settled
      <4> QED  BY <4>2, <4>3
    <3> QED  BY <3>1, <3>2
  <2> QED  BY <1>d, <2>2, <2>5
<1>2. ASSUME NEW r \in Requests, NEW k \in Upstreams, AcquireProbe(r, k)
      PROVE  TimingInv'
  <2>1. permits' = [permits EXCEPT ![r] =
          [upstream |-> k, probe |-> TRUE, deadline |-> now + UpstreamTimeout]]
    BY <1>2 DEF AcquireProbe, Grant
  <2>2. \A s \in Requests : Held(s)' =>
          now' <= permits'[s].deadline /\ permits'[s].deadline <= now' + UpstreamTimeout
    BY <1>2, <1>a, <2>1 DEF AcquireProbe, Held
  <2>3. /\ circuits[k].state = "open" /\ circuits[k].openedUntil <= now
        /\ circuits'[k].state = "half_open"
        /\ \A i \in Upstreams \ {k} : circuits'[i] = circuits[i]
    BY <1>2, <1>c DEF AcquireProbe, Circuit
  <2>4. ASSUME UpstreamTimeout < OpenDuration, NEW i \in Upstreams, NEW s \in Requests,
               HeldOn(s, i)'
        PROVE  Settled(i, s)'
    <3>1. \A t \in Requests : ~HeldOn(t, k)
      BY <1>a, <1>b, <1>c, <2>3, <2>4 DEF Settled, HeldOn
    <3>2. CASE i = k
      <4>1. \A t \in Requests : HeldOn(t, k)' => t = r
        BY <2>1, <3>1 DEF HeldOn, Held
      <4> QED  BY <2>1, <2>3, <2>4, <3>2, <4>1 DEF Settled
    <3>3. CASE i # k
      <4>1. \A t \in Requests : HeldOn(t, i)' => HeldOn(t, i) /\ permits'[t] = permits[t]
        BY <2>1, <3>3 DEF HeldOn, Held
      <4> QED  BY <1>b, <2>3, <2>4, <3>3, <4>1 DEF Settled
    <3> QED  BY <3>2, <3>3
  <2> QED  BY <1>d, <2>2, <2>4
<1>3. ASSUME UNCHANGED <<now, permits>>,
             \A i \in Upstreams :
               /\ circuits'[i].state = circuits[i].state
               /\ circuits'[i].openedUntil = circuits[i].openedUntil
      PROVE  TimingInv'
  BY <1>3 DEF TimingInv, HeldOn, Held
<1>4. ASSUME NEW r \in Requests, NEW k \in Upstreams, AcquireRejected(r, k)
      PROVE  TimingInv'
  BY <1>3, <1>4 DEF AcquireRejected, Circuit
<1>5. ASSUME NEW r \in Requests, NEW k \in Upstreams, AcquireRejectedFull(r, k)
      PROVE  TimingInv'
  BY <1>3, <1>5 DEF AcquireRejectedFull, vars
\* The three callbacks release r, so what is left to show is about the others.
<1>6. ASSUME NEW r \in Requests, Held(r), Finish(r), now' = now,
             \A i \in Upstreams : permits[r].upstream # i =>
               circuits'[i] = circuits[i] \/ circuits'[i].state = "absent",
             \A i \in Upstreams : permits[r].upstream # i /\ circuits'[i].state = "absent" =>
               circuits[i].state \in {"absent", "closed"},
             UpstreamTimeout < OpenDuration =>
               \A s \in Requests : s # r /\ HeldOn(s, permits[r].upstream) =>
                 LET k == permits[r].upstream IN
                 /\ circuits'[k].state # "half_open" \/ circuits'[k] = circuits[k]
                 /\ circuits'[k].state = "open" => permits[s].deadline < circuits'[k].openedUntil
      PROVE  TimingInv'
  <2> DEFINE k == permits[r].upstream
  <2>0. k \in Upstreams
    BY <1>a, <1>6
  <2>1. \A s \in Requests : Held(s)' => Held(s) /\ s # r /\ permits'[s] = permits[s]
    BY <1>6 DEF Finish, Held
  <2>2. ASSUME UpstreamTimeout < OpenDuration, NEW i \in Upstreams, NEW s \in Requests,
               HeldOn(s, i)'
        PROVE  Settled(i, s)'
    <3>1. HeldOn(s, i) /\ s # r /\ permits'[s] = permits[s] /\ Settled(i, s)
      BY <1>b, <2>1, <2>2 DEF HeldOn
    <3>2. \A t \in Requests : HeldOn(t, i)' => HeldOn(t, i)
      BY <2>1 DEF HeldOn
    <3>3. CASE i = k
      <4>1. HeldOn(r, k) /\ Settled(k, r)
        BY <1>b, <1>6, <2>0, <2>2 DEF HeldOn
      <4>2. ~permits[s].probe /\ circuits[k].state # "half_open"
        BY <3>1, <3>3, <4>1 DEF Settled
      <4> QED  BY <1>6, <2>2, <3>1, <3>2, <3>3, <4>2 DEF Settled
    <3>4. CASE i # k
      BY <1>6, <3>1, <3>2, <3>4 DEF Settled
    <3> QED  BY <3>3, <3>4
  <2>3. \A s \in Requests : Held(s)' =>
          now' <= permits'[s].deadline /\ permits'[s].deadline <= now' + UpstreamTimeout
    BY <1>6, <1>a, <2>1
  <2> QED  BY <1>d, <2>2, <2>3
<1>7. ASSUME NEW r \in Requests, RecordSuccess(r)
      PROVE  TimingInv'
  <2>1. permits[r].upstream \in Upstreams
    BY <1>7, <1>a DEF RecordSuccess
  <2>2. /\ circuits'[permits[r].upstream].state = "absent"
        /\ \A i \in Upstreams : permits[r].upstream # i => circuits'[i] = circuits[i]
    BY <1>7, <2>1 DEF RecordSuccess, Absent
  <2> QED  BY <1>6, <1>7, <2>1, <2>2 DEF RecordSuccess
<1>8. ASSUME NEW r \in Requests, RecordFailure(r)
      PROVE  TimingInv'
  <2> DEFINE k == permits[r].upstream
  <2>1. k \in Upstreams
    BY <1>8, <1>a DEF RecordFailure
  <2>2. CASE FindOrCreate(k) = {} /\ circuits' = circuits
    <3>1. circuits'[k].state = "absent"
      BY <2>1, <2>2, FullMeansAbsent
    <3> QED  BY <1>6, <1>8, <2>1, <2>2, <3>1 DEF RecordFailure
  <2>3. ASSUME NEW C \in FindOrCreate(k), circuits' = [C EXCEPT ![k] = Failed(C[k])]
        PROVE  TimingInv'
    <3>1. C \in [Upstreams -> Circuit] /\ C[k].state # "absent" /\ C[k] \in Circuit
      BY <2>1, FindOrCreateEffect DEF Fresh
    <3>2. /\ circuits'[k].state \in {"closed", "open"}
          /\ circuits'[k].state = "open" => circuits'[k].openedUntil >= now + OpenDuration
          /\ circuits'[k].openedUntil \in Nat
      BY <2>1, <2>3, <3>1, FailedEffect DEF Circuit
    <3>3. \A i \in Upstreams : k # i =>
            \/ circuits'[i] = circuits[i]
            \/ circuits'[i].state = "absent" /\ circuits[i].state = "closed"
      BY <2>1, <2>3, <3>1, FindOrCreateEffect DEF Absent
    <3>4. UpstreamTimeout < OpenDuration =>
            \A s \in Requests : HeldOn(s, k) /\ circuits'[k].state = "open" =>
              permits[s].deadline < circuits'[k].openedUntil
      BY <1>a, <3>2 DEF HeldOn
    <3> QED  BY <1>6, <1>8, <3>2, <3>3, <3>4 DEF RecordFailure
  <2> QED  BY <1>8, <2>2, <2>3 DEF RecordFailure
<1>9. ASSUME NEW r \in Requests, Abandon(r)
      PROVE  TimingInv'
  <2> DEFINE k == permits[r].upstream
  <2>1. k \in Upstreams
    BY <1>9, <1>a DEF Abandon
  <2>2. /\ circuits'[k] = Abandoned(circuits[k], permits[r].probe)
        /\ \A i \in Upstreams : k # i => circuits'[i] = circuits[i]
    BY <1>9, <2>1 DEF Abandon
  <2>3. ASSUME UpstreamTimeout < OpenDuration, NEW s \in Requests, s # r, HeldOn(s, k)
        PROVE  circuits'[k] = circuits[k] \/ circuits'[k].state = "absent"
    <3>1. circuits[k].state # "half_open"
      BY <1>9, <1>b, <2>1, <2>3 DEF Settled, HeldOn, Abandon
    <3> QED  BY <2>2, <3>1 DEF Abandoned, Absent
  <2>4. UpstreamTimeout < OpenDuration =>
          \A s \in Requests : s # r /\ HeldOn(s, k) =>
            /\ circuits'[k].state # "half_open" \/ circuits'[k] = circuits[k]
            /\ circuits'[k].state = "open" => permits[s].deadline < circuits'[k].openedUntil
    BY <1>b, <2>1, <2>3 DEF Settled
  <2> QED  BY <1>6, <1>9, <2>2, <2>4 DEF Abandon
<1>10. CASE Tick
  <2>1. \A s \in Requests : Held(s)' =>
          now' <= permits'[s].deadline /\ permits'[s].deadline <= now' + UpstreamTimeout
    BY <1>10, <1>a DEF Tick, Held
  <2>2. UpstreamTimeout < OpenDuration =>
          \A i \in Upstreams, s \in Requests : HeldOn(s, i)' => Settled(i, s)'
    BY <1>10, <1>b DEF Tick, Settled, HeldOn, Held
  <2> QED  BY <1>d, <2>1, <2>2
<1>11. CASE UNCHANGED vars
  BY <1>3, <1>11 DEF vars
<1> QED
  BY <1>1, <1>2, <1>4, <1>5, <1>7, <1>8, <1>9, <1>10, <1>11 DEF Next

\* If the upstream deadline is shorter than the open period, a recovery probe
\* is the only request in flight to its upstream and its circuit stays half
\* open until the probe is decided.
THEOREM ProbeAlone == Spec => []ProbeIsAlone
<1>1. Init => TimingInv
  BY DEF Init, TimingInv, HeldOn, Held
<1>2. TypeOK /\ TimingInv => ProbeIsAlone
  BY DEF TimingInv, ProbeIsAlone, HeldOn
<1> QED  BY <1>1, <1>2, TypeCorrect, TimingStep, PTL DEF Spec

-----------------------------------------------------------------------------
(* The size of the map and the gauge.                                      *)

\* Cardinalities of the sets the map's size and the gauge speak of.
LEMMA UpstreamSubset ==
  ASSUME NEW S \in SUBSET Upstreams
  PROVE  /\ IsFiniteSet(S) /\ Cardinality(S) \in Nat
         /\ \A k \in Upstreams :
              /\ k \in S => /\ Cardinality(S \ {k}) = Cardinality(S) - 1
                            /\ Cardinality(S) > 0
              /\ k \notin S => Cardinality(S \cup {k}) = Cardinality(S) + 1
<1>1. IsFiniteSet(S) /\ Cardinality(S) \in Nat
  BY UpstreamsAssumption, FS_Subset, FS_CardinalityType
<1>2. ASSUME NEW k \in Upstreams, k \in S
      PROVE  Cardinality(S \ {k}) = Cardinality(S) - 1 /\ Cardinality(S) > 0
  <2>1. Cardinality(S \ {k}) = Cardinality(S) - 1
    BY <1>1, <1>2, FS_RemoveElement
  <2>2. IsFiniteSet(S \ {k}) /\ Cardinality(S \ {k}) \in Nat
    BY <1>1, <1>2, FS_RemoveElement, FS_CardinalityType
  <2> QED  BY <1>1, <2>1, <2>2
<1>3. ASSUME NEW k \in Upstreams, k \notin S
      PROVE  Cardinality(S \cup {k}) = Cardinality(S) + 1
  BY <1>1, <1>3, FS_AddElement
<1> QED  BY <1>1, <1>2, <1>3

\* #findOrCreate keeps the map within its bound and the unavailable circuits
\* as they are.
LEMMA FindOrCreateSize ==
  ASSUME TypeOK, RetainedWithinBound, NEW k \in Upstreams, NEW C \in FindOrCreate(k)
  PROVE  /\ Cardinality(Retained(C)) <= MaximumUpstreams
         /\ Unavailable(C) = Unavailable(circuits)
<1> USE LimitsAssumption DEF TypeOK
<1>0. /\ Retained(circuits) \in SUBSET Upstreams
      /\ Cardinality(Retained(circuits)) \in Nat
  BY UpstreamSubset DEF Retained
<1>1. CASE circuits[k].state # "absent"
  BY <1>1 DEF FindOrCreate, RetainedWithinBound
<1>2. CASE /\ circuits[k].state = "absent"
           /\ Cardinality(Retained(circuits)) < MaximumUpstreams
  <2>1. C = [circuits EXCEPT ![k] = Fresh]
    BY <1>2 DEF FindOrCreate
  <2>2. Retained(C) = Retained(circuits) \cup {k} /\ k \notin Retained(circuits)
    BY <1>2, <2>1 DEF Retained, Fresh
  <2>3. Unavailable(C) = Unavailable(circuits)
    BY <1>2, <2>1 DEF Unavailable, Fresh
  <2> QED  BY <1>0, <1>2, <2>2, <2>3, UpstreamSubset
<1>3. CASE /\ circuits[k].state = "absent"
           /\ ~(Cardinality(Retained(circuits)) < MaximumUpstreams)
  <2>1. PICK j \in Evictable(circuits) : C = [circuits EXCEPT ![j] = Absent, ![k] = Fresh]
    BY <1>3 DEF FindOrCreate
  <2>2. j \in Upstreams /\ circuits[j].state = "closed" /\ j # k
    BY <1>3 DEF Evictable
  <2>3. /\ Retained(C) = (Retained(circuits) \ {j}) \cup {k}
        /\ j \in Retained(circuits) /\ k \notin Retained(circuits) \ {j}
    BY <1>3, <2>1, <2>2 DEF Retained, Fresh, Absent
  <2>4. Unavailable(C) = Unavailable(circuits)
    BY <1>3, <2>1, <2>2 DEF Unavailable, Fresh, Absent
  <2>5. Cardinality(Retained(circuits) \ {j}) = Cardinality(Retained(circuits)) - 1
    BY <1>0, <2>2, <2>3, UpstreamSubset
  <2>6. Cardinality(Retained(C)) = Cardinality(Retained(circuits) \ {j}) + 1
    <3>1. Retained(circuits) \ {j} \in SUBSET Upstreams
      BY <1>0
    <3> QED  BY <2>3, <3>1, UpstreamSubset
  <2> QED  BY <1>0, <2>4, <2>5, <2>6 DEF RetainedWithinBound
<1> QED  BY <1>1, <1>2, <1>3

\* Both sets change at most in the entry of one upstream, at most by deleting
\* it, and the gauge follows.
SizeInv == RetainedWithinBound /\ GaugeCountsUnavailable

\* The bound on the map and the value of the gauge are kept together: each
\* action changes the map's two cardinalities and the gauge in step.
LEMMA SizeStep == TypeOK /\ SizeInv /\ [Next]_vars => SizeInv'
<1> SUFFICES ASSUME TypeOK, SizeInv, [Next]_vars PROVE SizeInv'
  OBVIOUS
<1> USE EntryTypes, LimitsAssumption DEF TypeOK
<1>a. RetainedWithinBound /\ unavailable = Cardinality(Unavailable(circuits))
  BY DEF SizeInv, GaugeCountsUnavailable
<1>b. ASSUME Retained(circuits') = Retained(circuits),
             Unavailable(circuits') = Unavailable(circuits),
             unavailable' = unavailable
      PROVE  SizeInv'
  BY <1>a, <1>b DEF SizeInv, RetainedWithinBound, GaugeCountsUnavailable
<1>1. ASSUME NEW r \in Requests, NEW k \in Upstreams, AcquireOrdinary(r, k)
      PROVE  SizeInv'
  <2>1. PICK C \in FindOrCreate(k) : circuits' = [C EXCEPT ![k].lastTouched = now]
    BY <1>1 DEF AcquireOrdinary
  <2>2. C \in [Upstreams -> Circuit]
    BY FindOrCreateEffect
  <2>3. Retained(circuits') = Retained(C) /\ Unavailable(circuits') = Unavailable(C)
    BY <2>1, <2>2 DEF Retained, Unavailable, Circuit
  <2>4. Cardinality(Retained(C)) <= MaximumUpstreams /\ Unavailable(C) = Unavailable(circuits)
    BY <1>a, FindOrCreateSize
  <2> QED  BY <1>1, <1>a, <2>3, <2>4
           DEF AcquireOrdinary, SizeInv, RetainedWithinBound, GaugeCountsUnavailable
<1>2. ASSUME NEW r \in Requests, NEW k \in Upstreams, AcquireProbe(r, k)
      PROVE  SizeInv'
  <2>1. circuits[k].state = "open" /\ unavailable' = unavailable
    BY <1>2 DEF AcquireProbe, Transition
  <2>2. /\ circuits'[k].state = "half_open"
        /\ \A i \in Upstreams \ {k} : circuits'[i] = circuits[i]
    BY <1>2 DEF AcquireProbe, Circuit
  <2>3. Retained(circuits') = Retained(circuits) /\ Unavailable(circuits') = Unavailable(circuits)
    BY <2>1, <2>2 DEF Retained, Unavailable
  <2> QED  BY <1>b, <2>1, <2>3
<1>3. ASSUME NEW r \in Requests, NEW k \in Upstreams, AcquireRejected(r, k)
      PROVE  SizeInv'
  <2>1. \A i \in Upstreams : circuits'[i].state = circuits[i].state
    BY <1>3 DEF AcquireRejected, Circuit
  <2>2. Retained(circuits') = Retained(circuits) /\ Unavailable(circuits') = Unavailable(circuits)
    BY <2>1 DEF Retained, Unavailable
  <2> QED  BY <1>3, <1>b, <2>2 DEF AcquireRejected
<1>4. ASSUME UNCHANGED <<circuits, unavailable>>
      PROVE  SizeInv'
  BY <1>4, <1>b
<1>5. ASSUME NEW r \in Requests, RecordSuccess(r)
      PROVE  SizeInv'
  <2> DEFINE k == permits[r].upstream
  <2>1. k \in Upstreams
    BY <1>5 DEF RecordSuccess, Held, Permit
  <2>2. circuits'[k] = Absent /\ \A i \in Upstreams \ {k} : circuits'[i] = circuits[i]
    BY <1>5, <2>1 DEF RecordSuccess
  <2>3. /\ Retained(circuits') = Retained(circuits) \ {k}
        /\ Unavailable(circuits') = Unavailable(circuits) \ {k}
    BY <2>1, <2>2 DEF Retained, Unavailable, Absent
  <2>4. Cardinality(Retained(circuits')) <= MaximumUpstreams
    <3>1. Retained(circuits) \in SUBSET Upstreams
      BY DEF Retained
    <3>2. Cardinality(Retained(circuits)) <= MaximumUpstreams
      BY <1>a DEF RetainedWithinBound
    <3>3. CASE k \in Retained(circuits)
      BY <2>1, <2>3, <3>1, <3>2, <3>3, UpstreamSubset
    <3>4. CASE k \notin Retained(circuits)
      <4>1. Retained(circuits') = Retained(circuits)
        BY <2>3, <3>4
      <4> QED  BY <3>2, <4>1
    <3> QED  BY <3>3, <3>4
  <2>5. unavailable' = Cardinality(Unavailable(circuits'))
    <3>1. Unavailable(circuits) \in SUBSET Upstreams
      BY DEF Unavailable
    <3>2. CASE k \in Unavailable(circuits)
      <4>1. circuits[k].state \in {"open", "half_open"}
        BY <3>2 DEF Unavailable
      <4>2. Cardinality(Unavailable(circuits) \ {k}) = unavailable - 1 /\ unavailable > 0
        BY <1>a, <2>1, <3>1, <3>2, UpstreamSubset
      <4>3. unavailable' = unavailable - 1
        BY <1>5, <4>1, <4>2 DEF RecordSuccess, Transition
      <4> QED  BY <2>3, <4>2, <4>3
    <3>3. CASE k \notin Unavailable(circuits)
      <4>1. circuits[k].state \in {"absent", "closed"}
        BY <2>1, <3>3 DEF Unavailable, Circuit, States
      <4>2. unavailable' = unavailable
        BY <1>5, <4>1 DEF RecordSuccess, Transition
      <4>3. Unavailable(circuits') = Unavailable(circuits)
        BY <2>3, <3>3
      <4> QED  BY <1>a, <4>2, <4>3
    <3> QED  BY <3>2, <3>3
  <2> QED  BY <2>4, <2>5 DEF SizeInv, RetainedWithinBound, GaugeCountsUnavailable
<1>6. ASSUME NEW r \in Requests, RecordFailure(r)
      PROVE  SizeInv'
  <2> DEFINE k == permits[r].upstream
  <2>1. k \in Upstreams
    BY <1>6 DEF RecordFailure, Held, Permit
  <2>2. ASSUME NEW C \in FindOrCreate(k),
               circuits' = [C EXCEPT ![k] = Failed(C[k])],
               Transition(C[k].state, Failed(C[k]).state)
        PROVE  SizeInv'
    <3>1. C \in [Upstreams -> Circuit] /\ C[k] \in Circuit /\ C[k].state # "absent"
      BY <2>1, FindOrCreateEffect DEF Fresh
    <3>2. /\ Failed(C[k]).state \in {"closed", "open"}
          /\ Failed(C[k]).state = "closed" => C[k].state = "closed"
          /\ C[k].state \in {"closed", "open", "half_open"}
      BY <3>1, FailedEffect DEF Circuit, States
    <3>3. /\ circuits'[k].state = Failed(C[k]).state
          /\ \A i \in Upstreams \ {k} : circuits'[i] = C[i]
      BY <2>1, <2>2, <3>1
    <3>4. Cardinality(Retained(C)) <= MaximumUpstreams /\ Unavailable(C) = Unavailable(circuits)
      BY <1>a, <2>1, FindOrCreateSize
    <3>5. Retained(circuits') = Retained(C)
      BY <3>1, <3>2, <3>3 DEF Retained
    <3>6. CASE C[k].state = "closed" /\ Failed(C[k]).state = "open"
      <4>1. Unavailable(circuits') = Unavailable(C) \cup {k} /\ k \notin Unavailable(C)
        BY <2>1, <3>3, <3>6 DEF Unavailable
      <4>2. unavailable' = unavailable + 1
        BY <2>2, <3>6 DEF Transition
      <4>3. Unavailable(C) \in SUBSET Upstreams
        BY DEF Unavailable
      <4>4. Cardinality(Unavailable(circuits')) = Cardinality(Unavailable(C)) + 1
        BY <2>1, <4>1, <4>3, UpstreamSubset
      <4> QED  BY <1>a, <3>4, <3>5, <4>2, <4>4
               DEF SizeInv, RetainedWithinBound, GaugeCountsUnavailable
    <3>7. CASE ~(C[k].state = "closed" /\ Failed(C[k]).state = "open")
      <4>1. Unavailable(circuits') = Unavailable(C)
        BY <3>2, <3>3, <3>7 DEF Unavailable
      <4>2. unavailable' = unavailable
        BY <2>2, <3>2, <3>7 DEF Transition
      <4> QED  BY <1>a, <3>4, <3>5, <4>1, <4>2
               DEF SizeInv, RetainedWithinBound, GaugeCountsUnavailable
    <3> QED  BY <3>6, <3>7
  <2> QED  BY <1>4, <1>6, <2>2 DEF RecordFailure
<1>7. ASSUME NEW r \in Requests, Abandon(r)
      PROVE  SizeInv'
  <2> DEFINE k == permits[r].upstream
  <2>1. k \in Upstreams
    BY <1>7 DEF Abandon, Held, Permit
  <2>2. /\ circuits'[k] = Abandoned(circuits[k], permits[r].probe)
        /\ \A i \in Upstreams \ {k} : circuits'[i] = circuits[i]
        /\ unavailable' = unavailable
    BY <1>7, <2>1 DEF Abandon
  <2>3. \/ circuits'[k].state = circuits[k].state
        \/ circuits[k].state = "half_open" /\ circuits'[k].state = "open"
        \/ circuits[k].state = "closed" /\ circuits'[k].state = "absent"
    BY <2>1, <2>2 DEF Abandoned, Absent, Circuit
  <2>4. Unavailable(circuits') = Unavailable(circuits)
    BY <2>2, <2>3 DEF Unavailable
  <2>5. Retained(circuits') \in {Retained(circuits), Retained(circuits) \ {k}}
    BY <2>2, <2>3 DEF Retained
  <2>6. Cardinality(Retained(circuits')) <= MaximumUpstreams
    <3>1. Retained(circuits) \in SUBSET Upstreams
      BY DEF Retained
    <3>2. Cardinality(Retained(circuits)) <= MaximumUpstreams
      BY <1>a DEF RetainedWithinBound
    <3>3. CASE k \in Retained(circuits)
      BY <2>1, <2>5, <3>1, <3>2, <3>3, UpstreamSubset
    <3>4. CASE k \notin Retained(circuits)
      <4>1. Retained(circuits') = Retained(circuits)
        BY <2>5, <3>4
      <4> QED  BY <3>2, <4>1
    <3> QED  BY <3>3, <3>4
  <2> QED  BY <1>a, <2>2, <2>4, <2>6 DEF SizeInv, RetainedWithinBound, GaugeCountsUnavailable
<1> QED
  BY <1>1, <1>2, <1>3, <1>4, <1>5, <1>6, <1>7
  DEF Next, vars, Tick, AcquireRejectedFull

\* The bound on the map and the exact gauge hold in every reachable state.
LEMMA SizeInvariant == Spec => []SizeInv
<1>1. Init => SizeInv
  <2>1. ASSUME Init PROVE Retained(circuits) = {} /\ Unavailable(circuits) = {} /\ unavailable = 0
    BY <2>1 DEF Init, Retained, Unavailable, Absent
  <2> QED  BY <2>1, FS_EmptySet, LimitsAssumption
           DEF SizeInv, RetainedWithinBound, GaugeCountsUnavailable
<1> QED  BY <1>1, TypeCorrect, SizeStep, PTL DEF Spec

\* The breaker never retains more circuits than it is configured to, however
\* many upstreams the policy names and whoever inserts.
THEOREM MapIsBounded == Spec => []RetainedWithinBound
<1>1. SizeInv => RetainedWithinBound
  BY DEF SizeInv
<1> QED  BY <1>1, SizeInvariant, PTL

\* The exported gauge is exactly the number of open and half open circuits.
THEOREM GaugeIsExact == Spec => []GaugeCountsUnavailable
<1>1. SizeInv => GaugeCountsUnavailable
  BY DEF SizeInv
<1> QED  BY <1>1, SizeInvariant, PTL

-----------------------------------------------------------------------------
(* Why a circuit opens, and how it recovers.                               *)

\* The inductive step for OpensOnlyAfterFailures: an entry never counts a
\* failure that the history does not know of.
LEMMA FailuresStep == TypeOK /\ FailuresInv /\ [Next]_vars => FailuresInv'
<1> SUFFICES ASSUME TypeOK, FailuresInv, [Next]_vars, NEW i \in Upstreams
             PROVE  /\ circuits'[i].state \in {"open", "half_open"} => streak'[i] = FailureThreshold
                    /\ circuits'[i].state = "closed" =>
                         circuits'[i].consecutiveFailures <= streak'[i]
  BY DEF FailuresInv, OpensOnlyAfterFailures
<1> USE EntryTypes, LimitsAssumption DEF TypeOK
<1>a. /\ circuits[i].state \in {"open", "half_open"} => streak[i] = FailureThreshold
      /\ circuits[i].state = "closed" => circuits[i].consecutiveFailures <= streak[i]
      /\ streak[i] \in 0 .. FailureThreshold
  BY DEF FailuresInv, OpensOnlyAfterFailures
<1>1. ASSUME NEW r \in Requests, NEW k \in Upstreams, AcquireOrdinary(r, k)
      PROVE  /\ circuits'[i].state \in {"open", "half_open"} => streak'[i] = FailureThreshold
             /\ circuits'[i].state = "closed" =>
                  circuits'[i].consecutiveFailures <= streak'[i]
  <2>1. PICK C \in FindOrCreate(k) : circuits' = [C EXCEPT ![k].lastTouched = now]
    BY <1>1 DEF AcquireOrdinary
  <2>2. /\ circuits'[i].state = C[i].state
        /\ circuits'[i].consecutiveFailures = C[i].consecutiveFailures
    BY <2>1, FindOrCreateEffect DEF Circuit
  <2>3. \/ C[i] = circuits[i]
        \/ C[i].state = "absent"
        \/ C[i].state = "closed" /\ C[i].consecutiveFailures = 0
    BY FindOrCreateEffect DEF Absent, Fresh
  <2> QED  BY <1>1, <1>a, <2>2, <2>3 DEF AcquireOrdinary
<1>2. ASSUME NEW r \in Requests, NEW k \in Upstreams, AcquireProbe(r, k)
      PROVE  /\ circuits'[i].state \in {"open", "half_open"} => streak'[i] = FailureThreshold
             /\ circuits'[i].state = "closed" =>
                  circuits'[i].consecutiveFailures <= streak'[i]
  BY <1>2, <1>a DEF AcquireProbe, Circuit
<1>3. ASSUME NEW r \in Requests, NEW k \in Upstreams, AcquireRejected(r, k)
      PROVE  /\ circuits'[i].state \in {"open", "half_open"} => streak'[i] = FailureThreshold
             /\ circuits'[i].state = "closed" =>
                  circuits'[i].consecutiveFailures <= streak'[i]
  BY <1>3, <1>a DEF AcquireRejected, Circuit
<1>4. ASSUME UNCHANGED <<circuits, streak>>
      PROVE  /\ circuits'[i].state \in {"open", "half_open"} => streak'[i] = FailureThreshold
             /\ circuits'[i].state = "closed" =>
                  circuits'[i].consecutiveFailures <= streak'[i]
  BY <1>4, <1>a
<1>5. ASSUME NEW r \in Requests, RecordSuccess(r)
      PROVE  /\ circuits'[i].state \in {"open", "half_open"} => streak'[i] = FailureThreshold
             /\ circuits'[i].state = "closed" =>
                  circuits'[i].consecutiveFailures <= streak'[i]
  BY <1>5, <1>a DEF RecordSuccess, Absent
<1>6. ASSUME NEW r \in Requests, RecordFailure(r)
      PROVE  /\ circuits'[i].state \in {"open", "half_open"} => streak'[i] = FailureThreshold
             /\ circuits'[i].state = "closed" =>
                  circuits'[i].consecutiveFailures <= streak'[i]
  <2> DEFINE k == permits[r].upstream
  <2>1. k \in Upstreams
    BY <1>6 DEF RecordFailure, Held, Permit
  <2>2. streak' = [streak EXCEPT ![k] = IF @ < FailureThreshold THEN @ + 1 ELSE @]
    BY <1>6 DEF RecordFailure
  <2>3. CASE FindOrCreate(k) = {} /\ circuits' = circuits
    BY <1>a, <2>1, <2>2, <2>3, FullMeansAbsent
  <2>4. ASSUME NEW C \in FindOrCreate(k), circuits' = [C EXCEPT ![k] = Failed(C[k])]
        PROVE  /\ circuits'[i].state \in {"open", "half_open"} => streak'[i] = FailureThreshold
               /\ circuits'[i].state = "closed" =>
                    circuits'[i].consecutiveFailures <= streak'[i]
    <3>1. C \in [Upstreams -> Circuit] /\ C[k] \in Circuit /\ C[k].state # "absent"
      BY <2>1, FindOrCreateEffect DEF Fresh
    <3>2. CASE i # k
      <4>1. C[i] = circuits[i] \/ C[i].state = "absent"
        BY <2>1, <3>2, FindOrCreateEffect DEF Absent
      <4> QED  BY <1>a, <2>1, <2>2, <2>4, <3>1, <3>2, <4>1
    <3>3. CASE i = k
      <4> DEFINE c == C[k]
      <4>1. \/ c = circuits[i]
            \/ c.state = "closed" /\ c.consecutiveFailures = 0
        BY <2>1, <3>3, FindOrCreateEffect DEF Fresh
      <4>2. /\ c.state \in {"open", "half_open"} => streak[i] = FailureThreshold
            /\ c.state = "closed" => c.consecutiveFailures <= streak[i]
            /\ c.consecutiveFailures \in Nat
            /\ c.state \in {"closed", "open", "half_open"}
        BY <1>a, <3>1, <4>1 DEF Circuit, States
      <4>3. circuits'[i] = Failed(c)
        BY <2>1, <2>4, <3>1, <3>3
      <4>4. /\ Failed(c).state \in {"closed", "open"}
            /\ Failed(c).state = "closed" =>
                 /\ c.state = "closed"
                 /\ c.consecutiveFailures + 1 < FailureThreshold
                 /\ Failed(c).consecutiveFailures = c.consecutiveFailures + 1
            /\ c.state = "closed" /\ Failed(c).state = "open" =>
                 c.consecutiveFailures + 1 >= FailureThreshold
        BY <3>1, FailedEffect
      <4>5. streak'[i] = IF streak[i] < FailureThreshold THEN streak[i] + 1 ELSE streak[i]
        BY <2>1, <2>2, <3>3
      <4> HIDE DEF c
      <4> QED  BY <1>a, <4>2, <4>3, <4>4, <4>5
    <3> QED  BY <3>2, <3>3
  <2> QED  BY <1>6, <2>3, <2>4 DEF RecordFailure
<1>7. ASSUME NEW r \in Requests, Abandon(r)
      PROVE  /\ circuits'[i].state \in {"open", "half_open"} => streak'[i] = FailureThreshold
             /\ circuits'[i].state = "closed" =>
                  circuits'[i].consecutiveFailures <= streak'[i]
  <2>1. circuits'[i] = circuits[i] \/ circuits'[i] = Abandoned(circuits[i], permits[r].probe)
    BY <1>7 DEF Abandon
  <2> QED  BY <1>7, <1>a, <2>1 DEF Abandon, Abandoned, Absent, Circuit
<1> QED
  BY <1>1, <1>2, <1>3, <1>4, <1>5, <1>6, <1>7
  DEF Next, vars, Tick, AcquireRejectedFull

\* A circuit opens only after failureThreshold consecutive failures of its own
\* upstream.
THEOREM NoSpuriousOpen == Spec => []OpensOnlyAfterFailures
<1>1. Init => FailuresInv
  BY DEF Init, FailuresInv, OpensOnlyAfterFailures, Absent
<1>2. FailuresInv => OpensOnlyAfterFailures
  BY DEF FailuresInv
<1> QED  BY <1>1, <1>2, TypeCorrect, FailuresStep, PTL DEF Spec

\* A circuit that is open or half open is forgotten only when a request to its
\* upstream succeeds: never by eviction, abandonment or the clock.
THEOREM RecoveryNeedsSuccess == Spec => RecoversOnlyBySuccess
<1>1. TypeOK /\ [Next]_vars =>
        [\A k \in Upstreams :
           k \in Unavailable(circuits) /\ k \notin Unavailable(circuits)' => streak'[k] = 0]_vars
  <2> SUFFICES ASSUME TypeOK, Next, NEW i \in Upstreams,
                      i \in Unavailable(circuits), i \notin Unavailable(circuits')
               PROVE  streak'[i] = 0
    BY DEF Unavailable
  <2> USE EntryTypes DEF TypeOK
  <2>0. /\ circuits[i].state \in {"open", "half_open"}
        /\ circuits'[i].state \notin {"open", "half_open"}
    BY DEF Unavailable
  <2>1. ASSUME NEW r \in Requests, NEW k \in Upstreams, AcquireOrdinary(r, k)
        PROVE  FALSE
    <3>1. PICK C \in FindOrCreate(k) : circuits' = [C EXCEPT ![k].lastTouched = now]
      BY <2>1 DEF AcquireOrdinary
    <3>2. C[i] = circuits[i] /\ C \in [Upstreams -> Circuit]
      BY <2>0, FindOrCreateEffect
    <3> QED  BY <2>0, <3>1, <3>2 DEF Circuit
  <2>2. ASSUME NEW r \in Requests, NEW k \in Upstreams,
               AcquireProbe(r, k) \/ AcquireRejected(r, k)
        PROVE  FALSE
    <3>1. \/ circuits' = [circuits EXCEPT ![k].lastTouched = now]
          \/ circuits' = [circuits EXCEPT ![k].state = "half_open", ![k].lastTouched = now]
      BY <2>2 DEF AcquireProbe, AcquireRejected
    <3>2. circuits'[i].state = circuits[i].state \/ circuits'[i].state = "half_open"
      <4>1. circuits \in [Upstreams -> Circuit]
        OBVIOUS
      <4>2. CASE circuits' = [circuits EXCEPT ![k].lastTouched = now]
        BY <4>1, <4>2 DEF Circuit
      <4>3. CASE circuits' = [circuits EXCEPT ![k].state = "half_open", ![k].lastTouched = now]
        BY <4>1, <4>3 DEF Circuit
      <4> QED  BY <3>1, <4>2, <4>3
    <3> QED  BY <2>0, <3>2
  <2>3. ASSUME NEW r \in Requests, RecordSuccess(r)
        PROVE  streak'[i] = 0
    BY <2>0, <2>3 DEF RecordSuccess
  <2>4. ASSUME NEW r \in Requests, RecordFailure(r)
        PROVE  FALSE
    <3> DEFINE k == permits[r].upstream
    <3>1. k \in Upstreams
      BY <2>4 DEF RecordFailure, Held, Permit
    <3>2. ASSUME NEW C \in FindOrCreate(k), circuits' = [C EXCEPT ![k] = Failed(C[k])]
          PROVE  FALSE
      <4>1. C[i] = circuits[i] /\ C \in [Upstreams -> Circuit]
        BY <2>0, <3>1, FindOrCreateEffect
      <4>2. Failed(circuits[i]).state \in {"open"}
        BY <2>0, FailedEffect
      <4> QED  BY <2>0, <3>1, <3>2, <4>1, <4>2
    <3> QED  BY <2>0, <2>4, <3>2 DEF RecordFailure
  <2>5. ASSUME NEW r \in Requests, Abandon(r)
        PROVE  FALSE
    <3>1. circuits'[i] = circuits[i] \/ circuits'[i] = Abandoned(circuits[i], permits[r].probe)
      BY <2>5 DEF Abandon
    <3> QED  BY <2>0, <3>1 DEF Abandoned, Circuit
  <2> QED
    BY <2>0, <2>1, <2>2, <2>3, <2>4, <2>5 DEF Next, Tick, AcquireRejectedFull, vars
<1> QED  BY <1>1, TypeCorrect, PTL DEF Spec, RecoversOnlyBySuccess

-----------------------------------------------------------------------------
(* The breaker behind the gateway                                          *)

\* What is needed of the types: where requests are, and what they hold.
PathTypeOK ==
  /\ now \in Nat
  /\ pc \in [Requests -> G!Phases]
  /\ permits \in [Requests -> Permit \cup {NoPermit}]

PathInv == PathTypeOK /\ PermitsMatchFetches

-----------------------------------------------------------------------------
(* The two sides                                                           *)

\* A request goes from one place to another, everybody else stays.
Moves(r, from, to) ==
  /\ pc[r] \in from
  /\ \E phase \in to : pc' = [pc EXCEPT ![r] = phase]

Away == G!Phases \ {"upstream"}

\* Where the steps of the gateway take a request; UNCHANGED pc is a move to
\* where it is.
LEMMA GatewayMoves ==
  ASSUME PathTypeOK, NEW r \in Requests
  PROVE  /\ G!Forward(r) => Moves(r, Away, {"upstream"})
         /\ G!RejectByCircuit(r) => Moves(r, Away, Away)
         /\ G!UpstreamResponds(r) \/ G!UpstreamFails(r) \/ G!ClientAborts(r) =>
              Moves(r, {"upstream"}, Away)
         /\ Elsewhere(r) \/ Recycle(r) => Moves(r, Away, Away) /\ UNCHANGED breakerVars
<1> USE DEF Moves, Away, G!Phases, G!Goto, G!RespondError, G!Respond
<1>1. G!Forward(r) => Moves(r, Away, {"upstream"})
  BY DEF G!Forward
<1>2. G!RejectByCircuit(r) => Moves(r, Away, Away)
  BY DEF G!RejectByCircuit
<1>3. G!UpstreamResponds(r) \/ G!UpstreamFails(r) \/ G!ClientAborts(r) =>
        Moves(r, {"upstream"}, Away)
  BY DEF G!UpstreamResponds, G!UpstreamFails, G!ClientAborts
<1>4. ASSUME pc[r] \in Away, pc' = pc
      PROVE  Moves(r, Away, Away)
  <2>1. pc = [pc EXCEPT ![r] = pc[r]]
    BY DEF PathTypeOK
  <2> QED
    BY <1>4, <2>1
<1>5. Recycle(r) => Moves(r, Away, Away) /\ UNCHANGED breakerVars
  BY DEF Recycle
<1>6. ASSUME Elsewhere(r)
      PROVE  Moves(r, Away, Away) /\ UNCHANGED breakerVars
  <2>1. UNCHANGED breakerVars
    BY <1>6 DEF Elsewhere
  <2>2. CASE G!Admit(r) \/ G!Refuse(r)
    BY <2>1, <2>2 DEF G!Admit, G!Refuse
  <2>3. ASSUME NEW size \in ChunkSizes, G!ReadChunk(r, size)
        PROVE  Moves(r, Away, Away)
    BY <1>4, <2>3 DEF G!ReadChunk
  <2>4. ASSUME NEW size \in ChunkSizes, G!BodyTooLarge(r, size)
        PROVE  Moves(r, Away, Away)
    BY <2>4 DEF G!BodyTooLarge
  <2>5. CASE \/ G!BodyDiscarded(r) \/ G!RefuseBody(r)
             \/ G!BeginEvaluation(r) \/ G!EvaluationUnavailable(r) \/ G!Deny(r)
    BY <2>1, <2>5 DEF G!BodyDiscarded, G!RefuseBody, G!BeginEvaluation, G!EvaluationUnavailable, G!Deny
  <2>6. CASE G!StreamEnds(r)
    BY <1>4, <2>1, <2>6 DEF G!StreamEnds
  <2>7. CASE G!ClientCancels(r) \/ G!CancelSettles(r)
    BY <2>1, <2>7 DEF G!ClientCancels, G!CancelSettles
  <2>8. Moves(r, Away, Away)
    BY <1>6, <2>2, <2>3, <2>4, <2>5, <2>6, <2>7 DEF Elsewhere
  <2> QED
    BY <2>1, <2>8
<1> QED
  BY <1>1, <1>2, <1>3, <1>5, <1>6

\* acquire() gives a permit to the request that asks, or to nobody.
LEMMA BreakerGrants ==
  ASSUME PathTypeOK, NEW r \in Requests, NEW k \in Upstreams,
         AcquireOrdinary(r, k) \/ AcquireProbe(r, k)
  PROVE  /\ now' = now
         /\ \E p \in Permit : permits' = [permits EXCEPT ![r] = p]
<1>1. now' = now /\ \E b \in BOOLEAN : Grant(r, k, b)
  BY DEF AcquireOrdinary, AcquireProbe
<1>2. PICK b \in BOOLEAN : Grant(r, k, b)
  BY <1>1
<1> DEFINE p == [upstream |-> k, probe |-> b, deadline |-> now + UpstreamTimeout]
<1>3. p \in Permit
  BY LimitsAssumption DEF Permit, PathTypeOK
<1>4. permits' = [permits EXCEPT ![r] = p]
  BY <1>2 DEF Grant
<1> QED
  BY <1>1, <1>3, <1>4

\* A request moves and its permit comes or goes with it.
LEMMA StepKeeps ==
  ASSUME PathInv, NEW r \in Requests, now' = now,
         \/ /\ Moves(r, Away, {"upstream"})
            /\ \E p \in Permit : permits' = [permits EXCEPT ![r] = p]
         \/ /\ Moves(r, {"upstream"}, Away)
            /\ permits' = [permits EXCEPT ![r] = NoPermit]
         \/ Moves(r, Away, Away) /\ permits' = permits
  PROVE  PathInv'
<1>1. PICK phase \in G!Phases : pc' = [pc EXCEPT ![r] = phase]
  BY DEF Moves, Away, G!Phases
<1>2. /\ pc' \in [Requests -> G!Phases]
      /\ \A s \in Requests : s # r => pc'[s] = pc[s]
      /\ pc'[r] = phase
  BY <1>1 DEF PathInv, PathTypeOK
<1>3. /\ permits' \in [Requests -> Permit \cup {NoPermit}]
      /\ \A s \in Requests : s # r => permits'[s] = permits[s]
  BY DEF PathInv, PathTypeOK
<1>4. PathTypeOK'
  BY <1>2, <1>3 DEF PathInv, PathTypeOK
<1>5. permits'[r] # NoPermit <=> pc'[r] = "upstream"
  <2>1. pc \in [Requests -> G!Phases] /\ permits \in [Requests -> Permit \cup {NoPermit}]
    BY DEF PathInv, PathTypeOK
  <2>2. CASE /\ Moves(r, Away, {"upstream"})
             /\ \E p \in Permit : permits' = [permits EXCEPT ![r] = p]
    BY <2>1, <2>2, NoPermitAssumption DEF Moves
  <2>3. CASE /\ Moves(r, {"upstream"}, Away)
             /\ permits' = [permits EXCEPT ![r] = NoPermit]
    BY <2>1, <2>3 DEF Moves, Away
  <2>4. CASE Moves(r, Away, Away) /\ permits' = permits
    BY <2>1, <2>4 DEF Moves, Away, PathInv, PermitsMatchFetches, Held
  <2> QED
    BY <2>2, <2>3, <2>4
<1>6. ASSUME NEW s \in Requests
      PROVE  permits'[s] # NoPermit <=> pc'[s] = "upstream"
  BY <1>2, <1>3, <1>5 DEF PathInv, PermitsMatchFetches, Held
<1> QED
  BY <1>4, <1>6 DEF PathInv, PermitsMatchFetches, Held

-----------------------------------------------------------------------------
(* The invariant                                                           *)

\* At first nobody is at an upstream and nobody holds a permit.
LEMMA PathInvInit == PathInit => PathInv
BY DEF PathInit, G!Init, G!GatewayInit, Init, PathInv, PathTypeOK, PermitsMatchFetches,
       Held, G!Phases

\* Every way into the fetch takes a permit and every way out of it uses the
\* permit; nothing else touches either.
LEMMA PathInvNext == PathInv /\ [PathNext]_pathVars => PathInv'
<1> SUFFICES ASSUME PathInv, [PathNext]_pathVars PROVE PathInv'
  OBVIOUS
<1>1. PathTypeOK
  BY DEF PathInv
<1>2. ASSUME NEW r \in Requests, Forward(r) PROVE PathInv'
  <2>1. PICK k \in Upstreams : AcquireOrdinary(r, k) \/ AcquireProbe(r, k)
    BY <1>2 DEF Forward
  <2> QED
    BY <1>1, <1>2, <2>1, GatewayMoves, BreakerGrants, StepKeeps DEF Forward
<1>3. ASSUME NEW r \in Requests, RejectByCircuit(r) PROVE PathInv'
  <2>1. now' = now /\ permits' = permits
    BY <1>3 DEF RejectByCircuit, AcquireRejected, AcquireRejectedFull, vars
  <2> QED
    BY <1>1, <1>3, <2>1, GatewayMoves, StepKeeps DEF RejectByCircuit
<1>4. ASSUME NEW r \in Requests, Settle(r) PROVE PathInv'
  <2>1. now' = now /\ permits' = [permits EXCEPT ![r] = NoPermit]
    BY <1>4 DEF Settle, UpstreamResponds, UpstreamFails, ClientAborts,
                RecordSuccess, RecordFailure, Abandon, Finish
  <2>2. Moves(r, {"upstream"}, Away)
    BY <1>1, <1>4, GatewayMoves DEF Settle, UpstreamResponds, UpstreamFails, ClientAborts
  <2> QED
    BY <2>1, <2>2, StepKeeps
<1>5. ASSUME NEW r \in Requests, Elsewhere(r) \/ Recycle(r) PROVE PathInv'
  <2>1. Moves(r, Away, Away) /\ UNCHANGED breakerVars
    BY <1>1, <1>5, GatewayMoves
  <2> QED
    BY <2>1, StepKeeps DEF breakerVars, vars
<1>6. ASSUME pc' = pc, permits' = permits, now' \in Nat PROVE PathInv'
  BY <1>6 DEF PathInv, PathTypeOK, PermitsMatchFetches, Held
<1>7. ASSUME NEW v \in Versions, G!InstallSnapshot(v), UNCHANGED breakerVars PROVE PathInv'
  BY <1>1, <1>6, <1>7 DEF G!InstallSnapshot, G!gatewayVars, breakerVars, vars, PathTypeOK
<1>8. CASE G!BeginDrain /\ UNCHANGED breakerVars
  BY <1>1, <1>6, <1>8 DEF G!BeginDrain, breakerVars, vars, PathTypeOK
<1>9. CASE Tick /\ UNCHANGED gatewayVars
  <2>1. now' = now + 1 /\ now \in Nat /\ permits' = permits
    BY <1>1, <1>9 DEF Tick, PathTypeOK
  <2> QED
    BY <1>6, <1>9, <2>1 DEF gatewayVars
<1>10. CASE UNCHANGED pathVars
  BY <1>1, <1>6, <1>10 DEF pathVars, gatewayVars, breakerVars, vars, PathTypeOK
<1> QED
  BY <1>2, <1>3, <1>4, <1>5, <1>7, <1>8, <1>9, <1>10 DEF PathNext, Settle

-----------------------------------------------------------------------------
(* What holds of the request path                                          *)

\* A permit is outstanding exactly while its request is at the upstream.
THEOREM EveryPermitIsUsed == PathSpec => []PermitsMatchFetches
<1>1. PathInv => PermitsMatchFetches
  BY DEF PathInv
<1> QED
  BY <1>1, PathInvInit, PathInvNext, PTL DEF PathSpec

\* The gateway drives the breaker as CircuitBreaker says it is driven: what is
\* proved there of any caller holds behind the gateway.
THEOREM GatewayDrivesTheBreaker == PathSpec => Spec
<1>1. PathInit => Init
  BY DEF PathInit
<1>2. [PathNext]_pathVars => [Next]_vars
  <2> SUFFICES ASSUME [PathNext]_pathVars
               PROVE  Next \/ UNCHANGED vars
    OBVIOUS
  <2>1. ASSUME NEW r \in Requests,
               \/ Forward(r) \/ RejectByCircuit(r) \/ UpstreamResponds(r)
               \/ UpstreamFails(r) \/ ClientAborts(r)
        PROVE  Next
    BY <2>1 DEF Forward, RejectByCircuit, UpstreamResponds, UpstreamFails, ClientAborts, Next
  <2>2. ASSUME NEW r \in Requests, Elsewhere(r) \/ Recycle(r)
        PROVE  UNCHANGED vars
    BY <2>2 DEF Elsewhere, Recycle, breakerVars, vars
  <2>3. CASE Tick
    BY <2>3 DEF Next
  <2>4. CASE UNCHANGED breakerVars \/ UNCHANGED pathVars
    BY <2>4 DEF pathVars, breakerVars, vars
  <2> QED
    BY <2>1, <2>2, <2>3, <2>4 DEF PathNext
<1> QED
  BY <1>1, <1>2, PTL DEF PathSpec, Spec

\* The breaker's own promises hold of the requests the gateway serves.
THEOREM BreakerBehindTheGateway ==
  PathSpec => /\ []RetainedWithinBound
              /\ []GaugeCountsUnavailable
              /\ []OpensOnlyAfterFailures
              /\ RecoversOnlyBySuccess
BY GatewayDrivesTheBreaker, MapIsBounded, GaugeIsExact, NoSpuriousOpen, RecoveryNeedsSuccess, PTL

\* A half open circuit is always being decided by a request that is at its
\* upstream; if fetches end within the open period, no other request is there.
ProbeIsAtTheUpstream ==
  \A k \in Upstreams :
    circuits[k].state = "half_open" =>
      \E r \in Requests :
        /\ pc[r] = "upstream"
        /\ permits[r].upstream = k
        /\ permits[r].probe
        /\ UpstreamTimeout < OpenDuration =>
             \A s \in Requests : pc[s] = "upstream" /\ permits[s].upstream = k => s = r

\* What the 503 upstream_circuit_open of a half open circuit rests on: the
\* gateway is waiting for an answer that will move the circuit on.
THEOREM RejectionsAwaitAProbe == PathSpec => []ProbeIsAtTheUpstream
<1>1. HalfOpenHasProbe /\ ProbeIsAlone /\ PermitsMatchFetches => ProbeIsAtTheUpstream
  <2> SUFFICES ASSUME HalfOpenHasProbe, ProbeIsAlone, PermitsMatchFetches,
                      NEW k \in Upstreams, circuits[k].state = "half_open"
               PROVE  \E r \in Requests :
                        /\ pc[r] = "upstream"
                        /\ permits[r].upstream = k
                        /\ permits[r].probe
                        /\ UpstreamTimeout < OpenDuration =>
                             \A s \in Requests :
                               pc[s] = "upstream" /\ permits[s].upstream = k => s = r
    BY DEF ProbeIsAtTheUpstream
  <2>1. PICK r \in Requests : HeldOn(r, k) /\ permits[r].probe
    BY DEF HalfOpenHasProbe
  <2>2. pc[r] = "upstream" /\ permits[r].upstream = k
    BY <2>1 DEF HeldOn, PermitsMatchFetches
  <2>3. ASSUME UpstreamTimeout < OpenDuration, NEW s \in Requests,
               pc[s] = "upstream", permits[s].upstream = k
        PROVE  s = r
    <3>1. HeldOn(s, k)
      BY <2>3 DEF HeldOn, PermitsMatchFetches
    <3> QED
      BY <2>1, <2>3, <3>1 DEF ProbeIsAlone
  <2> QED
    BY <2>1, <2>2, <2>3
<1> QED
  BY <1>1, GatewayDrivesTheBreaker, ProbeOutstanding, ProbeAlone, EveryPermitIsUsed, PTL

=============================================================================
