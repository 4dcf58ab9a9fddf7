------------------------- MODULE EdgeProcess_proofs -------------------------
(***************************************************************************)
(* Proofs about the edge process and the gateway in it, for any finite set *)
(* of requests, any limits, chunk sizes and policy versions.  First the    *)
(* steps of the requests, which know nothing of the process around them,   *)
(* then the process.                                                       *)
(***************************************************************************)
EXTENDS EdgeProcess, TLAPS, FiniteSetTheorems

-----------------------------------------------------------------------------
(* Sums over finite sets                                                   *)

\* MapThenSumSet, by the names of its parts: the element that is taken first,
\* the recursion, and the function that the recursion defines.
Pick(s) == CHOOSE x \in s : TRUE
Sums(f, D, g) ==
  g = [s \in D |-> IF s = {} THEN 0 ELSE f[Pick(s)] + g[s \ {Pick(s)}]]
Total(f, S) == CHOOSE g : Sums(f, SUBSET S, g)

\* Every set of natural numbers has a least element: what an induction needs,
\* without an operator for what is proved by it.
LEMMA NatMin ==
  ASSUME NEW T \in SUBSET Nat, T # {}
  PROVE \E n \in T : \A m \in T : n <= m
<1>1. IsWellFoundedOn(OpToRel(<,Nat), Nat)
  BY NatLessThanWellFounded, Zenon
<1>2. \E x \in T : \A y \in T : ~ (<<y, x>> \in OpToRel(<,Nat))
  BY <1>1, WFMin, Zenon
<1>3. \A x, y \in Nat : y < x => <<y, x>> \in OpToRel(<,Nat)
  BY DEF OpToRel
<1>4. PICK x \in T : \A y \in T : ~ (<<y, x>> \in OpToRel(<,Nat))
  BY <1>2, Zenon
<1>5. \A y \in T : ~ (y < x)
  BY <1>3, <1>4, Zenon
<1> QED
  BY <1>5

\* The recursion of MapThenSumSet has a solution: on the subsets with at most n
\* elements for every n, each solution extending the one before.
LEMMA SumsExist ==
  ASSUME NEW S, IsFiniteSet(S), NEW f \in [S -> Nat]
  PROVE  \E g : Sums(f, SUBSET S, g)
<1> DEFINE Small(n) == {s \in SUBSET S : Cardinality(s) <= n}
           Bad == {n \in Nat : ~ \E g : Sums(f, Small(n), g)}
<1>1. \A s \in SUBSET S : IsFiniteSet(s) /\ Cardinality(s) \in Nat /\ Cardinality(s) <= Cardinality(S)
   BY FS_Subset, FS_CardinalityType
<1>2. \A s \in SUBSET S : s # {} => /\ Pick(s) \in s /\ s \ {Pick(s)} \in SUBSET S 
                                    /\ Cardinality(s \ {Pick(s)}) = Cardinality(s) - 1
                                    /\ Cardinality(s) # 0
  <2> TAKE s \in SUBSET S
  <2> HAVE s # {}
  <2>1. Pick(s) \in s
    BY DEF Pick
  <2> QED
    BY <2>1, <1>1, FS_RemoveElement, FS_EmptySet
<1>3. Bad = {}
  <2> SUFFICES ASSUME Bad # {} PROVE FALSE
    OBVIOUS
  <2>1. PICK n \in Bad : \A m \in Bad : n <= m
    BY NatMin
  <2>2. CASE n = 0
    <3> DEFINE g == [s \in Small(0) |-> 0]
    <3>1. \A s \in Small(0) : s = {}
      BY <1>1, FS_EmptySet
    <3>2. Sums(f, Small(0), g)
      BY <3>1 DEF Sums
    <3> QED
      BY <2>2, <3>2
  <2>3. CASE n # 0
    <3>0. n \in Nat /\ n - 1 \in Nat /\ ~(n <= n - 1)
      BY <2>3
    <3>1. n - 1 \in Nat /\ n - 1 \notin Bad
      <4> HIDE DEF Bad
      <4> QED BY <2>1, <3>0
    <3>2. PICK g : Sums(f, Small(n - 1), g)
      BY <3>1
    <3> DEFINE h == [s \in Small(n) |-> IF s = {} THEN 0 ELSE f[Pick(s)] + g[s \ {Pick(s)}]]
    <3>3. \A s \in Small(n - 1) : s \in Small(n) /\ h[s] = g[s]
      <4>1. \A s \in Small(n - 1) : s \in Small(n)
        BY <1>1, <3>0
      <4>2. \A s \in Small(n - 1) : g[s] = IF s = {} THEN 0 ELSE f[Pick(s)] + g[s \ {Pick(s)}]
        <5> HIDE DEF Small
        <5> QED BY <3>2, Zenon DEF Sums
      <4> QED
        BY <4>1, <4>2
    <3>4. \A s \in Small(n) : s # {} => s \ {Pick(s)} \in Small(n - 1)
      BY <1>1, <1>2, <3>1
    <3>5. Sums(f, Small(n), h)
      <4>1. \A s \in Small(n) : h[s] = IF s = {} THEN 0 ELSE f[Pick(s)] + h[s \ {Pick(s)}]
        BY <3>3, <3>4
      <4> QED
        BY <4>1 DEF Sums
    <3> QED
      BY <3>5, <2>1
  <2> QED
    BY <2>2, <2>3
<1>4. Cardinality(S) \in Nat /\ Small(Cardinality(S)) = SUBSET S
  BY <1>1, FS_CardinalityType
<1> QED
  BY <1>3, <1>4

\* A sum in which only the elements of H contribute, and at most M each.
LEMMA SumBound ==
  ASSUME NEW S, IsFiniteSet(S), NEW f \in [S -> Nat], NEW H \in SUBSET S, NEW M \in Nat,
         \A x \in S : f[x] <= M /\ (x \notin H => f[x] = 0)
  PROVE  Total(f, S)[S] \in Nat /\ Total(f, S)[S] <= Cardinality(H) * M
<1> DEFINE g == Total(f, S)
           Ok(s) == g[s] \in Nat /\ g[s] <= Cardinality(s \cap H) * M
           Bad == {n \in Nat : \E s \in SUBSET S : Cardinality(s) = n /\ ~Ok(s)}
<1>1. \A s \in SUBSET S : g[s] = IF s = {} THEN 0 ELSE f[Pick(s)] + g[s \ {Pick(s)}]
  <2>1. Sums(f, SUBSET S, g)
    BY SumsExist DEF Total
  <2> HIDE DEF g
  <2> QED
    BY <2>1, Zenon DEF Sums
<1> HIDE DEF g
<1>2. \A s \in SUBSET S : IsFiniteSet(s) /\ Cardinality(s) \in Nat
  BY FS_Subset, FS_CardinalityType
<1>3. ASSUME NEW s \in SUBSET S, \A t \in SUBSET S : Cardinality(t) < Cardinality(s) => Ok(t)
      PROVE  Ok(s)
  <2>1. CASE s = {}
    <3>1. s \cap H = {}
      BY <2>1
    <3>2. g[s] = 0
      BY <1>1, <2>1
    <3>3. Cardinality(s \cap H) * M = 0
      BY <3>1, FS_EmptySet
    <3> QED
      BY <3>2, <3>3
  <2>2. CASE s # {}
    <3> DEFINE x == Pick(s)
               t == s \ {x}
    <3>1. x \in s /\ t \in SUBSET S
      BY <2>2 DEF Pick
    <3> HIDE DEF x
    <3>2. Cardinality(t) = Cardinality(s) - 1
      BY <3>1, <1>2, FS_RemoveElement
    <3>3. Ok(t)
      <4>1. Cardinality(t) < Cardinality(s)
        BY <3>1, <3>2, <1>2
      <4> HIDE DEF Ok
      <4> QED
        BY <3>1, <4>1, <1>3
    <3>4. g[s] = f[x] + g[t]
      BY <1>1, <2>2 DEF x
    <3>5. CASE x \in H
      <4>1. t \cap H = (s \cap H) \ {x} /\ s \cap H \in SUBSET S /\ x \in s \cap H
        BY <3>1, <3>5
      <4>2. Cardinality(t \cap H) = Cardinality(s \cap H) - 1 /\ Cardinality(s \cap H) \in Nat
        <5>1. IsFiniteSet(s \cap H) /\ Cardinality(s \cap H) \in Nat
          BY <4>1, <1>2
        <5>2. Cardinality((s \cap H) \ {x}) = Cardinality(s \cap H) - 1
          BY <4>1, <5>1, FS_RemoveElement
        <5> QED
          BY <4>1, <5>1, <5>2
      <4>3. f[x] \in Nat /\ f[x] <= M
        BY <3>1
      <4> DEFINE c == Cardinality(s \cap H)
      <4> HIDE DEF c
      <4>4. (c - 1) * M + M = c * M
        BY <4>2 DEF c
      <4>5. g[t] \in Nat /\ g[t] <= (c - 1) * M /\ c * M \in Nat /\ (c - 1) * M \in Int
        BY <3>3, <4>2 DEF c
      <4>6. g[s] \in Nat /\ g[s] <= c * M
        BY <3>4, <4>3, <4>4, <4>5
      <4> QED
        BY <4>6 DEF c
    <3>6. CASE x \notin H
      <4>1. t \cap H = s \cap H
        BY <3>6
      <4>2. f[x] = 0
        BY <3>1, <3>6
      <4> QED
        BY <3>3, <3>4, <4>1, <4>2
    <3> QED
      BY <3>5, <3>6
  <2> QED
    BY <2>1, <2>2
<1>4. Bad = {}
  <2> SUFFICES ASSUME Bad # {} PROVE FALSE
    OBVIOUS
  <2>1. PICK n \in Bad : \A m \in Bad : n <= m
    BY NatMin
  <2>2. PICK s \in SUBSET S : Cardinality(s) = n /\ ~Ok(s)
    BY <2>1
  <2>3. \A t \in SUBSET S : Cardinality(t) < n => Cardinality(t) \notin Bad
    <3> HIDE DEF Bad
    <3> QED BY <1>2, <2>1, <2>2
  <2>4. \A t \in SUBSET S : Cardinality(t) < Cardinality(s) => Ok(t)
    <3> HIDE DEF Ok
    <3> QED BY <1>2, <2>3, <2>2
  <2> QED
    BY <1>3, <2>2, <2>4
<1>5. Ok(S)
  <2> HIDE DEF Ok
  <2>1. Cardinality(S) \in Nat
    BY <1>2
  <2> QED BY <1>4, <2>1
<1>6. S \cap H = H
  OBVIOUS
<1> QED
  BY <1>5, <1>6 DEF g

-----------------------------------------------------------------------------
(* The inductive invariant of the gateway                                  *)

\* The phases between admission and the end of the response.
Admitted == {"body", "discarding", "policy", "upstream", "stream", "cancelling"}

\* A slot is given back only where the handler or its stream may do so, and a
\* body is kept only by a handler that has not answered yet.
RequestInv(r) ==
  /\ released[r] => pc[r] \in {"cancelling", "done", "aborted"}
  /\ buffered[r] # 0 => pc[r] \in {"body", "discarding", "policy", "upstream"}
  /\ audits[r] = IF pc[r] \in {"refused", "stream", "cancelling", "done"} THEN 1 ELSE 0
  /\ decidedBy[r] = decidedFor[r]
  /\ pc[r] \in {"policy", "upstream"} => decidedBy[r] \in Versions \ Unbuildable

\* The counter and the promise, seen with the drain that makes idleness final.
GateInv ==
  /\ active = Cardinality(Holders)
  /\ waiter # "none" => ~accepting
  /\ waiter = "waiting" => Holders # {}
  /\ waiter = "resolved" => Holders = {}

\* The engine is the one of the version recorded with it.
EngineInv == engine # NoVersion => activeVersion = engine

GatewayInv ==
  /\ TypeOK
  /\ \A r \in Requests : RequestInv(r)
  /\ GateInv
  /\ EngineInv

-----------------------------------------------------------------------------
(* The requests that hold a slot                                           *)

LEMMA HoldersAreFinite ==
  /\ IsFiniteSet(Holders)
  /\ Cardinality(Holders) \in Nat
  /\ Cardinality(Holders) = 0 <=> Holders = {}
<1>1. IsFiniteSet(Holders)
  <2>1. Holders \in SUBSET Requests
    BY DEF Holders
  <2> QED
    BY <2>1, FS_Subset, RequestsAssumption
<1> QED
  BY <1>1, FS_CardinalityType, FS_EmptySet

\* A slot more: the counter follows an admission.
LEMMA OneMoreHolder ==
  ASSUME NEW r \in Requests, GateInv, r \notin Holders, Holders' = Holders \cup {r}
  PROVE  active + 1 = Cardinality(Holders')
BY HoldersAreFinite, FS_AddElement DEF GateInv

\* Whatever a request does while it keeps its slot, the gate does not notice.
LEMMA SlotKept ==
  ASSUME GateInv, Holders' = Holders, UNCHANGED gateVars
  PROVE  GateInv'
BY DEF GateInv, gateVars

\* Release() of a request that leaves for a phase without a slot: exact for
\* the first call and without effect for a second one.
LEMMA SlotReleased ==
  ASSUME TypeOK, GateInv, NEW r \in Requests, pc[r] \in Admitted, Release(r),
         Holders' = Holders \ {r}
  PROVE  GateInv' /\ active' \in 0 .. MaxInFlight
<1>1. r \in Holders <=> ~released[r]
  BY DEF Holders, Admitted, TypeOK
<1>2. /\ IsFiniteSet(Holders \ {r})
      /\ Cardinality(Holders') = IF r \in Holders THEN Cardinality(Holders) - 1
                                                   ELSE Cardinality(Holders)
      /\ Cardinality(Holders') \in Nat
      /\ Cardinality(Holders') = 0 <=> Holders' = {}
  BY HoldersAreFinite, FS_RemoveElement, FS_CardinalityType, FS_EmptySet
<1>3. active' = Cardinality(Holders') /\ accepting' = accepting
  BY <1>1, <1>2 DEF Release, GateInv
<1>4. active' \in 0 .. MaxInFlight
  BY <1>2, <1>3, HoldersAreFinite, MaxInFlightAssumption DEF TypeOK, GateInv
<1>5. waiter' \in {"none", "waiting", "resolved"}
      /\ (waiter' # "none" => ~accepting')
      /\ (waiter' = "waiting" => Holders' # {})
      /\ (waiter' = "resolved" => Holders' = {})
  BY <1>2, <1>3 DEF Release, GateInv, TypeOK
<1> QED
  BY <1>3, <1>4, <1>5 DEF GateInv

-----------------------------------------------------------------------------
(* One lemma per kind of step                                              *)

\* A step that only moves r between phases of which both hold its slot.
LEMMA HoldersKept ==
  ASSUME TypeOK, NEW r \in Requests, NEW p \in Admitted, pc[r] \in Admitted,
         pc' = [pc EXCEPT ![r] = p], released' = released
  PROVE  Holders' = Holders
BY DEF Holders, Admitted, TypeOK

\* A step that gives r's slot back and leaves it where it holds none.
LEMMA HoldersFreed ==
  ASSUME TypeOK, NEW r \in Requests, NEW p, pc' = [pc EXCEPT ![r] = p],
         released' = [released EXCEPT ![r] = TRUE]
  PROVE  Holders' = Holders \ {r}
BY DEF Holders, TypeOK

\* An answer that the gateway builds itself, on any of the paths to one.
LEMMA ErrorAnswered ==
  ASSUME GatewayInv, NEW r \in Requests,
         pc[r] \in {"body", "discarding", "policy", "upstream"},
         RespondError(r), UNCHANGED <<decidedBy, decidedFor, policyVars>>
  PROVE  GatewayInv'
<1> USE DEF RespondError, Audit, DropBody, Goto, gateVars, policyVars
<1>1. GateInv'
  <2>1. "stream" \in Admitted /\ pc[r] \in Admitted
    BY DEF Admitted
  <2> QED
    BY <2>1, HoldersKept, SlotKept DEF GatewayInv
<1>2. TypeOK'
  BY BodyAssumption DEF GatewayInv, TypeOK, PolicyTypeOK, Phases
<1>3. \A q \in Requests : RequestInv(q)'
  BY DEF GatewayInv, TypeOK, RequestInv
<1>4. EngineInv'
  BY DEF GatewayInv, EngineInv
<1> QED
  BY <1>1, <1>2, <1>3, <1>4 DEF GatewayInv

\* The arrival: refused without a slot, or admitted with a new one.
LEMMA ArrivalStep ==
  ASSUME GatewayInv, NEW r \in Requests, Admit(r) \/ Refuse(r)
  PROVE  GatewayInv'
<1> USE DEF Goto, gateVars, policyVars, historyVars
<1>1. CASE Admit(r)
  <2>1. r \notin Holders /\ Holders' = Holders \cup {r}
    BY <1>1 DEF Admit, Holders, GatewayInv, TypeOK, RequestInv
  <2>2. active' = Cardinality(Holders') /\ accepting
    BY <1>1, <2>1, OneMoreHolder DEF GatewayInv, Admit, MayAdmit
  <2>3. GateInv'
    BY <1>1, <2>1, <2>2 DEF GatewayInv, GateInv, Admit
  <2>4. TypeOK'
    BY <1>1, MaxInFlightAssumption
       DEF GatewayInv, Admit, MayAdmit, TypeOK, PolicyTypeOK, Phases
  <2>5. (\A q \in Requests : RequestInv(q)') /\ EngineInv'
    BY <1>1 DEF GatewayInv, Admit, TypeOK, RequestInv, EngineInv
  <2> QED
    BY <2>3, <2>4, <2>5 DEF GatewayInv
<1>2. CASE Refuse(r)
  <2>1. Holders' = Holders
    BY <1>2 DEF Refuse, Holders, GatewayInv, TypeOK
  <2>2. GateInv'
    BY <1>2, <2>1, SlotKept DEF GatewayInv, Refuse
  <2>3. TypeOK'
    BY <1>2 DEF GatewayInv, Refuse, Audit, TypeOK, PolicyTypeOK, Phases
  <2>4. (\A q \in Requests : RequestInv(q)') /\ EngineInv'
    BY <1>2 DEF GatewayInv, Refuse, Audit, TypeOK, RequestInv, EngineInv
  <2> QED
    BY <2>2, <2>3, <2>4 DEF GatewayInv
<1> QED
  BY <1>1, <1>2

\* The body, read chunk by chunk, too large or refused.
LEMMA BodyStep ==
  ASSUME GatewayInv, NEW r \in Requests,
         \/ \E size \in ChunkSizes : ReadChunk(r, size) \/ BodyTooLarge(r, size)
         \/ BodyDiscarded(r) \/ RefuseBody(r)
  PROVE  GatewayInv'
<1>1. ASSUME NEW size \in ChunkSizes, ReadChunk(r, size) PROVE GatewayInv'
  <2> USE <1>1 DEF ReadChunk, gateVars, policyVars, historyVars
  <2>1. Holders' = Holders
    BY DEF Holders
  <2>2. GateInv'
    BY <2>1, SlotKept DEF GatewayInv
  <2>3. TypeOK'
    <3>1. buffered[r] + size \in 0 .. MaxBody
      BY BodyAssumption DEF GatewayInv, TypeOK, Fits
    <3> QED
      BY <3>1 DEF GatewayInv, TypeOK, PolicyTypeOK
  <2>4. (\A q \in Requests : RequestInv(q)') /\ EngineInv'
    BY DEF GatewayInv, TypeOK, RequestInv, EngineInv
  <2> QED
    BY <2>2, <2>3, <2>4 DEF GatewayInv
<1>2. ASSUME NEW size \in ChunkSizes, BodyTooLarge(r, size) PROVE GatewayInv'
  <2> USE <1>2 DEF BodyTooLarge, Goto, gateVars, policyVars, historyVars
  <2>1. "discarding" \in Admitted /\ pc[r] \in Admitted
    BY DEF Admitted
  <2>2. GateInv'
    BY <2>1, HoldersKept, SlotKept DEF GatewayInv
  <2>3. TypeOK'
    BY DEF GatewayInv, TypeOK, PolicyTypeOK, Phases
  <2>4. (\A q \in Requests : RequestInv(q)') /\ EngineInv'
    BY DEF GatewayInv, TypeOK, RequestInv, EngineInv
  <2> QED
    BY <2>2, <2>3, <2>4 DEF GatewayInv
<1>3. CASE BodyDiscarded(r) \/ RefuseBody(r)
  BY <1>3, ErrorAnswered DEF BodyDiscarded, RefuseBody
<1> QED
  BY <1>1, <1>2, <1>3

\* evaluate(): the engine that takes the request is the snapshot's.
LEMMA EvaluationStep ==
  ASSUME GatewayInv, NEW r \in Requests,
         BeginEvaluation(r) \/ EvaluationUnavailable(r) \/ Deny(r) \/ RejectByCircuit(r)
  PROVE  GatewayInv'
<1>1. CASE BeginEvaluation(r)
  <2> USE DEF BeginEvaluation, Goto
  <2>1. PICK v \in Versions :
          EvaluateBy(v) /\ decidedBy' = [decidedBy EXCEPT ![r] = v]
    BY <1>1
  <2>2. v = snapshot /\ snapshot \in Versions \ Unbuildable /\ snapshot' = snapshot
        /\ engine' = snapshot /\ activeVersion' = snapshot
    BY <2>1, VersionsAssumption
       DEF GatewayInv, TypeOK, PolicyTypeOK, EngineInv, EvaluateBy, MustRebuild, policyVars
  <2>3. GateInv'
    <3>1. "policy" \in Admitted /\ pc[r] \in Admitted
      BY <1>1 DEF Admitted
    <3> QED
      BY <1>1, <3>1, HoldersKept, SlotKept DEF GatewayInv, gateVars
  <2>4. TypeOK'
    BY <1>1, <2>1, <2>2 DEF GatewayInv, TypeOK, PolicyTypeOK, gateVars, Phases
  <2>5. (\A q \in Requests : RequestInv(q)') /\ EngineInv'
    BY <1>1, <2>1, <2>2 DEF GatewayInv, TypeOK, RequestInv, EngineInv, gateVars
  <2> QED
    BY <2>3, <2>4, <2>5 DEF GatewayInv
<1>2. CASE EvaluationUnavailable(r)
  BY <1>2, ErrorAnswered DEF EvaluationUnavailable, EvaluateFails
<1>3. CASE Deny(r) \/ RejectByCircuit(r)
  BY <1>3, ErrorAnswered DEF Deny, RejectByCircuit
<1> QED
  BY <1>1, <1>2, <1>3

\* Forwarding and every way out of the fetch, the answer without a body and
\* the client's departure included: these two give the slot back.
LEMMA UpstreamStep ==
  ASSUME GatewayInv, NEW r \in Requests,
         Forward(r) \/ UpstreamResponds(r) \/ UpstreamFails(r) \/ ClientAborts(r)
  PROVE  GatewayInv'
<1> USE DEF Goto, policyVars, historyVars
<1>1. CASE Forward(r)
  <2>1. GateInv'
    <3>1. "upstream" \in Admitted /\ pc[r] \in Admitted
      BY <1>1 DEF Forward, Admitted
    <3> QED
      BY <1>1, <3>1, HoldersKept, SlotKept DEF GatewayInv, Forward, gateVars
  <2>2. TypeOK'
    BY <1>1 DEF GatewayInv, Forward, gateVars, TypeOK, PolicyTypeOK, Phases
  <2>3. (\A q \in Requests : RequestInv(q)') /\ EngineInv'
    BY <1>1 DEF GatewayInv, Forward, gateVars, TypeOK, RequestInv, EngineInv
  <2> QED
    BY <2>1, <2>2, <2>3 DEF GatewayInv
<1>2. CASE UpstreamResponds(r) /\ Goto(r, "stream") /\ UNCHANGED gateVars
  <2>1. RespondError(r)
    BY <1>2 DEF UpstreamResponds, Respond, RespondError
  <2> QED
    BY <1>2, <2>1, ErrorAnswered DEF UpstreamResponds
<1>3. CASE UpstreamResponds(r) /\ Goto(r, "done") /\ Release(r)
  <2>1. GateInv' /\ active' \in 0 .. MaxInFlight
    <3>1. pc[r] \in Admitted
      BY <1>3 DEF UpstreamResponds, Admitted
    <3> QED
      BY <1>3, <3>1, HoldersFreed, SlotReleased DEF GatewayInv, Release
  <2>2. TypeOK'
    BY <1>3, <2>1, BodyAssumption
       DEF GatewayInv, UpstreamResponds, Respond, Audit, DropBody, Release, TypeOK, PolicyTypeOK, Phases
  <2>3. (\A q \in Requests : RequestInv(q)') /\ EngineInv'
    BY <1>3 DEF GatewayInv, UpstreamResponds, Respond, Audit, DropBody, Release, TypeOK,
                RequestInv, EngineInv
  <2> QED
    BY <2>1, <2>2, <2>3 DEF GatewayInv
<1>4. CASE UpstreamFails(r)
  BY <1>4, ErrorAnswered DEF UpstreamFails
<1>5. CASE ClientAborts(r)
  <2>1. GateInv' /\ active' \in 0 .. MaxInFlight
    <3>1. pc[r] \in Admitted
      BY <1>5 DEF ClientAborts, Admitted
    <3> QED
      BY <1>5, <3>1, HoldersFreed, SlotReleased DEF GatewayInv, Release, ClientAborts
  <2>2. TypeOK'
    BY <1>5, <2>1, BodyAssumption
       DEF GatewayInv, ClientAborts, DropBody, Release, TypeOK, PolicyTypeOK, Phases
  <2>3. (\A q \in Requests : RequestInv(q)') /\ EngineInv'
    BY <1>5 DEF GatewayInv, ClientAborts, DropBody, Release, TypeOK, RequestInv, EngineInv
  <2> QED
    BY <2>1, <2>2, <2>3 DEF GatewayInv
<1> QED
  BY <1>1, <1>2, <1>3, <1>4, <1>5 DEF UpstreamResponds, Respond

\* The response stream: its end may come before, during or instead of a
\* cancellation, and the slot is given back once.
LEMMA StreamStep ==
  ASSUME GatewayInv, NEW r \in Requests,
         StreamEnds(r) \/ ClientCancels(r) \/ CancelSettles(r)
  PROVE  GatewayInv'
<1> USE DEF Goto, policyVars, historyVars
<1>1. CASE StreamEnds(r)
  <2>1. pc[r] \in Admitted
    BY <1>1 DEF StreamEnds, Admitted
  <2>2. Holders' = Holders \ {r}
    BY <1>1 DEF GatewayInv, StreamEnds, Release, Holders, TypeOK
  <2>3. GateInv' /\ active' \in 0 .. MaxInFlight
    BY <1>1, <2>1, <2>2, SlotReleased DEF GatewayInv, StreamEnds
  <2>4. TypeOK'
    BY <1>1, <2>3 DEF GatewayInv, StreamEnds, Release, TypeOK, PolicyTypeOK, Phases
  <2>5. (\A q \in Requests : RequestInv(q)') /\ EngineInv'
    BY <1>1 DEF GatewayInv, StreamEnds, Release, TypeOK, RequestInv, EngineInv
  <2> QED
    BY <2>3, <2>4, <2>5 DEF GatewayInv
<1>2. CASE ClientCancels(r)
  <2>1. GateInv'
    <3>1. "cancelling" \in Admitted /\ pc[r] \in Admitted
      BY <1>2 DEF ClientCancels, Admitted
    <3> QED
      BY <1>2, <3>1, HoldersKept, SlotKept DEF GatewayInv, ClientCancels, gateVars
  <2>2. TypeOK'
    BY <1>2 DEF GatewayInv, ClientCancels, gateVars, TypeOK, PolicyTypeOK, Phases
  <2>3. (\A q \in Requests : RequestInv(q)') /\ EngineInv'
    BY <1>2 DEF GatewayInv, ClientCancels, gateVars, TypeOK, RequestInv, EngineInv
  <2> QED
    BY <2>1, <2>2, <2>3 DEF GatewayInv
<1>3. CASE CancelSettles(r)
  <2>1. GateInv' /\ active' \in 0 .. MaxInFlight
    <3>1. pc[r] \in Admitted
      BY <1>3 DEF CancelSettles, Admitted
    <3> QED
      BY <1>3, <3>1, HoldersFreed, SlotReleased DEF GatewayInv, CancelSettles, Release
  <2>2. TypeOK'
    BY <1>3, <2>1 DEF GatewayInv, CancelSettles, Release, TypeOK, PolicyTypeOK, Phases
  <2>3. (\A q \in Requests : RequestInv(q)') /\ EngineInv'
    BY <1>3 DEF GatewayInv, CancelSettles, Release, TypeOK, RequestInv, EngineInv
  <2> QED
    BY <2>1, <2>2, <2>3 DEF GatewayInv
<1> QED
  BY <1>1, <1>2, <1>3

\* Any step of any request.
LEMMA RequestStepPreserves ==
  ASSUME GatewayInv, NEW r \in Requests, RequestStep(r)
  PROVE  GatewayInv'
BY ArrivalStep, BodyStep, EvaluationStep, UpstreamStep, StreamStep DEF RequestStep

\* Another snapshot does not touch what was decided or the engine in use.
LEMMA InstallPreserves ==
  ASSUME GatewayInv, NEW v \in Versions, InstallSnapshot(v)
  PROVE  GatewayInv'
<1> USE DEF InstallSnapshot, Install, gatewayVars, gateVars, historyVars
<1>1. Holders' = Holders
  BY DEF Holders
<1>2. GateInv'
  BY <1>1, SlotKept DEF GatewayInv
<1>3. TypeOK'
  BY DEF GatewayInv, TypeOK, PolicyTypeOK
<1>4. (\A q \in Requests : RequestInv(q)') /\ EngineInv'
  BY DEF GatewayInv, RequestInv, EngineInv
<1> QED
  BY <1>2, <1>3, <1>4 DEF GatewayInv

\* A step that leaves the gateway and the policy alone.
LEMMA GatewayUntouched ==
  ASSUME GatewayInv, UNCHANGED vars
  PROVE  GatewayInv' /\ Holders' = Holders
<1> USE DEF vars, gatewayVars, gateVars, historyVars, policyVars
<1>1. Holders' = Holders
  BY DEF Holders
<1>2. GateInv'
  BY <1>1, SlotKept DEF GatewayInv
<1>3. TypeOK'
  BY DEF GatewayInv, TypeOK, PolicyTypeOK
<1>4. (\A q \in Requests : RequestInv(q)') /\ EngineInv'
  BY DEF GatewayInv, RequestInv, EngineInv
<1> QED
  BY <1>1, <1>2, <1>3, <1>4 DEF GatewayInv

-----------------------------------------------------------------------------
(* The inductive invariant of the process                                  *)

\* Until main() listens nothing has started that would have to be stopped, and
\* no request has arrived.
StartInv ==
  main \in {"connecting", "loading", "failed"} =>
    /\ server = "off" /\ deps = "off" /\ tls = "off"
    /\ ~forced /\ ~serverFailed /\ ~errors
    /\ snapshot = NoVersion /\ accepting
    /\ \A r \in Requests : pc[r] = "new"
    /\ main = "failed" => limiter = "closed"

\* While main() serves, and later while shutdown() waits, the dependencies run
\* unless the server's error has stopped them.
ServingInv ==
  main \in {"serving", "waiting"} =>
    /\ ~forced /\ ~errors
    /\ deps # "off"
    /\ serverFailed <=> deps # "running"
    /\ main = "serving" => server = "open" /\ (serverFailed <=> ~accepting)

\* Once shutdown() has been called the gate is closed for good, somebody waits
\* for idleness, the server closes and the reloaders are off.
ClosingInv ==
  main \in {"waiting", "stopping", "finished"} =>
    ~accepting /\ waiter # "none" /\ server \notin {"off", "open"} /\ tls = "off"

\* The race has been decided: a shutdown that was not forced saw idleness and
\* the server's answer, whose error it remembers.
DecidedInv ==
  main \in {"stopping", "finished"} =>
    /\ deps \in {"stopping", "stopped"}
    /\ ~forced => /\ waiter = "resolved"
                  /\ server = IF errors THEN "closed_with_error" ELSE "closed"

FinishedInv ==
  main = "finished" =>
    /\ deps = "stopped" /\ limiter = "closed"
    /\ forced \/ errors => exitCode = 1

\* The server's error is never forgotten in the exit code.
FailureInv == serverFailed => exitCode = 1 /\ deps # "running"

ProcessInv ==
  /\ ProcessTypeOK /\ GatewayInv
  /\ StartInv /\ ServingInv /\ ClosingInv /\ DecidedInv /\ FinishedInv /\ FailureInv

LEMMA ProcessInvInit == ProcessInit => ProcessInv
<1> SUFFICES ASSUME ProcessInit PROVE ProcessInv
  OBVIOUS
<1> USE DEF ProcessInit, GatewayInit
<1>1. Holders = {}
  BY DEF Holders
<1>2. GateInv
  BY <1>1, FS_EmptySet DEF GateInv
<1>3. TypeOK
  BY BodyAssumption, MaxInFlightAssumption DEF TypeOK, PolicyTypeOK, Phases
<1>4. (\A r \in Requests : RequestInv(r)) /\ EngineInv
  BY DEF RequestInv, EngineInv
<1>5. ProcessTypeOK
  BY <1>3 DEF ProcessTypeOK
<1>6. StartInv /\ ServingInv /\ ClosingInv /\ DecidedInv /\ FinishedInv /\ FailureInv
  BY DEF StartInv, ServingInv, ClosingInv, DecidedInv, FinishedInv, FailureInv
<1> QED
  BY <1>2, <1>3, <1>4, <1>5, <1>6 DEF ProcessInv, GatewayInv

\* What a request's step can do to the gate as shutdown() sees it: it may
\* resolve the promise, and nothing else.
LEMMA RequestStepAtTheGate ==
  ASSUME TypeOK, NEW r \in Requests, RequestStep(r)
  PROVE  /\ accepting' = accepting
         /\ waiter' = waiter \/ (waiter = "waiting" /\ waiter' = "resolved")
BY DEF RequestStep, Admit, Refuse, ReadChunk, BodyTooLarge, BodyDiscarded, RefuseBody, BeginEvaluation,
       EvaluationUnavailable, Deny, RejectByCircuit, Forward, UpstreamResponds, UpstreamFails,
       ClientAborts, StreamEnds, ClientCancels, CancelSettles, Respond, RespondError, Release,
       gateVars

\* Closing the gate preserves the gateway's invariant; the promise made with
\* it is what waitForIdle() returns.
LEMMA DrainPreserves ==
  ASSUME GatewayInv, accepting' = FALSE,
         UNCHANGED <<pc, active, buffered, released, historyVars, policyVars>>,
         waiter' \in {waiter, IdlePromise}
  PROVE  GatewayInv'
<1>1. Holders' = Holders
  BY DEF Holders
<1>2. GateInv'
  BY <1>1, HoldersAreFinite DEF GatewayInv, GateInv, IdlePromise
<1>3. TypeOK'
  BY DEF GatewayInv, TypeOK, PolicyTypeOK, IdlePromise, historyVars, policyVars
<1>4. (\A q \in Requests : RequestInv(q)') /\ EngineInv'
  BY DEF GatewayInv, RequestInv, EngineInv, historyVars, policyVars
<1> QED
  BY <1>2, <1>3, <1>4 DEF GatewayInv

\* Every step of main(), of shutdown(), of the server, of the backend and of the
\* requests preserves the invariant.
LEMMA ProcessInvNext == ProcessInv /\ [ProcessNext]_allVars => ProcessInv'
<1> SUFFICES ASSUME ProcessInv, [ProcessNext]_allVars PROVE ProcessInv'
  OBVIOUS
<1> USE DEF ProcessInv, ProcessTypeOK
<1> DEFINE Parts == StartInv /\ ServingInv /\ ClosingInv /\ DecidedInv /\ FinishedInv /\ FailureInv
<1>a. ASSUME GatewayInv', ProcessTypeOK', Parts' PROVE ProcessInv'
  BY <1>a
<1>b. ASSUME UNCHANGED vars PROVE GatewayInv' /\ TypeOK' /\ waiter' = waiter
         /\ accepting' = accepting /\ pc' = pc /\ snapshot' = snapshot
  BY <1>b, GatewayUntouched DEF GatewayInv, vars, gatewayVars, gateVars, policyVars
<1> HIDE DEF ProcessInv
<1>0. ProcessTypeOK /\ GatewayInv /\ Parts
  BY DEF ProcessInv
<1> USE DEF StartInv, ServingInv, ClosingInv, DecidedInv, FinishedInv, FailureInv
<1>1. CASE LimiterConnects \/ LimiterUnavailable \/ StartFails
  <2>1. ProcessTypeOK' /\ Parts'
    BY <1>0, <1>1, <1>b DEF LimiterConnects, LimiterUnavailable, StartFails
  <2> QED
    BY <1>a, <1>b, <1>1, <2>1 DEF LimiterConnects, LimiterUnavailable, StartFails
<1>2. ASSUME NEW v \in Versions, StartServing(v) PROVE ProcessInv'
  <2>1. GatewayInv'
    BY <1>0, <1>2, InstallPreserves DEF StartServing
  <2>2. ProcessTypeOK' /\ Parts'
    BY <1>0, <1>2, <2>1 DEF StartServing, InstallSnapshot, GatewayInv, gatewayVars, gateVars
  <2> QED
    BY <1>a, <2>1, <2>2
<1>3. CASE LimiterConnection
  <2>1. ProcessTypeOK' /\ Parts'
    BY <1>0, <1>3, <1>b DEF LimiterConnection
  <2> QED
    BY <1>a, <1>b, <1>3, <2>1 DEF LimiterConnection
<1>4. CASE GatewayRuns
  <2>1. GatewayInv'
    BY <1>0, <1>4, RequestStepPreserves, InstallPreserves DEF GatewayRuns
  <2>2. accepting' = accepting
        /\ (waiter' = waiter \/ (waiter = "waiting" /\ waiter' = "resolved"))
    BY <1>0, <1>4, RequestStepAtTheGate
       DEF GatewayRuns, GatewayInv, InstallSnapshot, gatewayVars, gateVars
  <2>3. ProcessTypeOK' /\ Parts'
    BY <1>0, <1>4, <2>1, <2>2 DEF GatewayRuns, GatewayInv, shutdownVars, startVars
  <2> QED
    BY <1>a, <2>1, <2>3
<1>5. CASE Signal
  <2>1. GatewayInv'
    BY <1>0, <1>5, DrainPreserves DEF Signal
  <2>2. ProcessTypeOK' /\ Parts'
    BY <1>0, <1>5, <2>1 DEF Signal, GatewayInv, IdlePromise
  <2> QED
    BY <1>a, <2>1, <2>2
<1>6. ASSUME NEW result \in {"closed", "closed_with_error"}, ServerCloses(result)
      PROVE  ProcessInv'
  <2>1. ProcessTypeOK' /\ Parts'
    BY <1>0, <1>6, <1>b DEF ServerCloses, startVars
  <2> QED
    BY <1>a, <1>b, <1>6, <2>1 DEF ServerCloses
<1>7. CASE DrainCompletes
  <2> USE <1>7 DEF DrainCompletes, Completed, StopDependencies, startVars
  <2>1. /\ main = "waiting" /\ main' = "stopping"
        /\ deps' \in {"stopping", "stopped"} /\ limiter' = limiter /\ tls' = "off"
        /\ ~forced /\ ~forced' /\ serverFailed' = serverFailed /\ exitCode' = exitCode
    BY <1>0
  <2>2. /\ GatewayInv' /\ TypeOK' /\ ~accepting' /\ waiter' = "resolved"
        /\ server' = server /\ server \in {"closed", "closed_with_error"}
    BY <1>0, <1>b
  <2>3. errors' \in BOOLEAN /\ server' = IF errors' THEN "closed_with_error" ELSE "closed"
    BY <2>2
  <2>4. ProcessTypeOK' /\ Parts'
    BY <1>0, <2>1, <2>2, <2>3
  <2> QED
    BY <1>a, <2>2, <2>4
<1>8. CASE GraceExpires
  <2>1. ProcessTypeOK' /\ Parts'
    BY <1>0, <1>8, <1>b DEF GraceExpires, StopDependencies, startVars
  <2> QED
    BY <1>a, <1>b, <1>8, <2>1 DEF GraceExpires
<1>9. ASSUME NEW failed \in BOOLEAN, ShutdownFinishes(failed) PROVE ProcessInv'
  <2>1. ProcessTypeOK' /\ Parts'
    BY <1>0, <1>9, <1>b DEF ShutdownFinishes, Report
  <2> QED
    BY <1>a, <1>b, <1>9, <2>1 DEF ShutdownFinishes
<1>10. CASE ServerError
  <2>1. GatewayInv'
    BY <1>0, <1>10, DrainPreserves DEF ServerError
  <2>2. ProcessTypeOK' /\ Parts'
    BY <1>0, <1>10, <2>1 DEF ServerError, StopDependencies, GatewayInv
  <2> QED
    BY <1>a, <2>1, <2>2
<1>11. CASE ErrorStopSettles
  <2>1. ProcessTypeOK' /\ Parts'
    BY <1>0, <1>11, <1>b DEF ErrorStopSettles
  <2> QED
    BY <1>a, <1>b, <1>11, <2>1 DEF ErrorStopSettles
<1>12. CASE UNCHANGED allVars
  <2>1. ProcessTypeOK' /\ Parts'
    BY <1>0, <1>12, <1>b DEF allVars, shutdownVars, startVars
  <2> QED
    BY <1>a, <1>b, <1>12, <2>1 DEF allVars
<1> QED
  BY <1>1, <1>2, <1>3, <1>4, <1>5, <1>6, <1>7, <1>8, <1>9, <1>10, <1>11, <1>12
     DEF ProcessNext

LEMMA ProcessInvHolds == ProcessSpec => []ProcessInv
BY ProcessInvInit, ProcessInvNext, PTL DEF ProcessSpec

-----------------------------------------------------------------------------
(* What the invariant implies                                              *)

\* The state of the process and of the gateway in it has its types: the gate's
\* counter in particular never leaves 0 .. MaxInFlight, and no body grows past
\* its limit.
THEOREM ProcessTypeCorrect == ProcessSpec => []ProcessTypeOK
<1>1. ProcessInv => ProcessTypeOK
  BY DEF ProcessInv
<1> QED
  BY <1>1, ProcessInvHolds, PTL

\* No path out of the handler or its stream leaks a slot or gives one back
\* twice, and the promise of waitForIdle() is kept, for any number of requests.
THEOREM GateExact == ProcessSpec => []GateIsExact
<1>1. ProcessInv => GateIsExact
  BY DEF ProcessInv, GatewayInv, GateInv, GateIsExact
<1> QED
  BY <1>1, ProcessInvHolds, PTL

\* However bodies are cut into chunks and whatever ends a request early, they
\* take together no more than all slots at the limit of one body.
THEOREM BodiesStayWithinBudget == ProcessSpec => []BodiesWithinBudget
<1>1. ProcessInv => BodiesWithinBudget
  <2> SUFFICES ASSUME ProcessInv PROVE BodiesWithinBudget
    OBVIOUS
  <2>1. TypeOK /\ GateInv /\ \A r \in Requests : RequestInv(r)
    BY DEF ProcessInv, GatewayInv
  <2>2. buffered \in [Requests -> Nat] /\ Holders \in SUBSET Requests /\ MaxBody \in Nat
    BY <2>1, BodyAssumption DEF TypeOK, Holders
  <2>3. \A r \in Requests : buffered[r] <= MaxBody /\ (r \notin Holders => buffered[r] = 0)
    BY <2>1, BodyAssumption DEF TypeOK, RequestInv, Holders
  <2>4. /\ Total(buffered, Requests)[Requests] \in Nat
        /\ Total(buffered, Requests)[Requests] <= Cardinality(Holders) * MaxBody
    BY <2>2, <2>3, SumBound, RequestsAssumption
  <2>5. Cardinality(Holders) * MaxBody <= MaxInFlight * MaxBody
    BY <2>1, <2>2, MaxInFlightAssumption DEF TypeOK, GateInv
  <2>6. Total(buffered, Requests)[Requests] <= MaxInFlight * MaxBody
    BY <2>2, <2>4, <2>5, HoldersAreFinite, MaxInFlightAssumption
  <2>7. MapThenSumSet(LAMBDA r : buffered[r], Requests) = Total(buffered, Requests)[Requests]
    BY Zenon DEF MapThenSumSet, MapThenFoldSet, Total, Sums, Pick
  <2> QED
    BY <2>6, <2>7, Zenon DEF BodiesWithinBudget
<1> QED
  BY <1>1, ProcessInvHolds, PTL

\* Every response is audited exactly once.
THEOREM EveryResponseAuditedOnce == ProcessSpec => []AuditedOnce
<1>1. ProcessInv => AuditedOnce
  BY DEF ProcessInv, GatewayInv, RequestInv, AuditedOnce
<1> QED
  BY <1>1, ProcessInvHolds, PTL

\* A request is decided by the policy that was current when its evaluation
\* began, whatever is installed meanwhile.
THEOREM DecisionsFollowSnapshots == ProcessSpec => []DecidedByItsSnapshot
<1>1. ProcessInv => DecidedByItsSnapshot
  BY DEF ProcessInv, GatewayInv, RequestInv, DecidedByItsSnapshot
<1> QED
  BY <1>1, ProcessInvHolds, PTL

\* The rate limiter and the synchronization outlive the requests unless the
\* grace period expired or the server failed.
THEOREM RequestsKeepTheirDependencies == ProcessSpec => []DependenciesOutliveRequests
<1>1. ProcessInv => DependenciesOutliveRequests
  <2> SUFFICES ASSUME ProcessInv, deps # "running", ~forced, ~serverFailed
               PROVE  Holders = {}
    BY DEF DependenciesOutliveRequests
  <2>1. CASE main \in {"connecting", "loading", "failed"}
    BY <2>1 DEF ProcessInv, StartInv, Holders
  <2>2. CASE main \in {"serving", "waiting"}
    BY <2>2 DEF ProcessInv, ServingInv
  <2>3. CASE main \in {"stopping", "finished"}
    BY <2>3 DEF ProcessInv, DecidedInv, GatewayInv, GateInv
  <2> QED
    BY <2>1, <2>2, <2>3 DEF ProcessInv, ProcessTypeOK
<1> QED
  BY <1>1, ProcessInvHolds, PTL

\* Exit status 0 is reported only for a shutdown that drained.
THEOREM SuccessIsClean == ProcessSpec => []SuccessMeansDrained
<1>1. ProcessInv => SuccessMeansDrained
  <2> SUFFICES ASSUME ProcessInv, main = "finished", exitCode = 0
               PROVE  Holders = {} /\ ~accepting /\ server = "closed"
    BY DEF SuccessMeansDrained
  <2>1. ~forced /\ ~errors
    BY DEF ProcessInv, FinishedInv
  <2> QED
    BY <2>1 DEF ProcessInv, DecidedInv, ClosingInv, GatewayInv, GateInv
<1> QED
  BY <1>1, ProcessInvHolds, PTL

\* /readyz answers 200 only while the edge serves with everything it needs.
THEOREM ReadinessIsTruthful == ProcessSpec => []ReadyMeansServing
<1>1. ProcessInv => ReadyMeansServing
  BY DEF ProcessInv, ProcessTypeOK, StartInv, ServingInv, ClosingInv, Ready, ReadyMeansServing
<1> QED
  BY <1>1, ProcessInvHolds, PTL

\* A process whose main() failed or whose shutdown ended can exit.
THEOREM EndedMeansNothingRuns == ProcessSpec => []NothingKeepsItAlive
<1>1. ProcessInv => NothingKeepsItAlive
  BY DEF ProcessInv, StartInv, ClosingInv, FinishedInv, NothingKeepsItAlive
<1> QED
  BY <1>1, ProcessInvHolds, PTL

=============================================================================
