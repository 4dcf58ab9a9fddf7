------------------------- MODULE ControlPlane_proofs -------------------------
(***************************************************************************)
(* Proofs about the control plane: the bundle store for any number of      *)
(* subscribers and publications, the key files for any number of runs of   *)
(* keygen, and what holds of both in the process that composes them.       *)
(***************************************************************************)
EXTENDS ControlPlane, TLAPS

-----------------------------------------------------------------------------
(* The bundle store                                                        *)

\* The empty store satisfies the invariant.
LEMMA StoreInit == Init => StoreInv
  BY DEF Init, StoreInv, TypeOK, NewestReachesEveryone, SendsToOpenChannels

\* Every step of the publisher and of the handlers keeps the invariant, those
\* between the selects of pushLatest included.
LEMMA StoreStep == StoreInv /\ [Next]_vars => StoreInv'
<1> SUFFICES ASSUME StoreInv, [Next]_vars PROVE StoreInv'
  OBVIOUS
<1> USE StoreAssumption DEF StoreInv, TypeOK, NewestReachesEveryone, SendsToOpenChannels
<1>1. CASE Publish
  BY <1>1 DEF Publish
<1>2. ASSUME NEW s \in Subscribers, PickSubscriber(s)
      PROVE  StoreInv'
  BY <1>2 DEF PickSubscriber
<1>3. ASSUME Sent, target \in todo, channel[target] = 0,
             UNCHANGED <<current, open, received, target>>
      PROVE  StoreInv'
  BY <1>3 DEF Sent, PushedVersion
<1>4. CASE TrySend
  BY <1>3, <1>4 DEF TrySend
<1>5. CASE Drain
  BY <1>5 DEF Drain
<1>6. CASE Retry
  BY <1>3, <1>6 DEF Retry
<1>7. CASE PublishReturns
  BY <1>7 DEF PublishReturns
<1>8. ASSUME NEW s \in Subscribers, Subscribe(s)
      PROVE  StoreInv'
  BY <1>8 DEF Subscribe, MutexFree
<1>9. ASSUME NEW s \in Subscribers, Receive(s)
      PROVE  StoreInv'
  BY <1>9 DEF Receive
<1>10. ASSUME NEW s \in Subscribers, Cancel(s)
       PROVE  StoreInv'
  BY <1>10 DEF Cancel, MutexFree
<1>11. CASE UNCHANGED vars
  BY <1>11 DEF vars
<1> QED
  BY <1>1, <1>2, <1>4, <1>5, <1>6, <1>7, <1>8, <1>9, <1>10, <1>11 DEF Next

\* The invariant holds in every reachable state.
LEMMA StoreInvariant == Spec => []StoreInv
  BY StoreInit, StoreStep, PTL DEF Spec

\* No subscriber the publisher is done with is left behind, in spite of
\* receives between the selects of pushLatest.
THEOREM NoSubscriberLeftBehind == Spec => []NewestReachesEveryone
<1>1. StoreInv => NewestReachesEveryone
  BY DEF StoreInv
<1> QED  BY <1>1, StoreInvariant, PTL

\* The publisher never sends on a closed channel.
THEOREM NoSendOnClosed == Spec => []SendsToOpenChannels
<1>1. StoreInv => SendsToOpenChannels
  BY DEF StoreInv
<1> QED  BY <1>1, StoreInvariant, PTL

-----------------------------------------------------------------------------
(* Refinement                                                              *)

\* A step of the store is a step of the register or leaves it as it is.
LEMMA StepRefines ==
  StoreInv /\ [Next]_vars => [Abstract!LatestNext]_(Abstract!latestVars)
<1> SUFFICES ASSUME StoreInv, [Next]_vars
             PROVE  Abstract!LatestNext \/ UNCHANGED <<current, open, received>>
  BY DEF Abstract!latestVars
<1>1. CASE Publish
  BY <1>1 DEF Publish, Abstract!LatestNext, Abstract!Publish
<1>2. ASSUME NEW s \in Subscribers, PickSubscriber(s)
      PROVE  UNCHANGED <<current, open, received>>
  BY <1>2 DEF PickSubscriber
<1>3. CASE TrySend \/ Drain \/ Retry \/ PublishReturns
  BY <1>3 DEF TrySend, Drain, Retry, PublishReturns
<1>4. ASSUME NEW s \in Subscribers, Subscribe(s)
      PROVE  Abstract!Join(s)
  BY <1>4 DEF Subscribe, Abstract!Join
\* What a handler takes from its channel is newer than what it had.
<1>5. ASSUME NEW s \in Subscribers, Receive(s)
      PROVE  Abstract!Observe(s)
  <2>1. channel[s] \in received[s] + 1 .. current
    BY <1>5 DEF Receive, StoreInv, TypeOK
  <2> QED  BY <1>5, <2>1 DEF Receive, Abstract!Observe
<1>6. ASSUME NEW s \in Subscribers, Cancel(s)
      PROVE  Abstract!Leave(s)
  BY <1>6 DEF Cancel, Abstract!Leave
<1>7. CASE UNCHANGED vars
  BY <1>7 DEF vars
<1> QED
  BY <1>1, <1>2, <1>3, <1>4, <1>5, <1>6, <1>7 DEF Next, Abstract!LatestNext

\* The store implements the register that LatestValue specifies.
THEOREM StoreRefines == Spec => ImplementsLatestValue
<1>1. Init => Abstract!LatestInit
  BY DEF Init, Abstract!LatestInit
<1> QED
  BY <1>1, StoreInvariant, StepRefines, PTL
  DEF Spec, ImplementsLatestValue, Abstract!LatestSpec

-----------------------------------------------------------------------------
(* The key files                                                           *)

\* Which files a run of keygen has to itself at each of its steps.  As the
\* public file is created first and exclusively, it is a lock: nobody else is
\* past OpenPublic while it exists, and a private file never exists without it.
FilesOf(k) ==
  /\ keygen[k] = "public" => publicFile = Opened(k) /\ privateFile = Absent
  /\ keygen[k] \in {"between", "cleanup"} => publicFile = Written(k) /\ privateFile = Absent
  /\ keygen[k] = "private" => publicFile = Written(k) /\ privateFile = Opened(k)

PrivateImpliesPublic ==
  privateFile # Absent => publicFile = Written(privateFile.owner)

KeyInv ==
  /\ KeyTypeOK
  /\ \A k \in Keygens : FilesOf(k)
  /\ PrivateImpliesPublic

\* A file known by its owner and its completeness: the three kinds differ, and
\* so do the files of different runs.
LEMMA FilesDiffer ==
  ASSUME NEW j \in Keygens, NEW k \in Keygens
  PROVE  /\ Opened(k) # Absent /\ Written(k) # Absent /\ Opened(j) # Written(k)
         /\ Opened(j) = Opened(k) => j = k
         /\ Written(j) = Written(k) => j = k
         /\ Opened(k).owner = k /\ Written(k).owner = k
         /\ ~Opened(k).complete /\ Written(k).complete /\ ~Absent.complete
BY KeygenAssumption DEF Opened, Written, Absent

\* Before the first run there are no files.
LEMMA KeyInvInit == KeyInit => KeyInv
BY DEF KeyInit, KeyInv, KeyTypeOK, FilesOf, PrivateImpliesPublic

\* Every step of a run of keygen, its death and the operator's clearing of the
\* files preserve the invariant.
LEMMA KeyInvNext == KeyInv /\ [KeyNext]_keyVars => KeyInv'
<1> SUFFICES ASSUME KeyInv, [KeyNext]_keyVars PROVE KeyInv'
  OBVIOUS
<1> USE DEF KeyInv, KeyTypeOK
<1>1. ASSUME NEW k \in Keygens, OpenPublic(k) PROVE KeyInv'
  <2>1. CASE Creates(publicFile)
    <3>1. publicFile = Absent /\ publicFile' = Opened(k) /\ privateFile' = privateFile
          /\ keygen' = [keygen EXCEPT ![k] = "public"]
      BY <1>1, <2>1 DEF OpenPublic, Creates, Becomes
    <3>2. privateFile = Absent
      <4>1. CASE privateFile # Absent
        <5>1. privateFile.owner \in Keygens
          BY <4>1, FilesDiffer
        <5> QED
          BY <4>1, <5>1, <3>1, FilesDiffer DEF PrivateImpliesPublic
      <4> QED
        BY <4>1
    <3>3. \A j \in Keygens : keygen[j] \notin {"public", "between", "cleanup", "private"}
      BY <3>1, FilesDiffer DEF FilesOf
    <3> QED
      BY <3>1, <3>2, <3>3 DEF FilesOf, PrivateImpliesPublic
  <2>2. CASE ~Creates(publicFile)
    BY <1>1, <2>2 DEF OpenPublic, Becomes, FilesOf, PrivateImpliesPublic
  <2> QED
    BY <2>1, <2>2
<1>2. ASSUME NEW k \in Keygens, WritePublic(k) PROVE KeyInv'
  <2>1. publicFile = Opened(k) /\ privateFile = Absent /\ privateFile' = Absent
    BY <1>2 DEF WritePublic, FilesOf
  <2>2. \A j \in Keygens : j # k =>
          keygen[j] \notin {"public", "between", "cleanup", "private"}
    BY <2>1, FilesDiffer DEF FilesOf
  <2>3. \/ publicFile' = Written(k) /\ keygen' = [keygen EXCEPT ![k] = "between"]
        \/ publicFile' = Absent /\ keygen' = [keygen EXCEPT ![k] = "failed"]
    BY <1>2 DEF WritePublic, Becomes
  <2> QED
    BY <2>1, <2>2, <2>3 DEF FilesOf, PrivateImpliesPublic
<1>3. ASSUME NEW k \in Keygens, OpenPrivate(k) PROVE KeyInv'
  <2>1. publicFile = Written(k) /\ privateFile = Absent /\ publicFile' = Written(k)
    BY <1>3 DEF OpenPrivate, FilesOf
  <2>2. \A j \in Keygens : j # k =>
          keygen[j] \notin {"public", "between", "cleanup", "private"}
    BY <2>1, FilesDiffer DEF FilesOf
  <2>3. privateFile' = Opened(k) /\ keygen' = [keygen EXCEPT ![k] = "private"]
    BY <1>3, <2>1 DEF OpenPrivate, Becomes, Creates
  <2> QED
    BY <2>1, <2>2, <2>3, FilesDiffer DEF FilesOf, PrivateImpliesPublic
<1>4. ASSUME NEW k \in Keygens, WritePrivate(k) PROVE KeyInv'
  <2>1. publicFile = Written(k) /\ publicFile' = Written(k)
    BY <1>4 DEF WritePrivate, FilesOf
  <2>2. \A j \in Keygens : j # k =>
          keygen[j] \notin {"public", "between", "cleanup", "private"}
    BY <2>1, FilesDiffer DEF FilesOf
  <2>3. \/ privateFile' = Written(k) /\ keygen' = [keygen EXCEPT ![k] = "succeeded"]
        \/ privateFile' = Absent /\ keygen' = [keygen EXCEPT ![k] = "cleanup"]
    BY <1>4 DEF WritePrivate, Becomes
  <2> QED
    BY <2>1, <2>2, <2>3, FilesDiffer DEF FilesOf, PrivateImpliesPublic
<1>5. ASSUME NEW k \in Keygens, RemovePublic(k) PROVE KeyInv'
  <2>1. publicFile = Written(k) /\ privateFile = Absent /\ privateFile' = Absent
    BY <1>5 DEF RemovePublic, FilesOf
  <2>2. \A j \in Keygens : j # k =>
          keygen[j] \notin {"public", "between", "cleanup", "private"}
    BY <2>1, FilesDiffer DEF FilesOf
  <2> QED
    BY <1>5, <2>1, <2>2 DEF RemovePublic, Becomes, FilesOf, PrivateImpliesPublic
<1>6. ASSUME NEW k \in Keygens, Kill(k) PROVE KeyInv'
  BY <1>6 DEF Kill, Becomes, FilesOf, PrivateImpliesPublic
<1>7. CASE ClearFiles
  <2>1. \A j \in Keygens : keygen[j] \notin {"public", "between", "cleanup", "private"}
    BY <1>7 DEF ClearFiles, Running
  <2> QED
    BY <1>7, <2>1 DEF ClearFiles, FilesOf, PrivateImpliesPublic
<1>8. CASE UNCHANGED keyVars
  BY <1>8 DEF keyVars, FilesOf, PrivateImpliesPublic
<1> QED
  BY <1>1, <1>2, <1>3, <1>4, <1>5, <1>6, <1>7, <1>8 DEF KeyNext

LEMMA KeyInvHolds == KeySpec => []KeyInv
BY KeyInvInit, KeyInvNext, PTL DEF KeySpec

\* The state of the key files has its types, for any number of runs.
THEOREM KeyTypeCorrect == KeySpec => []KeyTypeOK
<1>1. KeyInv => KeyTypeOK
  BY DEF KeyInv
<1> QED
  BY <1>1, KeyInvHolds, PTL

\* The invariant contains the promise.
LEMMA KeysMatch == KeyInv => PairMatches
<1> SUFFICES ASSUME KeyInv, privateFile.complete
             PROVE  publicFile.complete /\ publicFile.owner = privateFile.owner
  BY DEF PairMatches, PrivateLoads
<1>1. privateFile # Absent /\ privateFile.owner \in Keygens
  BY FilesDiffer DEF KeyInv, KeyTypeOK, Absent
<1> QED
  BY <1>1, FilesDiffer DEF KeyInv, PrivateImpliesPublic

\* However many runs of keygen overlap, fail or are killed, a private key that
\* loads has its own public key beside it.
THEOREM PairsMatch == KeySpec => []PairMatches
BY KeysMatch, KeyInvHolds, PTL

-----------------------------------------------------------------------------
(* The process                                                             *)

\* A step of the control plane is one of the store, or leaves the store alone.
LEMMA ControlToStore == [ControlNext]_controlVars => [Next]_vars
<1> SUFFICES ASSUME [ControlNext]_controlVars
             PROVE  Next \/ UNCHANGED vars
  OBVIOUS
<1>1. CASE Provision \/ Listen \/ ListenFails \/ OperatorEdits \/ WatcherRuns \/ WatcherStops
           \/ Signal \/ ServeFails \/ BeginShutdown \/ ShutdownReturns \/ ShutdownTimesOut
  BY <1>1 DEF Provision, Listen, ListenFails, OperatorEdits, WatcherRuns, WatcherStops,
              Signal, ServeFails, BeginShutdown, ShutdownReturns, ShutdownTimesOut
<1>2. CASE StartServe \/ WatcherPublishes
  BY <1>2 DEF StartServe, WatcherPublishes, Next
<1>3. CASE StoreRuns
  BY <1>3 DEF StoreRuns, PublisherStep, Next
<1>4. ASSUME NEW s \in Subscribers, HandlerStep(s)
      PROVE  Next \/ UNCHANGED vars
  BY <1>4 DEF HandlerStep, Connect, HandlerAnnounces, HandlerStalls, WriteResumes,
              Disconnect, HandlerEnds, Next
<1>5. CASE UNCHANGED controlVars
  BY <1>5 DEF controlVars
<1> QED
  BY <1>1, <1>2, <1>3, <1>4, <1>5 DEF ControlNext

\* The key files of the control plane: keygen runs before serve is started, and
\* then they stay as they are.
LEMMA ControlKeysKept == KeyInv /\ [ControlNext]_controlVars => KeyInv'
<1> SUFFICES ASSUME KeyInv, [ControlNext]_controlVars
             PROVE  KeyInv'
  OBVIOUS
<1>1. CASE Provision
  BY <1>1, KeyInvNext DEF Provision
<1>2. CASE StartServe
  <2>1. publicFile' = publicFile /\ privateFile' = privateFile
        /\ keygen' = [k \in Keygens |-> "new"]
    BY <1>2 DEF StartServe
  <2> QED
    BY <2>1 DEF KeyInv, KeyTypeOK, FilesOf, PrivateImpliesPublic
<1>3. ASSUME NEW s \in Subscribers, HandlerStep(s)
      PROVE  UNCHANGED keyVars
  BY <1>3 DEF HandlerStep, Connect, HandlerAnnounces, HandlerStalls, WriteResumes,
              Disconnect, HandlerEnds
<1>4. CASE \/ Listen \/ ListenFails \/ OperatorEdits \/ WatcherRuns \/ WatcherPublishes
           \/ WatcherStops \/ StoreRuns \/ Signal \/ ServeFails \/ BeginShutdown
           \/ ShutdownReturns \/ ShutdownTimesOut \/ UNCHANGED controlVars
  <2>1. UNCHANGED keyVars
    BY <1>4 DEF Listen, ListenFails, OperatorEdits, WatcherRuns, WatcherPublishes,
                WatcherStops, StoreRuns, Signal, ServeFails, BeginShutdown,
                ShutdownReturns, ShutdownTimesOut, controlVars
  <2> QED
    BY <2>1, KeyInvNext
<1> QED
  BY <1>1, <1>2, <1>3, <1>4, KeyInvNext DEF ControlNext

\* The control plane as a whole runs its store as the store is meant to be run,
\* from the first publication to the forced end of a shutdown: what is proved of
\* the store, its refinement of the register included, holds in the process.
THEOREM ControlPlaneRunsTheStore == ControlSpec => Spec /\ ImplementsLatestValue
<1>1. ControlInit => Init
  BY DEF ControlInit
<1>2. ControlSpec => Spec
  BY <1>1, ControlToStore, PTL DEF ControlSpec, Spec
<1> QED
  BY <1>2, StoreRefines

\* In the composed process nobody connected is left behind, the publisher never
\* sends on a channel that a handler has closed, whenever handlers end, and the
\* key the process signs with has its public half beside it.
THEOREM ControlPlaneIsSafe ==
  ControlSpec => [](NewestReachesEveryone /\ SendsToOpenChannels /\ PairMatches)
<1>1. ControlInit => KeyInv
  BY KeyInvInit DEF ControlInit
<1>2. ControlSpec => []KeyInv
  BY <1>1, ControlKeysKept, PTL DEF ControlSpec
<1> QED
  BY <1>2, KeysMatch, ControlPlaneRunsTheStore, NoSubscriberLeftBehind, NoSendOnClosed, PTL

=============================================================================
