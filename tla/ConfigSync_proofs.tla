-------------------------- MODULE ConfigSync_proofs --------------------------
(***************************************************************************)
(* Proofs about ConfigSync, for any policies, keys and releases and any    *)
(* number of publications.                                                 *)
(***************************************************************************)
EXTENDS ConfigSync, TLAPS

-----------------------------------------------------------------------------
(* What an edge accepts                                                    *)

\* Digests and quotes are injective.
LEMMA DigestsDiffer ==
  ASSUME NEW a, NEW b
  PROVE  (Sha256(a) = Sha256(b) => a = b) /\ (Quoted(a) = Quoted(b) => a = b)
<1>1. Sha256(a).sha256 = a /\ Sha256(b).sha256 = b
  BY DEF Sha256
<1>2. Quoted(a).quoted = a /\ Quoted(b).quoted = b
  BY DEF Quoted
<1> QED
  BY <1>1, <1>2

\* The fields of an answer, read one by one.
LEMMA AnswerFields ==
  ASSUME NEW release
  PROVE  /\ Answer(release).etag = Quoted(VersionOf(release[1]))
         /\ Answer(release).envelope.keyId = Sha256(release[2])
         /\ Answer(release).envelope.bundle = VersionedBundle(release[1])
         /\ Answer(release).envelope.signature.key = release[2]
         /\ Answer(release).envelope.signature.of = VersionedBundle(release[1])
         /\ VersionedBundle(release[1]).policy = release[1]
         /\ VersionedBundle(release[1]).version = VersionOf(release[1])
BY DEF Answer, AnswerFor, Sign, VersionedBundle

\* The keyring answers for the trusted keys and for nobody else.
LEMMA KeyringFinds ==
  ASSUME NEW key, Sha256(key) \in DOMAIN Keyring
  PROVE  key \in TrustedKeys /\ Keyring[Sha256(key)] = key
<1>1. PICK k \in TrustedKeys : Sha256(key) = Sha256(k)
  BY DEF Keyring
<1>2. key = k
  BY <1>1, DigestsDiffer
<1>3. Sha256(key).sha256 = key
  BY DEF Sha256
<1> QED
  BY <1>1, <1>2, <1>3 DEF Keyring

\* Whatever part of an answer comes from another one, an answer that verifies
\* is, in its policy and its tag, the one that was given, by a trusted signer.
LEMMA AcceptedIsGenuine ==
  ASSUME NEW release \in Releases,
         NEW answer \in {Answer(release)} \cup Mixed(Answer(release)), Accepts(answer)
  PROVE  /\ answer.envelope.bundle.policy = release[1]
         /\ answer.etag = Quoted(VersionOf(release[1]))
         /\ release[1] \notin Unreadable
         /\ release[2] \in TrustedKeys
<1> DEFINE env == answer.envelope
           true == Answer(release)
<1>1. /\ env.bundle.policy \notin Unreadable
      /\ env.keyId \in DOMAIN Keyring
      /\ env.signature = [key |-> Keyring[env.keyId], of |-> env.bundle]
      /\ env.bundle.version = VersionOf(env.bundle.policy)
      /\ answer.etag = Quoted(env.bundle.version)
  BY DEF Accepts, Verifies, Parses, SignatureValid, VersionMatches
<1>2. env.signature.key = Keyring[env.keyId] /\ env.signature.of = env.bundle
  BY <1>1
<1>3. ASSUME env.bundle = true.envelope.bundle, 
             \/ env.keyId = true.envelope.keyId 
             \/ env.signature = true.envelope.signature /\ \E k \in Keys : env.keyId = Sha256(k)
      PROVE  /\ env.bundle.policy = release[1]
             /\ answer.etag = Quoted(VersionOf(release[1]))
             /\ release[1] \notin Unreadable
             /\ release[2] \in TrustedKeys
  <2>1. env.bundle.policy = release[1] /\ env.bundle.version = VersionOf(release[1])
    BY <1>3, AnswerFields
  <2>2. release[2] \in TrustedKeys
    <3>1. CASE env.keyId = true.envelope.keyId
      BY <3>1, <1>1, AnswerFields, KeyringFinds
    <3>2. CASE env.signature = true.envelope.signature /\ \E k \in Keys : env.keyId = Sha256(k)
      <4>1. PICK k \in Keys : env.keyId = Sha256(k)
        BY <3>2
      <4>2. k \in TrustedKeys /\ Keyring[env.keyId] = k
        BY <4>1, <1>1, KeyringFinds
      <4>3. env.signature.key = release[2]
        BY <3>2, AnswerFields
      <4> QED
        BY <4>2, <4>3, <1>2
    <3> QED
      BY <1>3, <3>1, <3>2
  <2> QED
    BY <1>1, <2>1, <2>2
<1>4. CASE answer = true
  BY <1>3, <1>4
<1>5. CASE answer \in Mixed(true)
  <2>1. PICK other \in Releases :
           \/ answer = [true EXCEPT !.etag = Answer(other).etag]
           \/ answer = [true EXCEPT !.envelope.keyId = Answer(other).envelope.keyId]
           \/ answer = [true EXCEPT !.envelope.bundle = Answer(other).envelope.bundle]
           \/ answer = [true EXCEPT !.envelope.bundle = Answer(other).envelope.bundle,
                                    !.etag = Answer(other).etag]
           \/ answer = [true EXCEPT !.envelope.bundle.policy = Answer(other).envelope.bundle.policy]
           \/ answer = [true EXCEPT !.envelope.signature = Answer(other).envelope.signature]
    <3> DEFINE Forms(o) ==
          {[true EXCEPT !.etag = o.etag],
           [true EXCEPT !.envelope.keyId = o.envelope.keyId],
           [true EXCEPT !.envelope.bundle = o.envelope.bundle],
           [true EXCEPT !.envelope.bundle = o.envelope.bundle, !.etag = o.etag],
           [true EXCEPT !.envelope.bundle.policy = o.envelope.bundle.policy],
           [true EXCEPT !.envelope.signature = o.envelope.signature]}
    <3> HIDE DEF true
    <3>1. Mixed(true) = (UNION {Forms(o) : o \in {Answer(q) : q \in Releases}}) \ {true}
      BY Zenon DEF Mixed
    <3>2. \E o \in {Answer(q) : q \in Releases} : answer \in Forms(o)
      <4> HIDE DEF Forms
      <4> QED
        BY <1>5, <3>1, Zenon
    <3>3. PICK q \in Releases : answer \in Forms(Answer(q))
      <4> HIDE DEF Forms
      <4> QED
        BY <3>2, Zenon
    <3> QED
      BY <3>3, Zenon
  <2>2. CASE answer = [true EXCEPT !.etag = Answer(other).etag]
    <3>1. env = true.envelope
      BY <2>2 DEF Answer, AnswerFor, Sign
    <3> QED
      BY <3>1, <1>3
  <2>3. CASE answer = [true EXCEPT !.envelope.keyId = Answer(other).envelope.keyId]
    <3>1. /\ env.bundle = true.envelope.bundle /\ env.signature = true.envelope.signature
          /\ env.keyId = Sha256(other[2])
      BY <2>3 DEF Answer, AnswerFor, Sign
    <3>2. other[2] \in Keys
      BY ReleasesAssumption
    <3> QED
      BY <3>1, <3>2, <1>3
  <2>4. CASE \/ answer = [true EXCEPT !.envelope.bundle = Answer(other).envelope.bundle]
             \/ answer = [true EXCEPT !.envelope.bundle = Answer(other).envelope.bundle,
                                      !.etag = Answer(other).etag]
    <3>1. env.keyId = true.envelope.keyId /\ env.signature = true.envelope.signature
      <4>1. CASE answer = [true EXCEPT !.envelope.bundle = Answer(other).envelope.bundle]
        BY <4>1 DEF Answer, AnswerFor, Sign
      <4>2. CASE answer = [true EXCEPT !.envelope.bundle = Answer(other).envelope.bundle,
                                       !.etag = Answer(other).etag]
        BY <4>2 DEF Answer, AnswerFor, Sign
      <4> QED
        BY <2>4, <4>1, <4>2
    <3>2. env.bundle = true.envelope.bundle
      BY <3>1, <1>2, AnswerFields
    <3> QED
      BY <3>1, <3>2, <1>3
  <2>5. CASE answer = [true EXCEPT !.envelope.bundle.policy = Answer(other).envelope.bundle.policy]
    <3>1. /\ env.keyId = true.envelope.keyId /\ env.signature = true.envelope.signature
      BY <2>5 DEF Answer, AnswerFor, Sign
    <3>2. env.bundle = true.envelope.bundle
      BY <3>1, <1>2, AnswerFields
    <3> QED
      BY <3>1, <3>2, <1>3
  <2>6. CASE answer = [true EXCEPT !.envelope.signature = Answer(other).envelope.signature]
    <3>1. env.bundle = true.envelope.bundle /\ env.keyId = true.envelope.keyId
      BY <2>6 DEF Answer, AnswerFor, Sign
    <3> QED
      BY <3>1, <1>3
  <2> QED
    BY <2>1, <2>2, <2>3, <2>4, <2>5, <2>6
<1> QED
  BY <1>4, <1>5

-----------------------------------------------------------------------------
(* The inductive invariant                                                 *)

\* What a refresh in flight knows: the tag it asked with is the tag in hand, and
\* its answer is about a publication not older than the snapshot.
OpInv(t) ==
  /\ op[t].phase \in {"none", "requested", "unmodified", "answered"}
  /\ op[t].phase = "requested" => op[t].etag = SnapshotTag
  /\ op[t].phase \in {"unmodified", "answered"} =>
       op[t].number \in 1 .. Len(published) /\ asOf <= op[t].number
  /\ op[t].phase = "unmodified" =>
       SnapshotTag = Quoted(VersionOf(published[op[t].number][1]))
  /\ op[t].phase = "answered" =>
       op[t].answer \in {Answer(published[op[t].number])}
                          \cup Mixed(Answer(published[op[t].number]))

\* refresh() never starts a second one, so the tag stays in hand meanwhile.
OneAtATime ==
  \A t, u \in Tasks : op[t].phase # "none" /\ op[u].phase # "none" => t = u

\* A refresh in flight is awaited by its owner, and nobody awaits one that is
\* not in flight.
JoinInv ==
  \A w \in Tasks :
    /\ op[w].phase # "none" => joined[w] = w
    /\ joined[w] # NoTask => op[joined[w]].phase # "none"

\* start() and the loops await a refresh exactly in the states that say so.
LoopInv ==
  /\ run = "starting" => joined["start"] # NoTask
  /\ joined["start"] # NoTask =>
       run \in {"starting", "stopping", "stopped"} /\ stream = "off" /\ poll = "off"
  /\ joined["stream"] # NoTask <=> stream = "refreshing"
  /\ joined["poll"] # NoTask <=> poll = "refreshing"
  /\ run \in {"starting", "failed", "stopped"} => stream = "off" /\ poll = "off"

SyncInv ==
  /\ TypeOK
  /\ \A t \in Tasks : OpInv(t)
  /\ OneAtATime /\ JoinInv /\ LoopInv
  /\ SnapshotIsGenuine
  /\ asOf <= Len(published)

\* A snapshot's tag and a release's version are of the right kind.
LEMMA Kinds ==
  ASSUME TypeOK
  PROVE  /\ \A release \in Releases : VersionOf(release[1]) \in Versions
         /\ SnapshotTag \in {Quoted(v) : v \in Versions} \cup {NoVersion}
         /\ Current \in Releases /\ CurrentVersion \in Versions
         /\ \A i \in 1 .. Len(published) : published[i] \in Releases
<1>1. \A release \in Releases : VersionOf(release[1]) \in Versions
  BY ReleasesAssumption DEF Versions
<1>2. \A i \in 1 .. Len(published) : published[i] \in Releases
  BY DEF TypeOK
<1>3. Current \in Releases
  BY <1>2 DEF Current, TypeOK
<1>4. SnapshotTag \in {Quoted(v) : v \in Versions} \cup {NoVersion}
  <2>1. CASE snapshot = NoSnapshot
    BY <2>1 DEF SnapshotTag
  <2>2. CASE snapshot # NoSnapshot
    <3>1. PICK p \in Policies, q \in Policies : snapshot = [policy |-> p, etag |-> Quoted(VersionOf(q))]
      BY <2>2 DEF TypeOK, Snapshots
    <3>2. VersionOf(q) \in Versions
      BY DEF Versions
    <3> QED
      BY <2>2, <3>1, <3>2 DEF SnapshotTag
  <2> QED
    BY <2>1, <2>2
<1> QED
  BY <1>1, <1>2, <1>3, <1>4 DEF CurrentVersion

LEMMA SyncInvInit == Init => SyncInv
<1> SUFFICES ASSUME Init PROVE SyncInv
  OBVIOUS
<1> USE DEF Init
<1>1. PICK release \in Releases : published = <<release>>
  OBVIOUS
<1>2. TypeOK
  <2>1. published \in Seq(Releases) /\ Len(published) \in 1 .. MaxPublications
    BY <1>1, PublicationsAssumption
  <2>2. op \in [Tasks -> {NoOp} \cup Requested \cup Unmodified \cup Answered]
    BY DEF Requested
  <2>3. joined \in [Tasks -> Tasks \cup {NoTask}]
    BY DEF Tasks
  <2>4. wire \in Seq(Versions) /\ channel \in Versions \cup {NoVersion}
        /\ snapshot \in Snapshots \cup {NoSnapshot} /\ asOf \in 0 .. MaxPublications
    BY PublicationsAssumption
  <2> QED
    BY <2>1, <2>2, <2>3, <2>4 DEF TypeOK
<1>3. \A t \in Tasks : OpInv(t)
  BY DEF OpInv, SnapshotTag, NoOp
<1>4. OneAtATime /\ JoinInv /\ LoopInv
  BY NoTaskAssumption DEF OneAtATime, JoinInv, LoopInv, NoOp, Tasks
<1>5. SnapshotIsGenuine /\ asOf <= Len(published)
  BY <1>1 DEF SnapshotIsGenuine
<1> QED
  BY <1>2, <1>3, <1>4, <1>5 DEF SyncInv

\* A step that leaves the client and what was published alone.
LEMMA ClientUntouched ==
  ASSUME SyncInv, UNCHANGED <<published, clientVars>>
  PROVE  /\ \A t \in Tasks : OpInv(t)'
         /\ OneAtATime' /\ JoinInv' /\ SnapshotIsGenuine' /\ asOf' <= Len(published')
BY DEF SyncInv, OpInv, OneAtATime, JoinInv, SnapshotIsGenuine, SnapshotTag, clientVars

\* The control plane's own steps, and those of the stream's connection.
LEMMA ServerStep ==
  ASSUME SyncInv, Announce \/ Disconnect \/ ConnectStream
  PROVE  SyncInv'
<1>1. UNCHANGED <<published, clientVars>>
  BY DEF Announce, Disconnect, ConnectStream
<1>2. LoopInv'
  BY DEF SyncInv, LoopInv, Announce, Disconnect, ConnectStream, clientVars
<1>3. TypeOK'
  <2>1. wire' \in Seq(Versions) /\ channel' \in Versions \cup {NoVersion}
        /\ connected' \in BOOLEAN
    <3>0. wire \in Seq(Versions) /\ channel \in Versions \cup {NoVersion} /\ connected \in BOOLEAN
          /\ CurrentVersion \in Versions
      BY Kinds DEF SyncInv, TypeOK
    <3>1. CASE Announce
      <4>1. channel \in Versions
        BY <3>0, <3>1 DEF Announce
      <4> QED
        BY <3>0, <3>1, <4>1 DEF Announce
    <3>2. CASE Disconnect
      <4>1. wire' = wire \/ wire' = <<>>
        BY <3>2 DEF Disconnect
      <4>2. wire' \in Seq(Versions)
        <5>1. <<>> \in Seq(Versions)
          OBVIOUS
        <5> QED
          BY <3>0, <4>1, <5>1, Zenon
      <4> QED
        BY <3>2, <4>2 DEF Disconnect
    <3>3. CASE ConnectStream
      BY <3>0, <3>3 DEF ConnectStream
    <3> QED
      BY <3>1, <3>2, <3>3
  <2> QED
    BY <2>1 DEF SyncInv, TypeOK, Announce, Disconnect, ConnectStream, clientVars
<1> QED
  BY <1>1, <1>2, <1>3, ClientUntouched DEF SyncInv

\* Steps of the loops and of stop() that start no refresh.
LEMMA LoopStep ==
  ASSUME SyncInv,
         ConnectFails \/ StreamEnds \/ ReconnectDue \/ Stop \/ StreamUnwinds \/ PollUnwinds
           \/ StopReturns \/ UNCHANGED vars
  PROVE  SyncInv'
<1> USE DEF ConnectFails, StreamEnds, ReconnectDue, Stop, StreamUnwinds, PollUnwinds,
            StopReturns, TasksSettled, vars, clientVars, serverVars
<1>1. UNCHANGED <<published, clientVars>>
  OBVIOUS
<1>2. LoopInv'
  BY DEF SyncInv, LoopInv
<1>3. TypeOK'
  BY DEF SyncInv, TypeOK
<1> QED
  BY <1>1, <1>2, <1>3, ClientUntouched DEF SyncInv

\* A publication: what is in flight stays about the publication it was about.
LEMMA PublishStep ==
  ASSUME SyncInv, NEW release \in Releases, Publish(release)
  PROVE  SyncInv'
<1> USE DEF Publish, clientVars
<1>1. /\ Len(published) \in Nat /\ Len(published') = Len(published) + 1
      /\ \A i \in 1 .. Len(published) : published'[i] = published[i]
  BY DEF SyncInv, TypeOK
<1>2. TypeOK'
  <2>1. published' \in Seq(Releases) /\ Len(published') \in 1 .. MaxPublications
    BY <1>1, PublicationsAssumption DEF SyncInv, TypeOK
  <2>2. channel' \in Versions \cup {NoVersion}
    BY Kinds DEF SyncInv, TypeOK
  <2> QED
    BY <2>1, <2>2 DEF SyncInv, TypeOK
<1>3. ASSUME NEW t \in Tasks PROVE OpInv(t)'
  <2>1. OpInv(t)
    BY DEF SyncInv
  <2>2. SnapshotTag' = SnapshotTag
    BY DEF SnapshotTag
  <2> QED
    BY <1>1, <2>1, <2>2 DEF OpInv
<1>4. OneAtATime' /\ JoinInv' /\ LoopInv'
  BY DEF SyncInv, OneAtATime, JoinInv, LoopInv
<1>5. SnapshotIsGenuine' /\ asOf' <= Len(published')
  <2>1. asOf \in Nat /\ asOf <= Len(published)
    BY DEF SyncInv, TypeOK
  <2>2. \A i \in 1 .. asOf : published'[i] = published[i]
    BY <1>1, <2>1
  <2>3. asOf # 0 => asOf \in 1 .. asOf
    BY <2>1
  <2> QED
    BY <1>1, <2>1, <2>2, <2>3 DEF SyncInv, SnapshotIsGenuine
<1> QED
  BY <1>2, <1>3, <1>4, <1>5 DEF SyncInv

\* The request in flight moves on, and nothing else.
LEMMA OpMoves ==
  ASSUME SyncInv, NEW t \in Tasks, op[t].phase # "none",
         NEW o \in Requested \cup Unmodified \cup Answered, o.phase # "none",
         op' = [op EXCEPT ![t] = o], OpInv(t)',
         UNCHANGED <<serverVars, snapshot, joined, asOf, stream, poll, run>>
  PROVE  SyncInv'
<1>1. op \in [Tasks -> {NoOp} \cup Requested \cup Unmodified \cup Answered]
  BY DEF SyncInv, TypeOK
<1>2. op'[t] = o /\ \A u \in Tasks : u # t => op'[u] = op[u]
  BY <1>1
<1>3. TypeOK'
  <2>1. op' \in [Tasks -> {NoOp} \cup Requested \cup Unmodified \cup Answered]
    BY <1>1
  <2> QED
    BY <2>1 DEF SyncInv, TypeOK, serverVars
<1>4. ASSUME NEW u \in Tasks PROVE OpInv(u)'
  <2>1. CASE u = t
    BY <2>1
  <2>2. CASE u # t
    BY <1>2, <2>2 DEF SyncInv, OpInv, SnapshotTag, serverVars
  <2> QED
    BY <2>1, <2>2
<1>5. \A u \in Tasks : op'[u].phase = "none" <=> op[u].phase = "none"
  BY <1>2
<1>6. OneAtATime' /\ JoinInv'
  <2>1. \A u \in Tasks : joined'[u] = joined[u] /\ (joined[u] # NoTask => joined[u] \in Tasks)
    BY DEF SyncInv, TypeOK
  <2> QED
    BY <1>5, <2>1 DEF SyncInv, OneAtATime, JoinInv
<1>7. LoopInv' /\ SnapshotIsGenuine' /\ asOf' <= Len(published')
  BY DEF SyncInv, LoopInv, SnapshotIsGenuine, serverVars
<1> QED
  BY <1>3, <1>4, <1>6, <1>7 DEF SyncInv

\* The control plane answers the request in flight, about its latest
\* publication: not modified, in full, or with a part of another answer.
LEMMA ServeStep ==
  ASSUME SyncInv, NEW t \in Tasks, Serve(t) \/ ServeMixed(t)
  PROVE  SyncInv'
<1> DEFINE n == Len(published)
           N304 == [phase |-> "unmodified", number |-> n]
           N200(a) == [phase |-> "answered", number |-> n, answer |-> a]
<1>1. /\ op[t].phase = "requested" /\ op[t].etag = SnapshotTag
      /\ UNCHANGED <<serverVars, snapshot, joined, asOf, stream, poll, run>>
  BY DEF SyncInv, OpInv, Serve, ServeMixed
<1>2. \/ /\ op' = [op EXCEPT ![t] = N304]
         /\ SnapshotTag = Quoted(VersionOf(published[n][1]))
      \/ \E a \in {Answer(published[n])} \cup Mixed(Answer(published[n])) :
            op' = [op EXCEPT ![t] = N200(a)]
  BY <1>1 DEF Serve, ServeMixed, Receives, TagMatches, CurrentVersion, Current
<1>3. /\ n \in 1 .. MaxPublications /\ n \in Nat /\ n \in 1 .. n
      /\ asOf <= n /\ asOf \in Nat /\ published[n] \in Releases
  BY Kinds DEF SyncInv, TypeOK, Current
<1>4. op \in [Tasks -> {NoOp} \cup Requested \cup Unmodified \cup Answered]
  BY DEF SyncInv, TypeOK
<1>5. published' = published /\ snapshot' = snapshot /\ asOf' = asOf /\ SnapshotTag' = SnapshotTag
  BY <1>1 DEF SnapshotTag, serverVars
<1>6. CASE op' = [op EXCEPT ![t] = N304] /\ SnapshotTag = Quoted(VersionOf(published[n][1]))
  <2>1. N304 \in Unmodified /\ op'[t] = N304
    BY <1>3, <1>4, <1>6 DEF Unmodified
  <2>2. OpInv(t)'
    BY <1>3, <1>5, <1>6, <2>1 DEF OpInv
  <2> QED
    BY <1>1, <1>6, <2>1, <2>2, OpMoves
<1>7. ASSUME NEW a \in {Answer(published[n])} \cup Mixed(Answer(published[n])),
             op' = [op EXCEPT ![t] = N200(a)]
      PROVE  SyncInv'
  <2>1. N200(a) \in Answered
    <3>1. a \in UNION {{Answer(release)} \cup Mixed(Answer(release)) : release \in Releases}
      BY <1>3
    <3> QED
      BY <1>3, <3>1 DEF Answered
  <2>2. op'[t] = N200(a)
    BY <1>4, <1>7
  <2>3. OpInv(t)'
    BY <1>3, <1>5, <2>2 DEF OpInv
  <2> QED
    BY <1>1, <1>7, <2>1, <2>3, OpMoves
<1> QED
  BY <1>2, <1>6, <1>7

\* refresh() on behalf of one of the loops: it joins the refresh in flight, or
\* starts one with the tag in hand when there is none.
LEMMA RefreshPreserves ==
  ASSUME SyncInv, NEW t \in Tasks, Refresh(t), joined[t] = NoTask,
         UNCHANGED <<published, snapshot, asOf>>
  PROVE  /\ op' \in [Tasks -> {NoOp} \cup Requested \cup Unmodified \cup Answered]
         /\ joined' \in [Tasks -> Tasks \cup {NoTask}]
         /\ joined'[t] # NoTask /\ \A w \in Tasks : w # t => joined'[w] = joined[w]
         /\ \A u \in Tasks : OpInv(u)'
         /\ OneAtATime' /\ JoinInv'
<1>0. /\ op \in [Tasks -> {NoOp} \cup Requested \cup Unmodified \cup Answered]
      /\ joined \in [Tasks -> Tasks \cup {NoTask}]
      /\ SnapshotTag' = SnapshotTag
  BY DEF SyncInv, TypeOK, SnapshotTag
<1>1. CASE InFlight # {}
  <2>1. PICK owner \in InFlight : joined' = [joined EXCEPT ![t] = owner] /\ op' = op
    BY <1>1 DEF Refresh
  <2>2. owner \in Tasks /\ op[owner].phase # "none" /\ owner # t
    BY NoTaskAssumption DEF InFlight, SyncInv, JoinInv
  <2>3. joined'[t] = owner /\ \A w \in Tasks : w # t => joined'[w] = joined[w]
    BY <1>0, <2>1
  <2>4. \A u \in Tasks : OpInv(u)'
    BY <1>0, <2>1 DEF SyncInv, OpInv
  <2>5. OneAtATime'
    BY <2>1 DEF SyncInv, OneAtATime
  <2>6. JoinInv'
    <3>1. op[t].phase = "none"
      BY NoTaskAssumption DEF SyncInv, JoinInv
    <3> QED
      BY <2>1, <2>2, <2>3, <3>1 DEF SyncInv, JoinInv
  <2>7. joined' \in [Tasks -> Tasks \cup {NoTask}]
    BY <1>0, <2>1, <2>2
  <2> QED
    BY <1>0, <2>1, <2>2, <2>3, <2>4, <2>5, <2>6, <2>7, NoTaskAssumption
<1>2. CASE InFlight = {}
  <2> DEFINE o == [phase |-> "requested", etag |-> SnapshotTag]
  <2>1. joined' = [joined EXCEPT ![t] = t] /\ op' = [op EXCEPT ![t] = o]
    BY <1>2 DEF Refresh
  <2>2. \A u \in Tasks : op[u].phase = "none"
    BY <1>2 DEF InFlight
  <2>3. \A w \in Tasks : joined[w] = NoTask
    BY <1>0, <2>2 DEF SyncInv, JoinInv
  <2>4. o \in Requested /\ o.phase = "requested" /\ o.etag = SnapshotTag
    BY Kinds DEF SyncInv, Requested
  <2>5. op'[t] = o /\ \A u \in Tasks : u # t => op'[u] = op[u]
    BY <1>0, <2>1
  <2>6. joined'[t] = t /\ \A w \in Tasks : w # t => joined'[w] = joined[w]
    BY <1>0, <2>1
  <2> HIDE DEF o
  <2>7. \A u \in Tasks : OpInv(u)'
    BY <1>0, <2>2, <2>4, <2>5 DEF SyncInv, OpInv
  <2>8. OneAtATime' /\ JoinInv'
    BY <2>2, <2>3, <2>4, <2>5, <2>6 DEF OneAtATime, JoinInv
  <2>9. op' \in [Tasks -> {NoOp} \cup Requested \cup Unmodified \cup Answered]
    BY <1>0, <2>1, <2>4
  <2>10. joined' \in [Tasks -> Tasks \cup {NoTask}]
    BY <1>0, <2>1
  <2> QED
    BY <2>6, <2>7, <2>8, <2>9, <2>10, NoTaskAssumption
<1> QED
  BY <1>1, <1>2

\* The two loops that call refresh().
LEMMA RefreshStep ==
  ASSUME SyncInv, ReadEvent \/ PollDue
  PROVE  SyncInv'
<1>0. {"start", "stream", "poll"} \subseteq Tasks
  BY DEF Tasks
<1>1. CASE ReadEvent /\ UNCHANGED <<stream, op, joined>>
  <2>1. wire' \in Seq(Versions)
    BY <1>1 DEF SyncInv, TypeOK, ReadEvent
  <2>2. TypeOK'
    BY <1>1, <2>1 DEF SyncInv, TypeOK, ReadEvent
  <2>3. LoopInv'
    BY <1>1 DEF SyncInv, LoopInv, ReadEvent
  <2> QED
    BY <1>1, <2>2, <2>3, ClientUntouched DEF SyncInv, ReadEvent, clientVars
<1>2. CASE ReadEvent /\ stream' = "refreshing" /\ Refresh("stream")
  <2>1. wire' \in Seq(Versions)
    BY <1>2 DEF SyncInv, TypeOK, ReadEvent
  <2>2. joined["stream"] = NoTask
    BY <1>2 DEF SyncInv, LoopInv, ReadEvent
  <2>3. UNCHANGED <<published, snapshot, asOf>>
    BY <1>2 DEF ReadEvent
  <2>4. /\ op' \in [Tasks -> {NoOp} \cup Requested \cup Unmodified \cup Answered]
        /\ joined' \in [Tasks -> Tasks \cup {NoTask}]
        /\ joined'["stream"] # NoTask /\ \A w \in Tasks : w # "stream" => joined'[w] = joined[w]
        /\ \A u \in Tasks : OpInv(u)'
        /\ OneAtATime' /\ JoinInv'
    BY <1>0, <1>2, <2>2, <2>3, RefreshPreserves
  <2>5. TypeOK'
    BY <1>2, <2>1, <2>4 DEF SyncInv, TypeOK, ReadEvent
  <2>6. LoopInv'
    BY <1>0, <1>2, <2>4 DEF SyncInv, LoopInv, ReadEvent
  <2>7. SnapshotIsGenuine' /\ asOf' <= Len(published')
    BY <2>3 DEF SyncInv, SnapshotIsGenuine
  <2> QED
    BY <2>4, <2>5, <2>6, <2>7 DEF SyncInv
<1>3. CASE PollDue
  <2>1. joined["poll"] = NoTask
    BY <1>3 DEF SyncInv, LoopInv, PollDue
  <2>2. UNCHANGED <<published, snapshot, asOf>>
    BY <1>3 DEF PollDue, serverVars
  <2>3. /\ op' \in [Tasks -> {NoOp} \cup Requested \cup Unmodified \cup Answered]
        /\ joined' \in [Tasks -> Tasks \cup {NoTask}]
        /\ joined'["poll"] # NoTask /\ \A w \in Tasks : w # "poll" => joined'[w] = joined[w]
        /\ \A u \in Tasks : OpInv(u)'
        /\ OneAtATime' /\ JoinInv'
    BY <1>0, <1>3, <2>1, <2>2, RefreshPreserves DEF PollDue
  <2>4. TypeOK'
    BY <1>3, <2>3 DEF SyncInv, TypeOK, PollDue, serverVars
  <2>5. LoopInv'
    BY <1>0, <1>3, <2>3 DEF SyncInv, LoopInv, PollDue
  <2>6. SnapshotIsGenuine' /\ asOf' <= Len(published')
    BY <2>2 DEF SyncInv, SnapshotIsGenuine
  <2> QED
    BY <2>3, <2>4, <2>5, <2>6 DEF SyncInv
<1> QED
  BY <1>1, <1>2, <1>3 DEF ReadEvent

\* The refresh of t settles: nothing is in flight any more, nobody waits, and
\* whoever waited has gone on.
LEMMA SettlePreserves ==
  ASSUME SyncInv, NEW t \in Tasks, op[t].phase # "none",
         NEW succeeded \in BOOLEAN, Settle(t, succeeded)
  PROVE  /\ op' \in [Tasks -> {NoOp} \cup Requested \cup Unmodified \cup Answered]
         /\ joined' \in [Tasks -> Tasks \cup {NoTask}]
         /\ stream' \in {"off", "connecting", "reading", "refreshing", "delay"}
         /\ poll' \in {"off", "delay", "refreshing"}
         /\ run' \in {"starting", "running", "stopping", "stopped", "failed"}
         /\ \A u \in Tasks : OpInv(u)'
         /\ OneAtATime' /\ JoinInv' /\ LoopInv'
<1>0. /\ op \in [Tasks -> {NoOp} \cup Requested \cup Unmodified \cup Answered]
      /\ joined \in [Tasks -> Tasks \cup {NoTask}]
      /\ NoOp.phase = "none"
      /\ {"start", "stream", "poll"} \subseteq Tasks
  BY DEF SyncInv, TypeOK, NoOp, Tasks
<1>1. op' = [op EXCEPT ![t] = NoOp]
  BY DEF Settle
<1>2. \A u \in Tasks : op'[u].phase = "none"
  BY <1>0, <1>1 DEF SyncInv, OneAtATime
<1>3. \A w \in Tasks : joined[w] # NoTask => joined[w] = t
  BY <1>0 DEF SyncInv, JoinInv, OneAtATime
<1>4. \A w \in Tasks : (w \in Waiters(t) <=> joined[w] # NoTask) /\ joined'[w] = NoTask
  BY <1>0, <1>3, NoTaskAssumption DEF Waiters, Settle
<1>5. joined' \in [Tasks -> Tasks \cup {NoTask}]
  BY <1>0 DEF Settle
<1>6. op' \in [Tasks -> {NoOp} \cup Requested \cup Unmodified \cup Answered]
  BY <1>0, <1>1
<1>7. (\A u \in Tasks : OpInv(u)') /\ OneAtATime' /\ JoinInv'
  BY <1>2, <1>4 DEF OpInv, OneAtATime, JoinInv
<1>8. /\ stream' \in {"off", "connecting", "reading", "refreshing", "delay"}
      /\ poll' \in {"off", "delay", "refreshing"}
      /\ run' \in {"starting", "running", "stopping", "stopped", "failed"}
  BY DEF SyncInv, TypeOK, Settle
<1>9. LoopInv'
  <2>1. CASE "start" \in Waiters(t)
    BY <1>0, <1>4, <2>1 DEF SyncInv, LoopInv, Settle
  <2>2. CASE "start" \notin Waiters(t)
    BY <1>0, <1>4, <2>2 DEF SyncInv, LoopInv, Settle
  <2> QED
    BY <2>1, <2>2
<1> QED
  BY <1>5, <1>6, <1>7, <1>8, <1>9

\* Every way in which a refresh ends.  A 304 speaks of the snapshot in hand and
\* a 200 that verifies of the publication it was sent for.
LEMMA SettleStep ==
  ASSUME SyncInv, NEW t \in Tasks, NotModified(t) \/ Install(t) \/ RefreshFails(t)
  PROVE  SyncInv' /\ asOf' >= asOf
<1>0. /\ asOf \in Nat /\ asOf <= Len(published) /\ Len(published) \in Nat
      /\ Len(published) <= MaxPublications /\ MaxPublications \in Nat
  BY PublicationsAssumption DEF SyncInv, TypeOK
<1>1. op[t].phase # "none" /\ published' = published /\ \E ok \in BOOLEAN : Settle(t, ok)
  BY DEF NotModified, Install, RefreshFails, Settle, serverVars
<1>2. ASSUME SnapshotIsGenuine', snapshot' \in Snapshots \cup {NoSnapshot},
             asOf' \in 0 .. Len(published), asOf' >= asOf
      PROVE  SyncInv' /\ asOf' >= asOf
  <2>1. TypeOK'
    BY <1>0, <1>1, <1>2, SettlePreserves DEF SyncInv, TypeOK, Settle, serverVars
  <2>2. asOf' <= Len(published')
    BY <1>0, <1>1, <1>2
  <2> QED
    BY <1>1, <1>2, <2>1, <2>2, SettlePreserves DEF SyncInv
<1>3. CASE RefreshFails(t)
  <2>1. UNCHANGED <<snapshot, asOf>>
    BY <1>3 DEF RefreshFails
  <2>2. SnapshotIsGenuine'
    BY <1>1, <2>1 DEF SyncInv, SnapshotIsGenuine
  <2> QED
    BY <1>0, <1>2, <2>1, <2>2 DEF SyncInv, TypeOK
<1>4. CASE NotModified(t)
  <2> DEFINE n == op[t].number
  <2>1. /\ n \in 1 .. Len(published) /\ asOf <= n /\ asOf' = n /\ snapshot' = snapshot
        /\ snapshot # NoSnapshot
        /\ snapshot.etag = Quoted(VersionOf(published[n][1]))
    BY <1>4 DEF SyncInv, OpInv, NotModified, SnapshotTag
  <2>2. snapshot.policy = published[n][1]
    <3>1. VersionOf(snapshot.policy) = VersionOf(published[n][1])
      BY <2>1, DigestsDiffer DEF SyncInv, SnapshotIsGenuine
    <3> QED
      BY <3>1, DigestsDiffer DEF VersionOf
  <2>3. \A i \in 1 .. asOf : i \in 1 .. n
    BY <1>0, <2>1
  <2>4. SnapshotIsGenuine'
    BY <1>0, <1>1, <2>1, <2>2, <2>3 DEF SyncInv, SnapshotIsGenuine
  <2> QED
    BY <1>0, <1>2, <2>1, <2>4 DEF SyncInv, TypeOK
<1>5. CASE Install(t)
  <2> DEFINE n == op[t].number
             a == op[t].answer
             release == published[n]
  <2>1. /\ n \in 1 .. Len(published) /\ asOf <= n /\ asOf' = n
        /\ snapshot' = [policy |-> a.envelope.bundle.policy, etag |-> a.etag]
        /\ a \in {Answer(release)} \cup Mixed(Answer(release)) /\ Accepts(a)
    BY <1>5 DEF SyncInv, OpInv, Install
  <2>2. release \in Releases /\ release[1] \in Policies
    BY <2>1, Kinds, ReleasesAssumption DEF SyncInv
  <2> HIDE DEF a, release
  <2>3. /\ a.envelope.bundle.policy = release[1]
        /\ a.etag = Quoted(VersionOf(release[1]))
        /\ release[1] \notin Unreadable /\ release[2] \in TrustedKeys
    BY <2>1, <2>2, AcceptedIsGenuine
  <2>4. snapshot' = [policy |-> release[1], etag |-> Quoted(VersionOf(release[1]))]
    BY <2>1, <2>3
  <2>5. n \in 1 .. n /\ n # 0 /\ published'[n] = release
    BY <1>0, <1>1, <2>1 DEF release
  <2>6. SnapshotIsGenuine'
    BY <2>1, <2>3, <2>4, <2>5 DEF SnapshotIsGenuine
  <2>7. snapshot' \in Snapshots
    BY <2>2, <2>4 DEF Snapshots
  <2> QED
    BY <1>0, <1>2, <2>1, <2>6, <2>7
<1> QED
  BY <1>3, <1>4, <1>5

\* Every step preserves the invariant, and none takes the snapshot back.
LEMMA SyncInvNext == SyncInv /\ [Next]_vars => SyncInv' /\ asOf' >= asOf
<1> SUFFICES ASSUME SyncInv, [Next]_vars PROVE SyncInv' /\ asOf' >= asOf
  OBVIOUS
<1>0. asOf \in Nat
  BY DEF SyncInv, TypeOK
<1>1. ASSUME NEW release \in Releases, Publish(release) PROVE SyncInv' /\ asOf' >= asOf
  BY <1>0, <1>1, PublishStep DEF Publish, clientVars
<1>2. CASE Announce \/ Disconnect \/ ConnectStream
  <2>1. asOf' = asOf
    BY <1>2 DEF Announce, Disconnect, ConnectStream, clientVars
  <2> QED
    BY <1>0, <1>2, <2>1, ServerStep
<1>3. ASSUME NEW t \in Tasks, Serve(t) \/ ServeMixed(t) PROVE SyncInv' /\ asOf' >= asOf
  BY <1>0, <1>3, ServeStep DEF Serve, ServeMixed
<1>4. ASSUME NEW t \in Tasks, NotModified(t) \/ Install(t) \/ RefreshFails(t)
      PROVE  SyncInv' /\ asOf' >= asOf
  BY <1>4, SettleStep
<1>5. CASE ReadEvent \/ PollDue
  BY <1>0, <1>5, RefreshStep DEF ReadEvent, PollDue
<1>6. CASE ConnectFails \/ StreamEnds \/ ReconnectDue \/ Stop \/ StreamUnwinds \/ PollUnwinds
             \/ StopReturns \/ UNCHANGED vars
  <2>1. asOf' = asOf
    BY <1>6 DEF ConnectFails, StreamEnds, ReconnectDue, Stop, StreamUnwinds, PollUnwinds,
                StopReturns, vars, clientVars
  <2> QED
    BY <1>0, <1>6, <2>1, LoopStep
<1> QED
  BY <1>1, <1>2, <1>3, <1>4, <1>5, <1>6 DEF Next

LEMMA SyncInvHolds == Spec => []SyncInv
<1>1. SyncInv /\ [Next]_vars => SyncInv'
  BY SyncInvNext
<1> QED
  BY <1>1, SyncInvInit, PTL DEF Spec

-----------------------------------------------------------------------------
(* What the invariant implies                                              *)

\* The state of the client, of the synchronizer and of the two endpoints has its
\* types.
THEOREM SyncTypeCorrect == Spec => []TypeOK
<1>1. SyncInv => TypeOK
  BY DEF SyncInv
<1> QED
  BY <1>1, SyncInvHolds, PTL

\* Whatever is mixed up, lost or delayed, the policy in force is one that a
\* trusted key signed and that was current when the control plane last answered.
THEOREM InstalledIsGenuine == Spec => []SnapshotIsGenuine
<1>1. SyncInv => SnapshotIsGenuine
  BY DEF SyncInv
<1> QED
  BY <1>1, SyncInvHolds, PTL

\* When stop() has returned, neither loop runs nor awaits a refresh, and only a
\* start() that stop() interrupted may still have one in flight.
THEOREM StopIsQuiet == Spec => []StoppedIsQuiet
<1>1. SyncInv => StoppedIsQuiet
  <2> SUFFICES ASSUME SyncInv, run = "stopped"
               PROVE  /\ stream = "off" /\ poll = "off"
                      /\ joined["stream"] = NoTask /\ joined["poll"] = NoTask
                      /\ InFlight # {} => InFlight = {"start"} /\ joined["start"] = "start"
    BY DEF StoppedIsQuiet
  <2>1. /\ stream = "off" /\ poll = "off"
        /\ joined["stream"] = NoTask /\ joined["poll"] = NoTask
    BY DEF SyncInv, LoopInv
  <2>2. \A t \in InFlight : t \in Tasks /\ joined[t] = t
    BY DEF SyncInv, JoinInv, InFlight
  <2>3. \A t \in InFlight : t = "start"
    BY <2>1, <2>2, NoTaskAssumption DEF Tasks
  <2> QED
    BY <2>1, <2>2, <2>3
<1> QED
  BY <1>1, SyncInvHolds, PTL

\* No late answer puts an older publication in force.
THEOREM NeverTakenBack == Spec => NeverOlder
<1>1. SyncInv /\ [Next]_vars => [asOf' >= asOf]_vars
  BY SyncInvNext
<1> QED
  BY <1>1, SyncInvHolds, PTL DEF Spec, NeverOlder

-----------------------------------------------------------------------------
(* The edge as a reader of the register                                    *)

\* The register of LatestValue as the edge sees it: its value is the latest
\* publication, and what the edge has observed is the one its snapshot was last
\* confirmed to be.
Edge == INSTANCE LatestValue
          WITH Subscribers <- {"edge"},
               current <- Len(published),
               open <- {"edge"},
               received <- [s \in {"edge"} |-> asOf]

\* A step that leaves the publications alone and takes the snapshot to a
\* publication that is not older is an observation, or no step of the register.
LEMMA ObservesOrStutters ==
  ASSUME SyncInv, SyncInv', published' = published, asOf' >= asOf
  PROVE  Edge!LatestNext \/ UNCHANGED Edge!latestVars
<1>1. /\ asOf \in Nat /\ asOf' \in Nat /\ Len(published) \in Nat
      /\ asOf' <= Len(published)
  BY DEF SyncInv, TypeOK
<1>2. CASE asOf' = asOf
  BY <1>2 DEF Edge!latestVars
<1>3. CASE asOf' # asOf
  <2>1. asOf' \in asOf + 1 .. Len(published)
    BY <1>1, <1>3
  <2>2. Edge!Observe("edge")
    BY <2>1 DEF Edge!Observe
  <2> QED
    BY <2>2 DEF Edge!LatestNext
<1> QED
  BY <1>2, <1>3

\* Seen from the edge, publishing, announcing, answering late, mixing answers and
\* refreshing from three tasks are steps of one register: the edge may miss
\* publications, it never goes back, and it never holds one that is not out yet.
THEOREM EdgeReadsTheRegister == Spec => [][Edge!LatestNext]_(Edge!latestVars)
<1>1. SyncInv /\ SyncInv' /\ [Next]_vars => [Edge!LatestNext]_(Edge!latestVars)
  <2> SUFFICES ASSUME SyncInv, SyncInv', [Next]_vars
               PROVE  Edge!LatestNext \/ UNCHANGED Edge!latestVars
    OBVIOUS
  <2>1. ASSUME NEW release \in Releases, Publish(release)
        PROVE  Edge!LatestNext \/ UNCHANGED Edge!latestVars
    <3>1. Len(published') = Len(published) + 1 /\ asOf' = asOf
      BY <2>1 DEF Publish, clientVars, SyncInv, TypeOK
    <3>2. Edge!Publish
      BY <3>1 DEF Edge!Publish
    <3> QED
      BY <3>2 DEF Edge!LatestNext
  <2>2. published' = published \/ \E release \in Releases : Publish(release)
    BY DEF Next, Announce, Disconnect, Serve, ServeMixed, NotModified, Install, RefreshFails,
           Settle, ConnectStream, ConnectFails, ReadEvent, StreamEnds, ReconnectDue, PollDue,
           Stop, StreamUnwinds, PollUnwinds, StopReturns, vars, serverVars
  <2>3. asOf' >= asOf
    BY SyncInvNext
  <2> QED
    BY <2>1, <2>2, <2>3, ObservesOrStutters
<1> QED
  BY <1>1, SyncInvHolds, PTL DEF Spec

=============================================================================
