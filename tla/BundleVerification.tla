------------------------- MODULE BundleVerification -------------------------
(***************************************************************************)
(* What the control plane signs (Sign in internal/signing/signing.go,      *)
(* newSnapshot and ETag in internal/server/store.go) and what an edge      *)
(* accepts (verifyBundleEnvelope in edge/src/verify.ts, the keyring of     *)
(* edge/src/trusted-keys.ts and the entity-tag check of                    *)
(* edge/src/config-client.ts).                                             *)
(*                                                                         *)
(* Cryptography is symbolic: a digest is a record of what it was computed  *)
(* from, so that equal digests mean equal content, and a signature is a    *)
(* record of the key and of the bundle it was made with.  Both sides sign  *)
(* the canonical JSON of a bundle, which is the bundle itself here.        *)
(***************************************************************************)
CONSTANTS
  Policies,      \* compiled policies: bundles without their version
  Unreadable,    \* those that parseBundle() refuses though they were compiled
  Keys,          \* signing key pairs
  TrustedKeys    \* those whose public half the edge was configured with

ASSUME PoliciesAssumption == Unreadable \subseteq Policies
ASSUME KeysAssumption == TrustedKeys \subseteq Keys

Sha256(content) == [sha256 |-> content]
Quoted(version) == [quoted |-> version]

VersionOf(policy) == Sha256(policy)

-----------------------------------------------------------------------------
(* The control plane                                                       *)

VersionedBundle(policy) == [policy |-> policy, version |-> VersionOf(policy)]

\* Sign(): the envelope names the key and carries the signature of the bundle.
Sign(policy, key) ==
  [keyId     |-> Sha256(key),
   bundle    |-> VersionedBundle(policy),
   signature |-> [key |-> key, of |-> VersionedBundle(policy)]]

\* A 200 of GET /v1/bundle: the envelope, and its version as the entity tag.
AnswerFor(policy, key) ==
  [etag |-> Quoted(VersionOf(policy)), envelope |-> Sign(policy, key)]

-----------------------------------------------------------------------------
(* The edge                                                                *)

\* createTrustedKeyring(): identifiers are computed from the keys.
Keyring == [id \in {Sha256(key) : key \in TrustedKeys} |-> id.sha256]

Parses(envelope) == envelope.bundle.policy \notin Unreadable

\* Mutant: whose signature it is does not matter.
SignedByAnybody(envelope) == envelope.signature.of = envelope.bundle

SignatureValid(envelope) ==
  envelope.signature = [key |-> Keyring[envelope.keyId], of |-> envelope.bundle]

VersionMatches(bundle) == bundle.version = VersionOf(bundle.policy)

\* verifyBundleEnvelope()
Verifies(envelope) ==
  /\ Parses(envelope)
  /\ envelope.keyId \in DOMAIN Keyring
  /\ SignatureValid(envelope)
  /\ VersionMatches(envelope.bundle)

\* The 200 is taken: it verifies and its entity tag is its version.
Accepts(answer) ==
  /\ Verifies(answer.envelope)
  /\ answer.etag = Quoted(answer.envelope.bundle.version)

=============================================================================
