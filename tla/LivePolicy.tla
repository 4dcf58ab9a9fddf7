----------------------------- MODULE LivePolicy -----------------------------
(***************************************************************************)
(* The evaluator that follows the verified configuration                   *)
(* (edge/src/live-policy.ts): it keeps one policy engine and replaces it   *)
(* when a request finds that the configuration has moved on.               *)
(*                                                                         *)
(* The configuration client is seen through current(): a snapshot of some  *)
(* verified version, replaced as a whole.  An engine is identified by the  *)
(* version it was built from.                                              *)
(***************************************************************************)
CONSTANTS
  Versions,   \* versions of verified bundles
  Unbuildable,\* the ones the engine factory throws on
  NoVersion   \* no version

ASSUME VersionsAssumption == Unbuildable \subseteq Versions /\ NoVersion \notin Versions

VARIABLES
  snapshot,       \* version of ConfigurationClient.current()
  activeVersion,  \* #activeVersion
  engine          \* #activeEvaluator

policyVars == <<snapshot, activeVersion, engine>>

PolicyTypeOK ==
  /\ snapshot \in Versions \cup {NoVersion}
  /\ activeVersion \in Versions \cup {NoVersion}
  /\ engine \in (Versions \ Unbuildable) \cup {NoVersion}

\* The synchronizer has loaded a first snapshot before the gateway exists.
PolicyInit ==
  /\ snapshot \in Versions
  /\ activeVersion = NoVersion
  /\ engine = NoVersion

\* The configuration client installs another verified snapshot.
Install(v) ==
  /\ snapshot # v
  /\ snapshot' = v
  /\ UNCHANGED <<activeVersion, engine>>

MustRebuild == engine = NoVersion \/ activeVersion # snapshot

\* Mutant: the version is recorded before the engine is built.
EvaluateFailsLate ==
  /\ MustRebuild
  /\ snapshot \in Unbuildable
  /\ activeVersion' = snapshot
  /\ UNCHANGED <<snapshot, engine>>

\* evaluate() throws before it has an engine: there is no snapshot yet, or the
\* factory failed; the previous engine and version stay as they are.
EvaluateFails ==
  /\ snapshot = NoVersion \/ (MustRebuild /\ snapshot \in Unbuildable)
  /\ UNCHANGED policyVars

\* evaluate() reaches an engine and hands the request to it.
EvaluateBy(v) ==
  \/ /\ ~MustRebuild
     /\ snapshot # NoVersion
     /\ v = engine
     /\ UNCHANGED policyVars
  \/ /\ MustRebuild
     /\ snapshot \in Versions \ Unbuildable
     /\ v = snapshot
     /\ activeVersion' = snapshot
     /\ engine' = snapshot
     /\ UNCHANGED snapshot

=============================================================================
