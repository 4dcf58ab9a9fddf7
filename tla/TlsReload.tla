----------------------------- MODULE TlsReload -----------------------------
(***************************************************************************)
(* Rotation of TLS material without a restart: the reloader of the edge    *)
(* (TlsMaterialReloader in edge/src/tls.ts), which runs once for the HTTPS *)
(* listener and once for the client side of the connection to the control  *)
(* plane, and the reloader of the control plane                            *)
(* (cmd/shieldwardd/tls_reload.go).  Certificate, key and certificate      *)
(* authority are separate files, read one after the other while they are   *)
(* being replaced.                                                         *)
(*                                                                         *)
(* The operator follows the rollover of                                    *)
(* docs/mutual-tls-and-certificate-rotation.md, writing the files of a     *)
(* step in any order and confirming that the reloaders have taken them in  *)
(* before the next step.  A leaf is named after the authority that issued  *)
(* it.  "broken" stands for whatever a loader rejects in a single file:    *)
(* missing, empty, oversized, truncated, not PEM, not currently valid. The *)
(* new authority is appended to the bundle, so that a bundle cut short     *)
(* after its first certificate, which both loaders accept, is the old one. *)
(* validate() has built a secure context from the same pair when the       *)
(* listener's apply() is called, which therefore does not throw.           *)
(***************************************************************************)
EXTENDS Naturals

CONSTANT Loads  \* names for overlapping loads of one reloader

Reloaders == {"listener", "client", "server"}
Files == {"certificate", "privateKey", "authority"}

\* The listener of the edge has no client authority.
FilesOf(p) == IF p = "listener" THEN Files \ {"authority"} ELSE Files

Contents == {"none", "old", "both", "new", "broken"}

VARIABLES
  files,    \* what the files of each reloader hold
  step,     \* the operator's step
  loads,    \* the loads under way, with the contents read so far
  current,  \* #current, reloader.material
  context   \* the secure context of the HTTPS listener

vars == <<files, step, loads, current, context>>

NoLoad == [f \in Files |-> "idle"]

Material(leaf, authority) ==
  [p \in Reloaders |-> [f \in Files |->
     IF f \notin FilesOf(p) THEN "none" ELSE IF f = "authority" THEN authority ELSE leaf]]

TypeOK ==
  /\ files \in [Reloaders -> [Files -> Contents]]
  /\ step \in {"overlap", "switch", "retire", "done"}
  /\ loads \in [Reloaders -> [Loads -> [Files -> Contents \cup {"idle", "unread"}]]]
  /\ current \in [Reloaders -> [Files -> Contents \ {"broken"}]]
  /\ context \in [Files -> Contents \ {"broken"}]

\* Every reloader has loaded its first material and been started.
Init ==
  /\ files = Material("old", "old")
  /\ step = "overlap"
  /\ loads = [p \in Reloaders |-> [l \in Loads |-> NoLoad]]
  /\ current = Material("old", "old")
  /\ context = current["listener"]

-----------------------------------------------------------------------------
(* The operator                                                            *)

\* What the files are to hold at the end of the step.
Goal ==
  CASE step = "overlap" -> Material("old", "both")
    [] step = "switch" -> Material("new", "both")
    [] step \in {"retire", "done"} -> Material("new", "new")

\* One file is replaced, at once or through a state in which it is unusable;
\* the operator finishes one file before the next.
Write(p, f) ==
  /\ files[p][f] # Goal[p][f]
  /\ \A q \in Reloaders, g \in Files : files[q][g] = "broken" => q = p /\ g = f
  /\ \E c \in {Goal[p][f], "broken"} \ {files[p][f]} :
       files' = [files EXCEPT ![p][f] = c]
  /\ UNCHANGED <<step, loads, current, context>>

NextStep ==
  /\ step # "done"
  /\ files = Goal
  /\ current = Goal
  /\ step' = CASE step = "overlap" -> "switch"
               [] step = "switch" -> "retire"
               [] step = "retire" -> "done"
  /\ UNCHANGED <<files, loads, current, context>>

-----------------------------------------------------------------------------
(* The reloaders                                                           *)

\* Mutant: a timer does not look for a reload in flight.
NothingInFlight(p) == {}

InFlight(p) == {l \in Loads : loads[p][l] # NoLoad}

\* The timer fires.  The edge joins a reload that is in flight, the control
\* plane reloads in the goroutine of its ticker.
StartReload(p) ==
  /\ InFlight(p) = {}
  /\ \E l \in Loads : loads[p][l] = NoLoad
  /\ LET free == CHOOSE l \in Loads : loads[p][l] = NoLoad IN
       loads' = [loads EXCEPT ![p][free] =
         [f \in Files |-> IF f \in FilesOf(p) THEN "unread" ELSE "none"]]
  /\ UNCHANGED <<files, step, current, context>>

Unread(m) == {f \in Files : m[f] = "unread"}

\* Mutant: the key is not compared with the certificate.
ValidatesAny(m) == TRUE

\* validateTlsMaterial, tls.X509KeyPair
Validates(m) == m["certificate"] = m["privateKey"]

\* The edge reads its files concurrently and validates them together; the
\* control plane reads them in turn and validates the pair before the rest.
MayRead(p, m, f) ==
  /\ f \in Unread(m)
  /\ p = "server" =>
       /\ f = "privateKey" => "certificate" \notin Unread(m)
       /\ f = "authority" => Unread(m) = {"authority"} /\ Validates(m)

MayValidate(p, m) ==
  /\ m # NoLoad
  /\ Unread(m) \subseteq IF p = "server" THEN {"authority"} ELSE {}

\* readTlsFile, readTLSMaterialFile
Readable(contents) == contents # "broken"

Read(p, l, f) ==
  /\ MayRead(p, loads[p][l], f)
  /\ loads' = [loads EXCEPT ![p][l] =
       IF Readable(files[p][f]) THEN [@ EXCEPT ![f] = files[p][f]] ELSE NoLoad]
  /\ UNCHANGED <<files, step, current, context>>

Loaded(m) == m # NoLoad /\ Unread(m) = {}

\* Mutant: the fingerprint covers the certificate only.
SameCertificate(m, n) == m["certificate"] = n["certificate"]

\* The fingerprints are equal.
SameFingerprint(m, n) == m = n

EndLoad(p, l) == loads' = [loads EXCEPT ![p][l] = NoLoad]

\* The material does not validate, or is the one in use.
Keep(p, l) ==
  LET m == loads[p][l] IN
  /\ \/ MayValidate(p, m) /\ ~Validates(m)
     \/ Loaded(m) /\ SameFingerprint(m, current[p])
  /\ EndLoad(p, l)
  /\ UNCHANGED <<files, step, current, context>>

\* apply(): only the listener has to be told.
Apply(p, m) == IF p = "listener" THEN m ELSE context

\* New material replaces the old one as a whole.
Replace(p, l) ==
  LET m == loads[p][l] IN
  /\ Loaded(m)
  /\ Validates(m)
  /\ ~SameFingerprint(m, current[p])
  /\ context' = Apply(p, m)
  /\ current' = [current EXCEPT ![p] = m]
  /\ EndLoad(p, l)
  /\ UNCHANGED <<files, step>>

LoadStep(p) ==
  \E l \in Loads : Keep(p, l) \/ Replace(p, l) \/ \E f \in Files : Read(p, l, f)

Next ==
  \/ \E p \in Reloaders, f \in Files : Write(p, f)
  \/ NextStep
  \/ \E p \in Reloaders : StartReload(p)
  \/ \E p \in Reloaders, l \in Loads : Keep(p, l) \/ Replace(p, l)
  \/ \E p \in Reloaders, l \in Loads, f \in Files : Read(p, l, f)

Spec == Init /\ [][Next]_vars

\* Timers fire, file operations return, and the operator finishes the job.
FairSpec ==
  /\ Spec
  /\ \A p \in Reloaders : WF_vars(StartReload(p)) /\ WF_vars(LoadStep(p))
  /\ \A p \in Reloaders, f \in Files :
       WF_vars(Write(p, f) /\ files'[p][f] = Goal[p][f])
  /\ WF_vars(NextStep)

-----------------------------------------------------------------------------
(* Properties                                                              *)

\* The authorities in bundle b include the issuer of a leaf.
Trusts(b, leaf) == b = "both" \/ b = leaf

\* docs/mutual-tls-and-certificate-rotation.md, "CA rollover without an
\* outage": whenever a connection is opened, both ends use a certificate with
\* its own key and trust the issuer of the other's, although six files are
\* replaced one by one under two reloaders that know nothing of each other.
NoOutage ==
  /\ \A p \in Reloaders : current[p]["certificate"] = current[p]["privateKey"]
  /\ Trusts(current["client"]["authority"], current["server"]["certificate"])
  /\ Trusts(current["server"]["authority"], current["client"]["certificate"])

Rank(c) == CASE c = "none" -> 0 [] c = "old" -> 1 [] c = "both" -> 2 [] c = "new" -> 3

\* Material is never replaced by what was read before it was: neither the
\* reloaders nor the listener go back to an older state of the files, and the
\* listener serves what its reloader reports.
NoStaleMaterial ==
  [][/\ \A p \in Reloaders, f \in Files : Rank(current'[p][f]) >= Rank(current[p][f])
     /\ context' = current'["listener"]]_vars

\* The rollover gets to its end: every step is taken in by all reloaders, a
\* change of the authority alone included, and no unusable file in between
\* stops a reloader for good.
RolloverCompletes == <>(step = "done" /\ current = Material("new", "new"))

=============================================================================
