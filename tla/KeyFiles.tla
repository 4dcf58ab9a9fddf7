------------------------------ MODULE KeyFiles ------------------------------
(***************************************************************************)
(* How `shieldwardd keygen` puts a new signing key pair into its two files *)
(* (GenerateAndWriteKeyPair and writeExclusive in                          *)
(* internal/signing/keyfile.go).  Several runs may overlap on one pair of  *)
(* paths, each may fail at any write, and each may be killed between any   *)
(* two system calls.  The control plane signs with the private file, edges *)
(* verify with a copy of the public one.                                   *)
(*                                                                         *)
(* A key pair is known by the run that generated it.  Removing a file that *)
(* was just created is assumed to succeed, as in the code, which ignores   *)
(* the error.                                                              *)
(***************************************************************************)
CONSTANTS
  Keygens,  \* runs of keygen
  NoKeygen  \* the owner of a file that does not exist

ASSUME KeygenAssumption == NoKeygen \notin Keygens

VARIABLES
  publicFile,   \* whose public key the file holds, and whether all of it
  privateFile,  \* the same for the private key
  keygen        \* where each run is

keyVars == <<publicFile, privateFile, keygen>>

Absent == [owner |-> NoKeygen, complete |-> FALSE]
Opened(k) == [owner |-> k, complete |-> FALSE]
Written(k) == [owner |-> k, complete |-> TRUE]

KeyTypeOK ==
  /\ {publicFile, privateFile} \subseteq
       {Absent} \cup {Opened(k) : k \in Keygens} \cup {Written(k) : k \in Keygens}
  /\ keygen \in [Keygens -> {"new", "public", "between", "private", "cleanup",
                             "succeeded", "failed", "killed"}]

KeyInit ==
  /\ publicFile = Absent
  /\ privateFile = Absent
  /\ keygen = [k \in Keygens |-> "new"]

-----------------------------------------------------------------------------
Becomes(k, state) == keygen' = [keygen EXCEPT ![k] = state]

\* Mutant: an existing file is truncated.
CreatesAnyway(file) == TRUE

\* O_CREATE|O_EXCL
Creates(file) == file = Absent

OpenPublic(k) ==
  /\ keygen[k] = "new"
  /\ IF Creates(publicFile)
     THEN publicFile' = Opened(k) /\ Becomes(k, "public")
     ELSE Becomes(k, "failed") /\ UNCHANGED publicFile
  /\ UNCHANGED privateFile

\* Write, Sync and Close succeed, or the file is removed again.
WritePublic(k) ==
  /\ keygen[k] = "public"
  /\ \/ publicFile' = Written(k) /\ Becomes(k, "between")
     \/ publicFile' = Absent /\ Becomes(k, "failed")
  /\ UNCHANGED privateFile

OpenPrivate(k) ==
  /\ keygen[k] = "between"
  /\ IF Creates(privateFile)
     THEN privateFile' = Opened(k) /\ Becomes(k, "private")
     ELSE Becomes(k, "cleanup") /\ UNCHANGED privateFile
  /\ UNCHANGED publicFile

WritePrivate(k) ==
  /\ keygen[k] = "private"
  /\ \/ privateFile' = Written(k) /\ Becomes(k, "succeeded")
     \/ privateFile' = Absent /\ Becomes(k, "cleanup")
  /\ UNCHANGED publicFile

\* The private key could not be written: the public one is taken back.
RemovePublic(k) ==
  /\ keygen[k] = "cleanup"
  /\ publicFile' = Absent
  /\ Becomes(k, "failed")
  /\ UNCHANGED privateFile

Running == {k \in Keygens : keygen[k] \in {"public", "between", "private", "cleanup"}}

Kill(k) ==
  /\ k \in Running
  /\ Becomes(k, "killed")
  /\ UNCHANGED <<publicFile, privateFile>>

\* The operator clears both paths when nothing is running.
ClearFiles ==
  /\ Running = {}
  /\ {publicFile, privateFile} # {Absent}
  /\ publicFile' = Absent
  /\ privateFile' = Absent
  /\ UNCHANGED keygen

KeyNext ==
  \/ \E k \in Keygens :
       \/ OpenPublic(k) \/ WritePublic(k) \/ OpenPrivate(k) \/ WritePrivate(k)
       \/ RemovePublic(k) \/ Kill(k)
  \/ ClearFiles

KeySpec == KeyInit /\ [][KeyNext]_keyVars

-----------------------------------------------------------------------------
(* Properties                                                              *)

\* LoadPrivateKeyFile accepts the file.
PrivateLoads == privateFile.complete

\* Whenever there is a private key that can sign, the public key beside it is
\* there as a whole and belongs to it: whatever overlapped, failed or was
\* killed, no control plane signs with a key whose public half was lost or
\* belongs to another pair, which edges would reject for good.
PairMatches ==
  PrivateLoads => publicFile.complete /\ publicFile.owner = privateFile.owner

=============================================================================
