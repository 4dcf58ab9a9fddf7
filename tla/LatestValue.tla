---------------------------- MODULE LatestValue ----------------------------
(***************************************************************************)
(* What the control plane's store promises its subscribers: a register     *)
(* that publications overwrite, and subscribers that observe it from time  *)
(* to time.  A subscriber may skip publications; it never sees one twice,  *)
(* never goes back, and never sees one that cannot be fetched yet.         *)
(***************************************************************************)
EXTENDS Naturals

CONSTANT Subscribers

VARIABLES
  current,   \* number of the latest publication
  open,      \* who is subscribed
  received   \* the publication each subscriber observed last, 0 for none

latestVars == <<current, open, received>>

LatestInit ==
  /\ current = 0
  /\ open = {}
  /\ received = [s \in Subscribers |-> 0]

Publish ==
  /\ current' = current + 1
  /\ UNCHANGED <<open, received>>

Join(s) ==
  /\ s \notin open
  /\ open' = open \cup {s}
  /\ received' = [received EXCEPT ![s] = 0]
  /\ UNCHANGED current

Leave(s) ==
  /\ s \in open
  /\ open' = open \ {s}
  /\ UNCHANGED <<current, received>>

Observe(s) ==
  /\ s \in open
  /\ \E v \in received[s] + 1 .. current :
       received' = [received EXCEPT ![s] = v]
  /\ UNCHANGED <<current, open>>

LatestNext ==
  \/ Publish
  \/ \E s \in Subscribers : Join(s) \/ Leave(s) \/ Observe(s)

LatestSpec == LatestInit /\ [][LatestNext]_latestVars

=============================================================================
