---------------------------- MODULE BundleStore ----------------------------
(***************************************************************************)
(* The control plane's bundle store (internal/server/store.go) and the     *)
(* event handlers that subscribe to it (events in                          *)
(* internal/server/handler.go).  Publish stores the new snapshot and       *)
(* pushes its version into the one-place channel of every subscriber,      *)
(* under the mutex; the handlers receive from their channels without it,   *)
(* so a receive may fall between any two of pushLatest's three selects.    *)
(*                                                                         *)
(* Publications are numbered; 0 in a channel means that it is empty.  The  *)
(* mutex is held exactly while the publisher is not idle: the critical     *)
(* sections of Subscribe and cancel are single steps.                      *)
(***************************************************************************)
EXTENDS Naturals

CONSTANTS
  Subscribers,      \* event streams that may exist at a time
  NoSubscriber,     \* no event stream
  MaxPublications   \* bound on the number of publications

ASSUME StoreAssumption ==
  NoSubscriber \notin Subscribers /\ MaxPublications \in Nat

VARIABLES
  current,   \* Store.current
  open,      \* the keys of Store.subscribers
  channel,   \* the content of each subscriber's channel
  received,  \* the version each event handler announced last
  step,      \* the publisher: idle, or where it is in its loop and pushLatest
  todo,      \* subscribers the loop of Publish has not finished with
  target     \* the subscriber pushLatest works on

vars == <<current, open, channel, received, step, todo, target>>

TypeOK ==
  /\ current \in Nat
  /\ open \subseteq Subscribers
  /\ channel \in [Subscribers -> Nat]
  /\ received \in [Subscribers -> Nat]
  /\ step \in {"idle", "next", "try", "drain", "retry"}
  /\ todo \subseteq Subscribers
  /\ target \in Subscribers \cup {NoSubscriber}

Init ==
  /\ current = 0
  /\ open = {}
  /\ channel = [s \in Subscribers |-> 0]
  /\ received = [s \in Subscribers |-> 0]
  /\ step = "idle"
  /\ todo = {}
  /\ target = NoSubscriber

-----------------------------------------------------------------------------
(* Publish                                                                 *)

\* Lock, store the snapshot, start to range over the subscribers.
Publish ==
  /\ step = "idle"
  /\ current < MaxPublications
  /\ current' = current + 1
  /\ step' = "next"
  /\ todo' = open
  /\ UNCHANGED <<open, channel, received, target>>

PickSubscriber(s) ==
  /\ step = "next"
  /\ s \in todo
  /\ step' = "try"
  /\ target' = s
  /\ UNCHANGED <<current, open, channel, received, todo>>

\* Mutant: the version is announced before it is stored.
AnnouncedEarly == current + 1

\* The version pushLatest sends.
PushedVersion == current

Sent ==
  /\ channel' = [channel EXCEPT ![target] = PushedVersion]
  /\ todo' = todo \ {target}
  /\ step' = "next"

\* The first select: send if the channel is empty.
TrySend ==
  /\ step = "try"
  /\ IF channel[target] = 0 THEN Sent
     ELSE step' = "drain" /\ UNCHANGED <<channel, todo>>
  /\ UNCHANGED <<current, open, received, target>>

\* Mutant: the stale version is not taken out.
DrainNothing ==
  /\ step = "drain"
  /\ step' = "retry"
  /\ UNCHANGED <<channel, current, open, received, todo, target>>

\* The second select: take the stale version out, unless the handler has.
Drain ==
  /\ step = "drain"
  /\ step' = "retry"
  /\ channel' = [channel EXCEPT ![target] = 0]
  /\ UNCHANGED <<current, open, received, todo, target>>

\* The third select: send, or drop the version if the channel is full again.
Retry ==
  /\ step = "retry"
  /\ IF channel[target] = 0 THEN Sent
     ELSE step' = "next" /\ todo' = todo \ {target} /\ UNCHANGED channel
  /\ UNCHANGED <<current, open, received, target>>

\* The loop is over: unlock.
PublishReturns ==
  /\ step = "next"
  /\ todo = {}
  /\ step' = "idle"
  /\ UNCHANGED <<current, open, channel, received, todo, target>>

-----------------------------------------------------------------------------
(* The event handlers                                                      *)

\* Mutant: the mutex is not taken.
MutexIgnored == TRUE

MutexFree == step = "idle"

\* Subscribe: a new channel that starts with the current version.
Subscribe(s) ==
  /\ MutexFree
  /\ s \notin open
  /\ open' = open \cup {s}
  /\ channel' = [channel EXCEPT ![s] = current]
  /\ received' = [received EXCEPT ![s] = 0]
  /\ UNCHANGED <<current, step, todo, target>>

\* The handler receives a version and writes it to its stream.
Receive(s) ==
  /\ s \in open
  /\ channel[s] # 0
  /\ received' = [received EXCEPT ![s] = channel[s]]
  /\ channel' = [channel EXCEPT ![s] = 0]
  /\ UNCHANGED <<current, open, step, todo, target>>

\* The client disconnects or a write fails: the deferred cancel removes the
\* channel and closes it.
Cancel(s) ==
  /\ MutexFree
  /\ s \in open
  /\ open' = open \ {s}
  /\ channel' = [channel EXCEPT ![s] = 0]
  /\ UNCHANGED <<current, received, step, todo, target>>

PublisherStep ==
  \/ \E s \in Subscribers : PickSubscriber(s)
  \/ TrySend \/ Drain \/ Retry \/ PublishReturns

Next ==
  \/ Publish
  \/ \E s \in Subscribers : PickSubscriber(s)
  \/ TrySend \/ Drain \/ Retry \/ PublishReturns
  \/ \E s \in Subscribers : Subscribe(s) \/ Receive(s) \/ Cancel(s)

Spec == Init /\ [][Next]_vars

-----------------------------------------------------------------------------
(* Properties                                                              *)

\* A subscriber the publisher is done with has the newest version: it is in
\* its channel, or was the last one received.  In particular the third select
\* never drops it, whatever the handler does between the selects.
NewestReachesEveryone ==
  \A s \in open \ todo :
    \/ channel[s] = current
    \/ channel[s] = 0 /\ received[s] = current

\* Publish only pushes into channels that are still open: a send on a closed
\* channel would panic and take the control plane down.
SendsToOpenChannels == todo \subseteq open

\* The inductive invariant behind both: in the middle of pushLatest the target
\* is still to do, after the drain its channel is empty (nobody else sends),
\* every channel holds something newer than what its handler announced, and
\* who is still to do has not seen the new version anywhere.
StoreInv ==
  /\ TypeOK
  /\ NewestReachesEveryone
  /\ SendsToOpenChannels
  /\ step = "idle" => todo = {}
  /\ step \in {"try", "drain", "retry"} => target \in todo
  /\ step = "retry" => channel[target] = 0
  /\ \A s \in open :
       /\ channel[s] <= current
       /\ channel[s] # 0 => received[s] < channel[s]
       /\ received[s] <= current
  /\ \A s \in todo : received[s] < current /\ channel[s] < current

\* The store implements a register that subscribers observe in order.
Abstract == INSTANCE LatestValue

ImplementsLatestValue == Abstract!LatestSpec

=============================================================================
