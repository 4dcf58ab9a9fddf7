-------------------------- MODULE RedisRateLimiter --------------------------
(***************************************************************************)
(* The distributed fixed-window limiter (edge/src/redis-rate-limit.ts) of  *)
(* several edge replicas that share one Redis.  A check sends one script   *)
(* to Redis, which runs it atomically against its own clock.  Replies may  *)
(* be late or lost: the command timeout and the loss of the connection     *)
(* (edge/src/rate-limit-runtime.ts) fail the check, although the script    *)
(* may have run, or may still run.                                         *)
(*                                                                         *)
(* Redis itself is external and taken to keep its data and a clock that    *)
(* does not go back.  Replicas check with the limits of the policy they    *)
(* have, which during a rollout is not the same for all.                   *)
(***************************************************************************)
EXTENDS Integers

CONSTANTS
  Checks,    \* check() calls that may be under way, of whichever replica
  Keys,      \* hashes of a route and an identity
  Policies,  \* records of requests and window the replicas check with
  NoEntry,   \* no such key in Redis
  NoCall,    \* this check has not begun
  MaxTime    \* bound on the clock of Redis

VARIABLES
  clock,    \* the TIME of Redis
  entries,  \* the hashes stored in Redis
  calls,    \* the checks under way
  admitted  \* history: requests let through, by key and start of the window
            \* in which the script granted them

vars == <<clock, entries, calls, admitted>>

Entry == [start : Nat, count : Nat, policy : Policies, expiresAt : Nat]

Call ==
  [phase : {"sent", "abandoned", "executed"}, key : Keys, policy : Policies,
   allowed : BOOLEAN, start : Nat]

TypeOK ==
  /\ clock \in 0 .. MaxTime
  /\ entries \in [Keys -> Entry \cup {NoEntry}]
  /\ calls \in [Checks -> Call \cup {NoCall}]
  /\ admitted \in [Keys -> [0 .. MaxTime -> Nat]]

Init ==
  /\ clock = 0
  /\ entries = [k \in Keys |-> NoEntry]
  /\ calls = [c \in Checks |-> NoCall]
  /\ admitted = [k \in Keys |-> [s \in 0 .. MaxTime |-> 0]]

-----------------------------------------------------------------------------
(* The script                                                              *)

WindowStart(window) == clock - (clock % window)

\* The stored count is of another window or was made for another policy.
Stale(e, p) ==
  e = NoEntry \/ e.start # WindowStart(p.window) \/ e.policy # p

\* The count the script starts from.
Counted(e, p) == IF Stale(e, p) THEN 0 ELSE e.count

Grants(count, p) == count < p.requests

\* The hash after the script ran with policy p.
Stepped(e, p) ==
  LET count == Counted(e, p) IN
  [start |-> WindowStart(p.window), policy |-> p,
   count |-> IF Grants(count, p) THEN count + 1 ELSE count,
   expiresAt |-> WindowStart(p.window) + p.window]

RunScript(c) ==
  LET k == calls[c].key
      p == calls[c].policy
  IN entries' = [entries EXCEPT ![k] = Stepped(@, p)]

-----------------------------------------------------------------------------
(* check()                                                                 *)

Send(c, k, p) ==
  /\ calls[c] = NoCall
  /\ calls' = [calls EXCEPT ![c] =
       [phase |-> "sent", key |-> k, policy |-> p, allowed |-> FALSE, start |-> 0]]
  /\ UNCHANGED <<clock, entries, admitted>>

Execute(c) ==
  LET k == calls[c].key
      p == calls[c].policy
  IN
  /\ calls[c] # NoCall
  /\ calls[c].phase = "sent"
  /\ RunScript(c)
  /\ calls' = [calls EXCEPT ![c].phase = "executed",
                            ![c].allowed = Grants(Counted(entries[k], p), p),
                            ![c].start = WindowStart(p.window)]
  /\ UNCHANGED <<clock, admitted>>

\* The reply arrives in time.
Reply(c) ==
  /\ calls[c] # NoCall
  /\ calls[c].phase = "executed"
  /\ calls' = [calls EXCEPT ![c] = NoCall]
  /\ admitted' = IF calls[c].allowed
                 THEN [admitted EXCEPT ![calls[c].key][calls[c].start] = @ + 1]
                 ELSE admitted
  /\ UNCHANGED <<clock, entries>>

\* Mutant: a check that fails lets the request through.
FailsOpen(c) == [admitted EXCEPT ![calls[c].key][WindowStart(calls[c].policy.window)] = @ + 1]

\* A check that throws lets nothing through: 503 rate_limiter_unavailable.
FailsClosed(c) == admitted

\* The command times out, or the connection is lost, after the script ran.
ReplyLost(c) ==
  /\ calls[c] # NoCall
  /\ calls[c].phase = "executed"
  /\ calls' = [calls EXCEPT ![c] = NoCall]
  /\ admitted' = FailsClosed(c)
  /\ UNCHANGED <<clock, entries>>

\* The command times out before the script ran; it may be on its way still.
TimesOut(c) ==
  /\ calls[c] # NoCall
  /\ calls[c].phase = "sent"
  /\ calls' = [calls EXCEPT ![c].phase = "abandoned"]
  /\ admitted' = FailsClosed(c)
  /\ UNCHANGED <<clock, entries>>

\* The script of a command nobody waits for runs all the same,
ExecuteLate(c) ==
  /\ calls[c] # NoCall
  /\ calls[c].phase = "abandoned"
  /\ RunScript(c)
  /\ calls' = [calls EXCEPT ![c] = NoCall]
  /\ UNCHANGED <<clock, admitted>>

\* or never.
Dropped(c) ==
  /\ calls[c] # NoCall
  /\ calls[c].phase = "abandoned"
  /\ calls' = [calls EXCEPT ![c] = NoCall]
  /\ UNCHANGED <<clock, entries, admitted>>

\* Time passes at Redis; PEXPIRE removes what is over.
Tick ==
  /\ clock < MaxTime
  /\ clock' = clock + 1
  /\ entries' = [k \in Keys |->
       IF entries[k] # NoEntry /\ entries[k].expiresAt <= clock + 1 THEN NoEntry
       ELSE entries[k]]
  /\ UNCHANGED <<calls, admitted>>

Next ==
  \/ \E c \in Checks, k \in Keys, p \in Policies : Send(c, k, p)
  \/ \E c \in Checks :
       Execute(c) \/ Reply(c) \/ ReplyLost(c) \/ TimesOut(c) \/ ExecuteLate(c) \/ Dropped(c)
  \/ Tick

Spec == Init /\ [][Next]_vars

-----------------------------------------------------------------------------
(* Properties                                                              *)

\* docs/distributed-rate-limiting.md: the Redis backend serves to "enforce one
\* limit across all replicas".  In no window do the replicas together let more
\* requests of a key through than the most generous of their policies grants,
\* whatever is timed out, lost or executed late.
OneLimitAcrossReplicas ==
  \A k \in Keys, s \in 0 .. MaxTime :
    \E p \in Policies : admitted[k][s] <= p.requests

=============================================================================
