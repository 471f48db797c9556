---------------------------- MODULE MqttLimiter ----------------------------
(***************************************************************************)
(* The rate-limited publisher of MQTT/src/47/mqtt_rate_limiter.rs: a token *)
(* bucket, two counters and the MQTT client, each behind a mutex of its    *)
(* own or a channel, used by any number of threads through &self.  Every   *)
(* lock, and every reading of the clock, is a step; time passes between    *)
(* them.  Tokens and time are counted in whole units.                      *)
(***************************************************************************)
EXTENDS Integers, FiniteSets

CONSTANTS
  Thread, None,
  refill_rate, max_tokens,   \* of the bucket, per unit of time
  Requests,                  \* capacity of the client's channel, 10 in new()
  MaxTime, MaxCalls          \* bounds: on the clock, on the calls in all

ASSUME LimiterAssumption ==
  /\ None \notin Thread
  /\ refill_rate \in Nat /\ max_tokens \in Nat
  /\ Requests \in Nat \ {0} /\ MaxTime \in Nat /\ MaxCalls \in Nat
ASSUME ThreadAssumption == IsFiniteSet(Thread)

VARIABLES
  now,                               \* the clock
  tokens, last_refill,               \* TokenBucketRateLimiter
  limiter, sent, dropped,            \* the mutexes: who holds them
  messages_sent, messages_dropped,   \* what two of them protect
  requests, eventloop,               \* the client's channel and its thread
  pc,                                \* where each thread is
  calls, failed,                     \* publish() calls made; those with Err
  consumed, before                   \* tokens consumed; before[t]: until t

bucket == <<tokens, last_refill>>
mutexes == <<limiter, sent, dropped>>
counters == <<messages_sent, messages_dropped>>
client == <<requests, eventloop>>
history == <<consumed, before>>
vars == <<now, bucket, mutexes, counters, client, pc, calls, failed, history>>

Init ==
  /\ now = 0
  /\ tokens = max_tokens /\ last_refill = 0
  /\ limiter = None /\ sent = None /\ dropped = None
  /\ messages_sent = 0 /\ messages_dropped = 0
  /\ requests = 0 /\ eventloop = TRUE
  /\ pc = [t \in Thread |-> "idle"]
  /\ calls = 0 /\ failed = 0
  /\ consumed = 0 /\ before = [t \in 0 .. MaxTime |-> 0]

Goto(t, from, to) == pc[t] = from /\ pc' = [pc EXCEPT ![t] = to]

-----------------------------------------------------------------------------
(* TokenBucketRateLimiter::refill reads the clock twice. *)

Refill(t, from, to) ==
  /\ Goto(t, from, to)
  /\ LET refilled == tokens + (now - last_refill) * refill_rate
     IN  tokens' = IF refilled < max_tokens THEN refilled ELSE max_tokens
  /\ UNCHANGED <<now, last_refill, mutexes, counters, client, calls, failed,
                 history>>

-----------------------------------------------------------------------------
(* publish() *)

PublishLock(t) ==
  /\ calls < MaxCalls /\ calls' = calls + 1
  /\ limiter = None /\ limiter' = t
  /\ Goto(t, "idle", "refill")
  /\ UNCHANGED <<now, bucket, sent, dropped, counters, client, failed, history>>

(* Fault: last_refill stays, so the same time is credited again. *)
TryConsume_NoMark(t) ==
  /\ tokens >= 1
  /\ tokens' = tokens - 1 /\ consumed' = consumed + 1
  /\ limiter' = None
  /\ Goto(t, "consume", "send")
  /\ UNCHANGED <<now, last_refill, sent, dropped, counters, client, calls,
                 failed, before>>

(* The second reading of the clock, the test, and drop(limiter). *)
TryConsume(t) ==
  /\ last_refill' = now
  /\ tokens >= 1
  /\ tokens' = tokens - 1 /\ consumed' = consumed + 1
  /\ limiter' = None
  /\ Goto(t, "consume", "send")
  /\ UNCHANGED <<now, sent, dropped, counters, client, calls, failed, before>>

(* No token: the bucket stays locked until the return. *)
Exceeded(t) ==
  /\ last_refill' = now
  /\ tokens < 1
  /\ Goto(t, "consume", "drop")
  /\ UNCHANGED <<now, tokens, mutexes, counters, client, calls, failed, history>>

Drop(t) ==
  /\ dropped = None
  /\ messages_dropped' = messages_dropped + 1
  /\ limiter' = None
  /\ Goto(t, "drop", "idle")
  /\ UNCHANGED <<now, bucket, sent, dropped, messages_sent, client, calls,
                 failed, history>>

(* client.publish waits for room in the channel ... *)
ClientPublish(t) ==
  /\ eventloop /\ requests < Requests
  /\ requests' = requests + 1
  /\ Goto(t, "send", "count")
  /\ UNCHANGED <<now, bucket, mutexes, counters, eventloop, calls, failed,
                 history>>

(* Fault: an error of the client is taken for success. *)
ClientError_Ignored(t) ==
  /\ ~eventloop
  /\ Goto(t, "send", "idle")
  /\ UNCHANGED <<now, bucket, mutexes, counters, client, calls, failed, history>>

(* Fault: the call waits for a thread that is gone. *)
ClientError_Waits(t) ==
  /\ ~eventloop
  /\ Goto(t, "send", "send")
  /\ UNCHANGED <<now, bucket, mutexes, counters, client, calls, failed, history>>

(* ... and fails once the thread at the other end is gone. *)
ClientError(t) ==
  /\ ~eventloop
  /\ failed' = failed + 1
  /\ Goto(t, "send", "idle")
  /\ UNCHANGED <<now, bucket, mutexes, counters, client, calls, history>>

Count(t) ==
  /\ sent = None
  /\ messages_sent' = messages_sent + 1
  /\ Goto(t, "count", "idle")
  /\ UNCHANGED <<now, bucket, mutexes, messages_dropped, client, calls, failed,
                 history>>

-----------------------------------------------------------------------------
(* print_stats() *)

StatsSent(t) ==
  /\ sent = None /\ sent' = t
  /\ Goto(t, "idle", "stats_dropped")
  /\ UNCHANGED <<now, bucket, limiter, dropped, counters, client, calls, failed,
                 history>>

StatsDropped(t) ==
  /\ dropped = None /\ dropped' = t
  /\ Goto(t, "stats_dropped", "stats_limiter")
  /\ UNCHANGED <<now, bucket, limiter, sent, counters, client, calls, failed,
                 history>>

StatsLimiter(t) ==
  /\ limiter = None /\ limiter' = t
  /\ Goto(t, "stats_limiter", "stats_refill")
  /\ UNCHANGED <<now, bucket, sent, dropped, counters, client, calls, failed,
                 history>>

(* available_tokens, the output and the end of the three guards. *)
StatsReturn(t) ==
  /\ last_refill' = now
  /\ limiter' = None /\ sent' = None /\ dropped' = None
  /\ Goto(t, "stats_mark", "idle")
  /\ UNCHANGED <<now, tokens, counters, client, calls, failed, history>>

-----------------------------------------------------------------------------
(* The clock and the background thread of new() *)

Tick ==
  /\ now < MaxTime
  /\ now' = now + 1
  /\ before' = [before EXCEPT ![now + 1] = consumed]
  /\ UNCHANGED <<bucket, mutexes, counters, client, pc, calls, failed, consumed>>

EventLoopTake ==
  /\ eventloop /\ requests > 0
  /\ requests' = requests - 1
  /\ UNCHANGED <<now, bucket, mutexes, counters, eventloop, pc, calls, failed,
                 history>>

EventLoopError ==
  /\ eventloop /\ eventloop' = FALSE
  /\ UNCHANGED <<now, bucket, mutexes, counters, requests, pc, calls, failed,
                 history>>

-----------------------------------------------------------------------------
publish(t) ==
  \/ PublishLock(t) \/ Refill(t, "refill", "consume")
  \/ TryConsume(t) \/ Exceeded(t) \/ Drop(t)
  \/ ClientPublish(t) \/ ClientError(t) \/ Count(t)

print_stats(t) ==
  \/ StatsSent(t) \/ StatsDropped(t) \/ StatsLimiter(t)
  \/ Refill(t, "stats_refill", "stats_mark") \/ StatsReturn(t)

Environment == Tick \/ EventLoopTake \/ EventLoopError

(* main prints the statistics when no publish() is going on, and publishes *)
(* when no print_stats() is.                                               *)
Quiet(op) == \A t \in Thread : pc[t] \notin op

Publishing == {"refill", "consume", "drop", "send", "count"}
Reporting == {"stats_dropped", "stats_limiter", "stats_refill", "stats_mark"}

Next ==
  \/ Environment
  \/ Quiet(Reporting) /\ \E t \in Thread : publish(t)
  \/ Quiet(Publishing) /\ \E t \in Thread : print_stats(t)

Spec == Init /\ [][Next]_vars

(* The threads are scheduled; the client's thread takes requests until the *)
(* connection fails, which the keep-alive detects at the latest.           *)
LiveSpec ==
  /\ Spec
  /\ \A t \in Thread : WF_vars(pc[t] # "idle" /\ (publish(t) \/ print_stats(t)))
  /\ WF_vars(EventLoopTake)

(* Threads that publish while another one prints statistics. *)
SharedSpec ==
  Init /\ [][Environment \/ \E t \in Thread : publish(t) \/ print_stats(t)]_vars

-----------------------------------------------------------------------------
TypeOK ==
  /\ now \in 0 .. MaxTime /\ last_refill \in 0 .. now
  /\ tokens \in 0 .. max_tokens
  /\ limiter \in Thread \cup {None} /\ sent \in Thread \cup {None}
  /\ dropped \in Thread \cup {None}
  /\ messages_sent \in Nat /\ messages_dropped \in Nat
  /\ requests \in 0 .. Requests /\ eventloop \in BOOLEAN
  /\ pc \in [Thread -> {"idle"} \cup Publishing \cup Reporting]
  /\ calls \in 0 .. MaxCalls /\ failed \in Nat
  /\ consumed \in Nat /\ before \in [0 .. MaxTime -> Nat]

(* The bucket belongs to the thread that has locked it. *)
Holding == {"refill", "consume", "drop", "stats_refill", "stats_mark"}

LockInv == \A t \in Thread : pc[t] \in Holding => limiter = t

(* Between the two readings of the clock the bucket is ahead of its mark. *)
Refilled == \E t \in Thread : pc[t] \in {"consume", "stats_mark"}

(* What was let through since s, and what the bucket could let through     *)
(* now, stay below the bound; since the mark nothing was let through.      *)
CreditInv ==
  /\ \A s \in 0 .. now : s > last_refill => before[s] = consumed
  /\ LET upto == IF Refilled THEN now ELSE last_refill
     IN  \A s \in 0 .. upto :
           consumed - before[s] + tokens <= max_tokens + refill_rate * (upto - s)

(***************************************************************************)
(* The inductive invariant: publish() and print_stats() change the bucket  *)
(* only under its mutex, and it never holds more credit than has accrued.  *)
(***************************************************************************)
IInv == TypeOK /\ LockInv /\ CreditInv

(***************************************************************************)
(* The average rate is kept, bursts included: in any span of time the      *)
(* bucket lets through at most its size and what accrues in that span,     *)
(* whichever threads come, and however the clock moves between the two     *)
(* readings of refill().                                                   *)
(***************************************************************************)
RateBound ==
  \A s \in 0 .. now :
    consumed - before[s] <= max_tokens + refill_rate * (now - s)

(***************************************************************************)
(* Every call is accounted for: a message was counted as sent or dropped,  *)
(* its error was returned, or its call is still on the way.                *)
(***************************************************************************)
CallsAccounted ==
  calls = messages_sent + messages_dropped + failed
            + Cardinality({t \in Thread : pc[t] \in Publishing})

(***************************************************************************)
(* publish() returns, also when the broker's connection has failed and     *)
(* with a channel that is full.                                            *)
(***************************************************************************)
CallsReturn == \A t \in Thread : pc[t] # "idle" ~> pc[t] = "idle"

(***************************************************************************)
(* "Thread-safe primitives (mutexes, atomics) enable safe concurrent rate  *)
(* limiting": no two threads wait for each other's mutex.                  *)
(***************************************************************************)
NoLockCycle ==
  ~ \E t, u \in Thread :
      /\ pc[t] = "drop" /\ dropped = u
      /\ pc[u] = "stats_limiter" /\ limiter = t
=============================================================================
