------------------------- MODULE MqttLimiter_proofs -------------------------
(***************************************************************************)
(* The token bucket of MQTT/src/47 keeps its rate for any number of        *)
(* threads, any rate and any bucket size.  The argument is IInv: as long   *)
(* as a thread works on the bucket only while it holds the mutex, the      *)
(* credit in the bucket and what was let through since s never exceed what *)
(* the bucket held and what has accrued since s.                           *)
(***************************************************************************)
EXTENDS MqttLimiter, FiniteSetTheorems, TLAPS

(* The arithmetic of refill(): credit for consecutive spans adds up. *)
LEMMA CreditAdds ==
  ASSUME NEW r \in Nat, NEW a \in Int, NEW b \in Int
  PROVE  /\ r * a \in Int
         /\ r * (a + b) = r * a + r * b
         /\ a <= b => r * a <= r * b
         /\ a * r = r * a
  OBVIOUS

LEMMA InitIInv == Init => IInv
  <1> SUFFICES ASSUME Init PROVE IInv
    OBVIOUS
  <1>1. TypeOK
    BY LimiterAssumption DEF Init, TypeOK
  <1>2. LockInv
    BY DEF Init, LockInv, Holding
  <1>3. ~Refilled
    BY DEF Init, Refilled
  <1>4. CreditInv
    BY <1>3, LimiterAssumption DEF Init, CreditInv
  <1> QED
    BY <1>1, <1>2, <1>4 DEF IInv

(* A step that leaves the bucket, the clock and the history alone, and     *)
(* moves no thread between the two readings of the clock.                  *)
LEMMA BucketUntouched ==
  ASSUME CreditInv, UNCHANGED <<now, bucket, history>>, Refilled' = Refilled
  PROVE  CreditInv'
  BY DEF CreditInv, bucket, history

LEMMA RefillKeepsIInv ==
  ASSUME IInv, NEW t \in Thread, NEW from, NEW to,
         <<from, to>> \in {<<"refill", "consume">>, <<"stats_refill", "stats_mark">>},
         Refill(t, from, to)
  PROVE  IInv'
  <1> USE LimiterAssumption
  <1> DEFINE refilled == tokens + (now - last_refill) * refill_rate
  <1>0. /\ TypeOK /\ LockInv /\ CreditInv
        /\ pc[t] = from /\ from \in {"refill", "stats_refill"}
        /\ to \in {"consume", "stats_mark"}
        /\ pc' = [pc EXCEPT ![t] = to]
        /\ tokens' = IF refilled < max_tokens THEN refilled ELSE max_tokens
        /\ UNCHANGED <<now, last_refill, mutexes, counters, client, calls,
                       failed, history>>
    BY DEF IInv, Refill, Goto
  <1>1. /\ limiter = t
        /\ \A u \in Thread : u # t => pc[u] \notin Holding
    BY <1>0 DEF LockInv, Holding
  <1>2. ~Refilled
    BY <1>0, <1>1 DEF Refilled, Holding
  <1>3. Refilled'
    BY <1>0 DEF Refilled, TypeOK
  <1>4. /\ now \in Nat /\ last_refill \in Nat /\ last_refill <= now
        /\ tokens \in Nat /\ tokens <= max_tokens
        /\ refilled \in Nat /\ tokens <= refilled
    <2>1. now \in Nat /\ last_refill \in Nat /\ last_refill <= now
          /\ tokens \in Nat /\ tokens <= max_tokens
      BY <1>0 DEF TypeOK
    <2>2. /\ refill_rate * 0 <= refill_rate * (now - last_refill)
          /\ (now - last_refill) * refill_rate = refill_rate * (now - last_refill)
          /\ refill_rate * (now - last_refill) \in Int
      BY <2>1, CreditAdds
    <2> QED
      BY <2>1, <2>2
  <1>5. tokens' \in 0 .. max_tokens /\ tokens' <= refilled
    BY <1>0, <1>4
  <1>6. TypeOK'
    BY <1>0, <1>5 DEF TypeOK, mutexes, counters, client, history, Publishing, Reporting
  <1>7. LockInv'
    BY <1>0, <1>1 DEF LockInv, Holding, mutexes, TypeOK
  <1>8. CreditInv'
    <2>1. \A s \in 0 .. now' : s > last_refill' => before'[s] = consumed'
      BY <1>0 DEF CreditInv, history
    <2>2. ASSUME NEW s \in 0 .. now
          PROVE  consumed - before[s] + tokens' <= max_tokens + refill_rate * (now - s)
      <3>0. consumed \in Int /\ before[s] \in Int
        BY <1>0 DEF TypeOK
      <3>1. CASE s <= last_refill
        <4>1. consumed - before[s] + tokens <= max_tokens + refill_rate * (last_refill - s)
          BY <1>0, <1>2, <3>1, <1>4 DEF CreditInv
        <4>2. /\ refill_rate * ((now - last_refill) + (last_refill - s))
                   = refill_rate * (now - last_refill) + refill_rate * (last_refill - s)
              /\ refill_rate * (now - last_refill) \in Int
              /\ refill_rate * (last_refill - s) \in Int
              /\ (now - last_refill) * refill_rate = refill_rate * (now - last_refill)
          BY <1>4, CreditAdds
        <4>3. (now - last_refill) + (last_refill - s) = now - s
          BY <1>4
        <4>4. tokens' <= tokens + refill_rate * (now - last_refill)
          BY <1>5, <4>2
        <4> QED
          BY <3>0, <1>4, <1>5, <4>1, <4>2, <4>3, <4>4
      <3>2. CASE s > last_refill
        <4>1. before[s] = consumed
          BY <1>0, <3>2 DEF CreditInv
        <4>2. refill_rate * 0 <= refill_rate * (now - s) /\ refill_rate * (now - s) \in Int
          BY <1>4, CreditAdds
        <4> QED
          BY <3>0, <1>5, <4>1, <4>2
      <3> QED
        BY <3>1, <3>2, <1>4
    <2> QED
      BY <1>0, <1>3, <2>1, <2>2 DEF CreditInv, history
  <1> QED
    BY <1>6, <1>7, <1>8 DEF IInv

(* The second reading of the clock: the mark catches up with the bucket,   *)
(* from which `taken' tokens are taken at that moment.                     *)
LEMMA MarkKeepsCredit ==
  ASSUME TypeOK, CreditInv, Refilled, ~Refilled', last_refill' = now, now' = now,
         NEW taken \in Nat, tokens' = tokens - taken,
         consumed' = consumed + taken, before' = before
  PROVE  CreditInv'
  <1> USE LimiterAssumption
  <1>1. \A s \in 0 .. now' : s > last_refill' => before'[s] = consumed'
    BY DEF TypeOK
  <1>2. ASSUME NEW s \in 0 .. now
        PROVE  consumed' - before[s] + tokens' <= max_tokens + refill_rate * (now - s)
    <2>1. consumed - before[s] + tokens <= max_tokens + refill_rate * (now - s)
      BY DEF CreditInv
    <2>2. consumed \in Int /\ before[s] \in Int /\ tokens \in Int
      BY DEF TypeOK
    <2>3. consumed' - before[s] + tokens' = consumed - before[s] + tokens
      BY <2>2
    <2> QED
      BY <2>1, <2>3
  <1> QED
    BY <1>1, <1>2 DEF CreditInv

LEMMA TryConsumeKeepsIInv ==
  ASSUME IInv, NEW t \in Thread, TryConsume(t) \/ Exceeded(t) \/ StatsReturn(t)
  PROVE  IInv'
  <1> USE LimiterAssumption
  <1>0. TypeOK /\ LockInv /\ CreditInv
    BY DEF IInv
  <1>1. /\ pc[t] \in {"consume", "stats_mark"} /\ limiter = t
        /\ \A u \in Thread : u # t => pc[u] \notin Holding
    BY <1>0 DEF TryConsume, Exceeded, StatsReturn, Goto, LockInv, Holding
  <1>2. Refilled
    BY <1>1 DEF Refilled
  <1>3. ~Refilled' /\ LockInv'
    BY <1>0, <1>1 DEF TypeOK, Refilled, LockInv, Holding, TryConsume, Exceeded,
       StatsReturn, Goto, mutexes
  <1>4. TypeOK'
    <2>1. CASE TryConsume(t)
      BY <1>0, <2>1 DEF TypeOK, TryConsume, Goto, counters, client, Publishing,
         Reporting
    <2>2. CASE Exceeded(t)
      BY <1>0, <2>2 DEF TypeOK, Exceeded, Goto, mutexes, counters, client, history,
         Publishing, Reporting
    <2>3. CASE StatsReturn(t)
      BY <1>0, <2>3 DEF TypeOK, StatsReturn, Goto, counters, client, history,
         Publishing, Reporting
    <2> QED
      BY <2>1, <2>2, <2>3
  <1>5. CASE TryConsume(t)
    <2>1. CreditInv'
      <3>1. /\ last_refill' = now /\ now' = now /\ tokens' = tokens - 1
            /\ consumed' = consumed + 1 /\ before' = before
        BY <1>5 DEF TryConsume
      <3> QED
        BY <1>0, <1>2, <1>3, <3>1, MarkKeepsCredit
    <2> QED
      BY <2>1, <1>3, <1>4 DEF IInv
  <1>6. CASE Exceeded(t) \/ StatsReturn(t)
    <2>1. CreditInv'
      <3>1. /\ last_refill' = now /\ now' = now /\ tokens' = tokens - 0
            /\ consumed' = consumed + 0 /\ before' = before
        BY <1>0, <1>6 DEF Exceeded, StatsReturn, history, TypeOK
      <3> QED
        BY <1>0, <1>2, <1>3, <3>1, MarkKeepsCredit
    <2> QED
      BY <2>1, <1>3, <1>4 DEF IInv
  <1> QED
    BY <1>5, <1>6

LEMMA TickKeepsIInv ==
  ASSUME IInv, Tick
  PROVE  IInv'
  <1> USE LimiterAssumption
  <1>0. /\ TypeOK /\ LockInv /\ CreditInv
        /\ now < MaxTime /\ now' = now + 1
        /\ before' = [before EXCEPT ![now + 1] = consumed]
        /\ UNCHANGED <<bucket, mutexes, counters, client, pc, calls, failed, consumed>>
    BY DEF IInv, Tick
  <1>1. TypeOK'
    BY <1>0 DEF TypeOK, bucket, mutexes, counters, client
  <1>2. LockInv'
    BY <1>0 DEF LockInv, mutexes
  <1>3. Refilled' = Refilled
    BY <1>0 DEF Refilled
  <1>4. /\ now \in Nat /\ now + 1 \in 0 .. MaxTime /\ last_refill' = last_refill
        /\ tokens' = tokens /\ consumed' = consumed /\ last_refill <= now
        /\ tokens \in 0 .. max_tokens /\ consumed \in Int /\ last_refill \in Nat
        /\ before'[now + 1] = consumed
        /\ \A s \in 0 .. now : before'[s] = before[s] /\ before[s] \in Int
    BY <1>0 DEF TypeOK, bucket
  <1>5. \A s \in 0 .. now' : s > last_refill' => before'[s] = consumed'
    BY <1>0, <1>4 DEF CreditInv
  <1>6. CreditInv'
    <2>1. CASE Refilled
      <3>1. ASSUME NEW s \in 0 .. now'
            PROVE  consumed - before'[s] + tokens <= max_tokens + refill_rate * (now' - s)
        <4>1. CASE s = now + 1
          <5>1. refill_rate * (now' - s) = 0
            BY <1>0, <1>4, <4>1
          <5> QED
            BY <1>4, <4>1, <5>1
        <4>2. CASE s \in 0 .. now
          <5>1. consumed - before[s] + tokens <= max_tokens + refill_rate * (now - s)
            BY <1>0, <2>1, <4>2 DEF CreditInv
          <5>2. /\ refill_rate * (now - s) <= refill_rate * (now' - s)
                /\ refill_rate * (now - s) \in Int /\ refill_rate * (now' - s) \in Int
            BY <1>0, <1>4, <4>2, CreditAdds
          <5> QED
            BY <1>4, <4>2, <5>1, <5>2
        <4> QED
          BY <4>1, <4>2, <1>0, <1>4
      <3> QED
        BY <1>3, <1>4, <1>5, <2>1, <3>1 DEF CreditInv
    <2>2. CASE ~Refilled
      <3>1. \A s \in 0 .. last_refill :
              consumed - before[s] + tokens <= max_tokens + refill_rate * (last_refill - s)
        BY <1>0, <2>2 DEF CreditInv
      <3>2. \A s \in 0 .. last_refill : s \in 0 .. now
        BY <1>4
      <3> QED
        BY <1>3, <1>4, <1>5, <2>2, <3>1, <3>2 DEF CreditInv
    <2> QED
      BY <2>1, <2>2
  <1> QED
    BY <1>1, <1>2, <1>6 DEF IInv

(* Taking and releasing the mutex, and all that happens without it. *)
LEMMA OtherStepsKeepIInv ==
  ASSUME IInv,
         \/ EventLoopTake \/ EventLoopError
         \/ \E t \in Thread :
              \/ PublishLock(t) \/ Drop(t) \/ ClientPublish(t) \/ ClientError(t)
              \/ Count(t) \/ StatsSent(t) \/ StatsDropped(t) \/ StatsLimiter(t)
  PROVE  IInv'
  <1> USE LimiterAssumption
  <1>0. TypeOK /\ LockInv /\ CreditInv
    BY DEF IInv
  <1>1. CASE EventLoopTake \/ EventLoopError
    <2>1. TypeOK'
      <3>1. CASE EventLoopTake
        BY <1>0, <3>1 DEF TypeOK, EventLoopTake, bucket, mutexes, counters, history
      <3>2. CASE EventLoopError
        BY <1>0, <3>2 DEF TypeOK, EventLoopError, bucket, mutexes, counters, history
      <3> QED
        BY <1>1, <3>1, <3>2
    <2>2. LockInv'
      BY <1>0, <1>1 DEF LockInv, EventLoopTake, EventLoopError, mutexes
    <2>3. CreditInv'
      BY <1>0, <1>1, BucketUntouched DEF EventLoopTake, EventLoopError, Refilled
    <2> QED
      BY <2>1, <2>2, <2>3 DEF IInv
  <1>2. ASSUME NEW t \in Thread,
               \/ PublishLock(t) \/ Drop(t) \/ ClientPublish(t) \/ ClientError(t)
               \/ Count(t) \/ StatsSent(t) \/ StatsDropped(t) \/ StatsLimiter(t)
        PROVE  IInv'
    <2>1. /\ UNCHANGED <<now, bucket, history>>
          /\ \E from, to \in {"idle", "refill", "drop", "send", "count",
                              "stats_dropped", "stats_limiter", "stats_refill"} :
               Goto(t, from, to)
      BY <1>2 DEF PublishLock, Drop, ClientPublish, ClientError, Count, StatsSent,
         StatsDropped, StatsLimiter
    <2>2. Refilled' = Refilled
      BY <1>0, <2>1 DEF TypeOK, Refilled, Goto
    <2>3. CreditInv'
      BY <1>0, <2>1, <2>2, BucketUntouched
    <2>4. LockInv'
      BY <1>0, <1>2 DEF TypeOK, LockInv, Holding, Goto, PublishLock, Drop,
         ClientPublish, ClientError, Count, StatsSent, StatsDropped, StatsLimiter,
         mutexes
    <2>5. TypeOK'
      <3>1. CASE PublishLock(t)
        BY <1>0, <3>1 DEF TypeOK, Goto, PublishLock, bucket, counters, client, history,
           Publishing, Reporting
      <3>2. CASE Drop(t)
        BY <1>0, <3>2 DEF TypeOK, Goto, Drop, bucket, client, history,
           Publishing, Reporting
      <3>3. CASE ClientPublish(t)
        BY <1>0, <3>3 DEF TypeOK, Goto, ClientPublish, bucket, mutexes, counters, history,
           Publishing, Reporting
      <3>4. CASE ClientError(t)
        BY <1>0, <3>4 DEF TypeOK, Goto, ClientError, bucket, mutexes, counters, client, history,
           Publishing, Reporting
      <3>5. CASE Count(t)
        BY <1>0, <3>5 DEF TypeOK, Goto, Count, bucket, mutexes, client, history,
           Publishing, Reporting
      <3>6. CASE StatsSent(t)
        BY <1>0, <3>6 DEF TypeOK, Goto, StatsSent, bucket, counters, client, history,
           Publishing, Reporting
      <3>7. CASE StatsDropped(t)
        BY <1>0, <3>7 DEF TypeOK, Goto, StatsDropped, bucket, counters, client, history,
           Publishing, Reporting
      <3>8. CASE StatsLimiter(t)
        BY <1>0, <3>8 DEF TypeOK, Goto, StatsLimiter, bucket, counters, client, history,
           Publishing, Reporting
      <3> QED
        BY <1>2, <3>1, <3>2, <3>3, <3>4, <3>5, <3>6, <3>7, <3>8
    <2> QED
      BY <2>3, <2>4, <2>5 DEF IInv
  <1> QED
    BY <1>1, <1>2

LEMMA NextKeepsIInv ==
  ASSUME IInv,
         Environment \/ \E t \in Thread : publish(t) \/ print_stats(t)
  PROVE  IInv'
  <1>1. CASE Environment
    BY <1>1, TickKeepsIInv, OtherStepsKeepIInv DEF Environment
  <1>2. ASSUME NEW t \in Thread, publish(t) PROVE IInv'
    BY <1>2, RefillKeepsIInv, TryConsumeKeepsIInv, OtherStepsKeepIInv DEF publish
  <1>3. ASSUME NEW t \in Thread, print_stats(t) PROVE IInv'
    BY <1>3, RefillKeepsIInv, TryConsumeKeepsIInv, OtherStepsKeepIInv DEF print_stats
  <1> QED
    BY <1>1, <1>2, <1>3

LEMMA StutterKeepsIInv ==
  ASSUME IInv, UNCHANGED vars
  PROVE  IInv'
  BY DEF IInv, TypeOK, LockInv, CreditInv, Refilled, vars, bucket, mutexes, counters,
     client, history

(***************************************************************************)
(* The bucket's invariant holds in every behaviour of the publisher, also  *)
(* when statistics are printed while other threads publish.                *)
(***************************************************************************)
THEOREM BucketInvariant == (Spec \/ SharedSpec) => []IInv
  <1>1. IInv /\ [Next]_vars => IInv'
    BY NextKeepsIInv, StutterKeepsIInv DEF Next
  <1>2. IInv /\ [Environment \/ \E t \in Thread : publish(t) \/ print_stats(t)]_vars
          => IInv'
    BY NextKeepsIInv, StutterKeepsIInv
  <1>3. Spec => []IInv
    BY InitIInv, <1>1, PTL DEF Spec
  <1>4. SharedSpec => []IInv
    BY InitIInv, <1>2, PTL DEF SharedSpec
  <1> QED
    BY <1>3, <1>4

(***************************************************************************)
(* In every span of time the limiter lets through at most max_tokens plus  *)
(* what accrues in the span, for any number of threads, rate and size.     *)
(***************************************************************************)
THEOREM RateKept == (Spec \/ SharedSpec) => []RateBound
  <1>1. IInv => RateBound
    <2> SUFFICES ASSUME IInv, NEW s \in 0 .. now
                 PROVE  consumed - before[s] <= max_tokens + refill_rate * (now - s)
      BY DEF RateBound
    <2> USE LimiterAssumption
    <2>1. /\ now \in Nat /\ last_refill \in Nat /\ last_refill <= now
          /\ tokens \in Nat /\ consumed \in Int /\ before[s] \in Int
      BY DEF IInv, TypeOK
    <2>2. CASE s > last_refill
      <3>1. before[s] = consumed
        BY <2>2 DEF IInv, CreditInv
      <3>2. refill_rate * 0 <= refill_rate * (now - s) /\ refill_rate * (now - s) \in Int
        BY <2>1, CreditAdds
      <3> QED
        BY <2>1, <3>1, <3>2
    <2>3. CASE Refilled
      <3>1. consumed - before[s] + tokens <= max_tokens + refill_rate * (now - s)
        BY <2>3 DEF IInv, CreditInv
      <3>2. refill_rate * (now - s) \in Int
        BY <2>1, CreditAdds
      <3> QED
        BY <2>1, <3>1, <3>2
    <2>4. CASE s <= last_refill /\ ~Refilled
      <3>1. consumed - before[s] + tokens <= max_tokens + refill_rate * (last_refill - s)
        BY <2>1, <2>4 DEF IInv, CreditInv
      <3>2. /\ refill_rate * (last_refill - s) <= refill_rate * (now - s)
            /\ refill_rate * (last_refill - s) \in Int /\ refill_rate * (now - s) \in Int
        BY <2>1, CreditAdds
      <3> QED
        BY <2>1, <3>1, <3>2
    <2> QED
      BY <2>1, <2>2, <2>3, <2>4
  <1> QED
    BY <1>1, BucketInvariant, PTL

-----------------------------------------------------------------------------
(* The threads with a publish() on the way, of which CallsAccounted counts. *)
OnTheWay == {t \in Thread : pc[t] \in Publishing}

LEMMA OnTheWayFinite ==
  IsFiniteSet(OnTheWay) /\ Cardinality(OnTheWay) \in Nat
BY ThreadAssumption, FS_Subset, FS_CardinalityType DEF OnTheWay

(* A thread that moves enters the set, leaves it or stays where it was. *)
LEMMA OneMoves ==
  ASSUME TypeOK, NEW t \in Thread, NEW from, NEW to, Goto(t, from, to)
  PROVE  /\ (from \in Publishing <=> to \in Publishing) => OnTheWay' = OnTheWay
         /\ from \notin Publishing /\ to \in Publishing =>
              Cardinality(OnTheWay') = Cardinality(OnTheWay) + 1
         /\ from \in Publishing /\ to \notin Publishing =>
              Cardinality(OnTheWay') = Cardinality(OnTheWay) - 1
<1>1. pc[t] = from /\ pc'[t] = to /\ \A u \in Thread : u # t => pc'[u] = pc[u]
  BY DEF Goto, TypeOK
<1>2. ASSUME from \in Publishing <=> to \in Publishing PROVE OnTheWay' = OnTheWay
  BY <1>1, <1>2 DEF OnTheWay
<1>3. ASSUME from \notin Publishing, to \in Publishing
      PROVE  Cardinality(OnTheWay') = Cardinality(OnTheWay) + 1
  <2>1. OnTheWay' = OnTheWay \cup {t} /\ t \notin OnTheWay
    BY <1>1, <1>3 DEF OnTheWay
  <2>. QED  BY <2>1, OnTheWayFinite, FS_AddElement
<1>4. ASSUME from \in Publishing, to \notin Publishing
      PROVE  Cardinality(OnTheWay') = Cardinality(OnTheWay) - 1
  <2>1. OnTheWay' = OnTheWay \ {t} /\ t \in OnTheWay
    BY <1>1, <1>4 DEF OnTheWay
  <2>. QED  BY <2>1, OnTheWayFinite, FS_RemoveElement
<1>. QED  BY <1>2, <1>3, <1>4

LEMMA CallsInit == Init => CallsAccounted
<1> SUFFICES ASSUME Init PROVE CallsAccounted
  OBVIOUS
<1>1. OnTheWay = {}
  BY DEF Init, OnTheWay, Publishing
<1>2. Cardinality(OnTheWay) = 0
  BY <1>1, FS_EmptySet
<1>3. calls = messages_sent + messages_dropped + failed + Cardinality(OnTheWay)
  BY <1>2 DEF Init
<1>. QED  BY <1>3 DEF CallsAccounted, OnTheWay

(* Each step of publish() that counts, returns or begins, and the others. *)
LEMMA CallsNext ==
  ASSUME TypeOK, CallsAccounted,
         [Environment \/ \E t \in Thread : publish(t) \/ print_stats(t)]_vars
  PROVE  CallsAccounted'
<1>1. /\ calls \in Nat /\ messages_sent \in Nat /\ messages_dropped \in Nat /\ failed \in Nat
      /\ Cardinality(OnTheWay) \in Nat
      /\ calls = messages_sent + messages_dropped + failed + Cardinality(OnTheWay)
  BY OnTheWayFinite, LimiterAssumption DEF TypeOK, CallsAccounted, OnTheWay
<1>2. ASSUME calls' = messages_sent' + messages_dropped' + failed' + Cardinality(OnTheWay')
      PROVE  CallsAccounted'
  BY <1>2 DEF CallsAccounted, OnTheWay
<1>3. ASSUME UNCHANGED <<calls, counters, failed>>, OnTheWay' = OnTheWay
      PROVE  CallsAccounted'
  BY <1>1, <1>2, <1>3 DEF counters
<1>4. CASE Environment \/ UNCHANGED vars
  <2>1. UNCHANGED <<calls, counters, failed, pc>>
    BY <1>4 DEF Environment, Tick, EventLoopTake, EventLoopError, vars, counters
  <2>. QED  BY <1>3, <2>1 DEF OnTheWay
<1>5. ASSUME NEW t \in Thread, publish(t) PROVE CallsAccounted'
  <2>1. CASE PublishLock(t)
    BY <1>1, <1>2, <2>1, OneMoves DEF PublishLock, counters, Publishing
  <2>2. CASE Drop(t)
    BY <1>1, <1>2, <2>2, OneMoves DEF Drop, counters, Publishing
  <2>3. CASE ClientError(t)
    BY <1>1, <1>2, <2>3, OneMoves DEF ClientError, counters, Publishing
  <2>4. CASE Count(t)
    BY <1>1, <1>2, <2>4, OneMoves DEF Count, counters, Publishing
  <2>5. CASE \/ Refill(t, "refill", "consume") \/ TryConsume(t) \/ Exceeded(t)
             \/ ClientPublish(t)
    BY <1>3, <2>5, OneMoves
       DEF Refill, TryConsume, Exceeded, ClientPublish, Publishing
  <2>. QED  BY <1>5, <2>1, <2>2, <2>3, <2>4, <2>5 DEF publish
<1>6. ASSUME NEW t \in Thread, print_stats(t) PROVE CallsAccounted'
  BY <1>3, <1>6, OneMoves
     DEF print_stats, StatsSent, StatsDropped, StatsLimiter, Refill, StatsReturn, Publishing
<1>. QED  BY <1>4, <1>5, <1>6

(***************************************************************************)
(* Every publish() is counted as sent or dropped, returned its error or is *)
(* on the way, whatever the threads do at once and whenever the client's   *)
(* thread fails.                                                           *)
(***************************************************************************)
THEOREM EveryCallAccounted == (Spec \/ SharedSpec) => []CallsAccounted
<1>1. TypeOK /\ CallsAccounted
        /\ [Environment \/ \E t \in Thread : publish(t) \/ print_stats(t)]_vars
        => CallsAccounted'
  BY CallsNext
<1>2. [Next]_vars => [Environment \/ \E t \in Thread : publish(t) \/ print_stats(t)]_vars
  BY DEF Next
<1>3. IInv => TypeOK
  BY DEF IInv
<1>. QED  BY BucketInvariant, CallsInit, <1>1, <1>2, <1>3, PTL DEF Spec, SharedSpec
=============================================================================
