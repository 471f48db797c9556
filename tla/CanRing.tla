------------------------------ MODULE CanRing ------------------------------
(***************************************************************************)
(* The lock-free ring buffer of the CAN examples, RingBuffer<T, N> of      *)
(* CAN/src/17/CAN_Ring_Buffer.rs (the C and C++ versions take the same     *)
(* steps), shared by one producer and one consumer.  Every load, store and *)
(* read-modify-write of a shared location is a step of its own, so the two *)
(* sides interleave anywhere the code lets them.                           *)
(***************************************************************************)
EXTENDS Naturals

CONSTANTS
  N,          \* the capacity, the const generic parameter of RingBuffer
  Msg,        \* the messages
  NoMsg       \* T::default(), the contents of a slot never written

ASSUME NAssumption == N \in Nat \ {0}
ASSUME NoMsgAssumption == NoMsg \notin Msg

VARIABLES
  buffer, head, tail, count,   \* the fields of RingBuffer
  ppc, item, phead,            \* push: program point, argument, loaded head
  cpc, got, ctail,             \* pop and peek: program point, item, loaded tail
  peeked,                      \* what the last peek showed, until the next pop
  popped                       \* the value the last completed pop returned

producer == <<ppc, item, phead>>
consumer == <<cpc, got, ctail, peeked, popped>>
vars == <<buffer, head, tail, count, producer, consumer>>

Slots == 0 .. (N - 1)

(* The wrap-around increment of both indices. *)
Succ(i) == (i + 1) % N

(* Faults a slip in the two tests would make. *)
is_empty_OffByOne == count <= 1
is_full_OffByOne == count > N

is_empty == count = 0
is_full == count >= N

Init ==
  /\ buffer = [i \in Slots |-> NoMsg]
  /\ head = 0 /\ tail = 0 /\ count = 0
  /\ ppc = "idle" /\ item = NoMsg /\ phead = 0
  /\ cpc = "idle" /\ got = NoMsg /\ ctail = 0
  /\ peeked = NoMsg /\ popped = NoMsg

-----------------------------------------------------------------------------
(* push(item) *)

(* is_full() loads count; a full buffer refuses the item: Err(item). *)
PushFull ==
  /\ ppc = "idle" /\ is_full
  /\ UNCHANGED vars

PushCheck(m) ==
  /\ ppc = "idle" /\ ~is_full
  /\ ppc' = "load" /\ item' = m
  /\ UNCHANGED <<buffer, head, tail, count, phead, consumer>>

PushLoad ==
  /\ ppc = "load"
  /\ ppc' = "write" /\ phead' = head
  /\ UNCHANGED <<buffer, head, tail, count, item, consumer>>

PushWrite ==
  /\ ppc = "write"
  /\ buffer' = [buffer EXCEPT ![phead] = item]
  /\ ppc' = "store"
  /\ UNCHANGED <<head, tail, count, item, phead, consumer>>

PushStore ==
  /\ ppc = "store"
  /\ head' = Succ(phead)
  /\ ppc' = "add"
  /\ UNCHANGED <<buffer, tail, count, item, phead, consumer>>

PushAdd ==
  /\ ppc = "add"
  /\ count' = count + 1
  /\ ppc' = "idle"
  /\ UNCHANGED <<buffer, head, tail, item, phead, consumer>>

-----------------------------------------------------------------------------
(* pop() and peek() *)

(* is_empty() loads count; an empty buffer answers None to either call. *)
PopEmpty ==
  /\ cpc = "idle" /\ is_empty
  /\ UNCHANGED vars

PopCheck ==
  /\ cpc = "idle" /\ ~is_empty
  /\ cpc' = "load"
  /\ UNCHANGED <<buffer, head, tail, count, producer, got, ctail, peeked, popped>>

PopLoad ==
  /\ cpc = "load"
  /\ cpc' = "read" /\ ctail' = tail
  /\ UNCHANGED <<buffer, head, tail, count, producer, got, peeked, popped>>

PopRead ==
  /\ cpc = "read"
  /\ cpc' = "store" /\ got' = buffer[ctail]
  /\ UNCHANGED <<buffer, head, tail, count, producer, ctail, peeked, popped>>

PopStore ==
  /\ cpc = "store"
  /\ tail' = Succ(ctail)
  /\ cpc' = "sub"
  /\ UNCHANGED <<buffer, head, count, producer, got, ctail, peeked, popped>>

PopSub ==
  /\ cpc = "sub"
  /\ count' = count - 1
  /\ cpc' = "idle" /\ popped' = got /\ peeked' = NoMsg
  /\ UNCHANGED <<buffer, head, tail, producer, got, ctail>>

PeekCheck ==
  /\ cpc = "idle" /\ ~is_empty
  /\ cpc' = "peekload"
  /\ UNCHANGED <<buffer, head, tail, count, producer, got, ctail, peeked, popped>>

(* Fault: peek looks at the newest end. *)
PeekLoad_Head ==
  /\ cpc = "peekload"
  /\ cpc' = "peekread" /\ ctail' = head
  /\ UNCHANGED <<buffer, head, tail, count, producer, got, peeked, popped>>

PeekLoad ==
  /\ cpc = "peekload"
  /\ cpc' = "peekread" /\ ctail' = tail
  /\ UNCHANGED <<buffer, head, tail, count, producer, got, peeked, popped>>

PeekRead ==
  /\ cpc = "peekread"
  /\ cpc' = "idle" /\ peeked' = buffer[ctail]
  /\ UNCHANGED <<buffer, head, tail, count, producer, got, ctail, popped>>

-----------------------------------------------------------------------------
Producer ==
  PushFull \/ (\E m \in Msg : PushCheck(m)) \/ PushLoad \/ PushWrite
  \/ PushStore \/ PushAdd

Pop == PopEmpty \/ PopCheck \/ PopLoad \/ PopRead \/ PopStore \/ PopSub

Peek == PeekCheck \/ PeekLoad \/ PeekRead

Next == Producer \/ Pop \/ Peek

Spec == Init /\ [][Next]_vars

(* A call that has been entered finishes (neither loop nor lock stands in  *)
(* its way), and the consumer keeps calling pop (main_loop, the TX         *)
(* interrupt), also when it peeks in between.                              *)
Fairness ==
  /\ WF_vars(PushLoad \/ PushWrite \/ PushStore \/ PushAdd)
  /\ WF_vars(PopLoad \/ PopRead \/ PopStore \/ PopSub \/ PeekLoad \/ PeekRead)
  /\ SF_vars(PopCheck)

LiveSpec == Spec /\ Fairness

-----------------------------------------------------------------------------
TypeOK ==
  /\ buffer \in [Slots -> Msg \cup {NoMsg}]
  /\ head \in Slots /\ tail \in Slots /\ count \in 0 .. N
  /\ ppc \in {"idle", "load", "write", "store", "add"}
  /\ item \in Msg \cup {NoMsg} /\ phead \in Slots
  /\ cpc \in {"idle", "load", "read", "store", "sub", "peekload", "peekread"}
  /\ got \in Msg \cup {NoMsg} /\ ctail \in Slots
  /\ peeked \in Msg \cup {NoMsg} /\ popped \in Msg \cup {NoMsg}

(***************************************************************************)
(* The comments in push and pop claim exclusive access to a slot behind an *)
(* UnsafeCell ("only the producer modifies the head position").  The       *)
(* producer is never about to write the slot the consumer is about to      *)
(* read, in pop or in peek.                                                *)
(***************************************************************************)
NoSlotRace ==
  ~ /\ ppc = "write"
    /\ cpc \in {"read", "peekread"}
    /\ phead = ctail

(***************************************************************************)
(* peek() shows the message the next pop() returns, whatever the producer  *)
(* does between the two calls.                                             *)
(***************************************************************************)
PeekIsNext ==
  cpc \in {"store", "sub"} /\ peeked # NoMsg => got = peeked

(***************************************************************************)
(* The slot-by-slot argument.  The live slots are the `count' slots from   *)
(* the oldest one on; the producer works on the first free slot while a    *)
(* free slot exists, the consumer on the oldest while one exists.  head    *)
(* and tail run one ahead of count between the store and the fetch_add     *)
(* (fetch_sub) that follows it.                                            *)
(***************************************************************************)
Oldest == IF cpc = "sub" THEN ctail ELSE tail
FirstFree == IF ppc = "add" THEN phead ELSE head

(* The slot k places after slot i, for k \in 0 .. N. *)
Slot(i, k) == IF i + k >= N THEN (i + k) - N ELSE i + k

IndexInv ==
  /\ FirstFree = Slot(Oldest, count)
  /\ ppc # "idle" => count < N
  /\ cpc # "idle" => count > 0

ProducerInv ==
  /\ ppc \in {"write", "store"} => phead = head
  /\ ppc = "add" => head = Succ(phead)
  /\ ppc \in {"store", "add"} => buffer[phead] = item
  /\ ppc # "idle" => item \in Msg

ConsumerInv ==
  /\ cpc \in {"read", "store", "peekread"} => ctail = tail
  /\ cpc = "sub" => tail = Succ(ctail)
  /\ cpc \in {"store", "sub"} => got = buffer[ctail]

ContentInv ==
  /\ \A k \in 0 .. (N - 1) : k < count => buffer[Slot(Oldest, k)] \in Msg
  /\ peeked # NoMsg => count > 0 /\ buffer[Oldest] = peeked

(* The inductive invariant. *)
IInv == TypeOK /\ IndexInv /\ ProducerInv /\ ConsumerInv /\ ContentInv

(***************************************************************************)
(* The queue the ring stands for: the live slots, oldest first.  A push    *)
(* takes effect at its fetch_add, a pop at its fetch_sub.                  *)
(***************************************************************************)
Contents == [i \in 1 .. count |-> buffer[Slot(Oldest, i - 1)]]

Fifo == INSTANCE BoundedFifo
          WITH Capacity <- N, q <- Contents, last <- popped

(* The ring behaves as a FIFO queue of N messages: nothing lost, nothing   *)
(* duplicated, nothing reordered or torn by the interleaving.              *)
RefinesFifo == Fifo!Spec

(* A queued message is eventually handed to a consumer that keeps popping: *)
(* is_empty reads a counter that lags behind head, but never for ever.     *)
RefinesFairFifo == Fifo!FairSpec
=============================================================================
