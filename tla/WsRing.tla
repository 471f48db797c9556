------------------------------- MODULE WsRing -------------------------------
(***************************************************************************)
(* LockFreeRingBuffer of WebSocket/src/20, the single-producer             *)
(* single-consumer ring behind each connection of the message broker.  It  *)
(* keeps no counter: one slot stays free so that equal positions mean      *)
(* empty.  pop takes the message out of its slot, so a slot is written by  *)
(* both sides.                                                             *)
(***************************************************************************)
EXTENDS Naturals

CONSTANTS
  C,          \* the capacity given to new()
  Msg,        \* the messages
  NoMsg       \* None

ASSUME CAssumption == C \in Nat \ {0}
ASSUME NoMsgAssumption == NoMsg \notin Msg

VARIABLES
  buffer, write_pos, read_pos,   \* the fields of LockFreeRingBuffer
  ppc, message, w,               \* push: program point, argument, loaded w
  cpc, taken, r,                 \* pop: program point, message taken, loaded r
  popped                         \* the value the last completed pop returned

producer == <<ppc, message, w>>
consumer == <<cpc, taken, r, popped>>
vars == <<buffer, write_pos, read_pos, producer, consumer>>

Slots == 0 .. (C - 1)
Succ(i) == (i + 1) % C

len == IF write_pos >= read_pos THEN write_pos - read_pos
                                ELSE (C - read_pos) + write_pos

Init ==
  /\ buffer = [i \in Slots |-> NoMsg]
  /\ write_pos = 0 /\ read_pos = 0
  /\ ppc = "idle" /\ message = NoMsg /\ w = 0
  /\ cpc = "idle" /\ taken = NoMsg /\ r = 0
  /\ popped = NoMsg

-----------------------------------------------------------------------------
(* push(message): only the producer stores write_pos, so its load and the  *)
(* load of read_pos are one step.                                          *)

PushFull ==
  /\ ppc = "idle"
  /\ Succ(write_pos) = read_pos
  /\ UNCHANGED vars

(* Fault: the slot kept free is given away. *)
PushCheck_NoFreeSlot(m) ==
  /\ ppc = "idle"
  /\ ppc' = "write" /\ message' = m /\ w' = write_pos
  /\ UNCHANGED <<buffer, write_pos, read_pos, consumer>>

PushCheck(m) ==
  /\ ppc = "idle"
  /\ Succ(write_pos) # read_pos
  /\ ppc' = "write" /\ message' = m /\ w' = write_pos
  /\ UNCHANGED <<buffer, write_pos, read_pos, consumer>>

PushWrite ==
  /\ ppc = "write"
  /\ buffer' = [buffer EXCEPT ![w] = message]
  /\ ppc' = "store"
  /\ UNCHANGED <<write_pos, read_pos, message, w, consumer>>

PushStore ==
  /\ ppc = "store"
  /\ write_pos' = Succ(w)
  /\ ppc' = "idle"
  /\ UNCHANGED <<buffer, read_pos, message, w, consumer>>

-----------------------------------------------------------------------------
(* pop() *)

PopEmpty ==
  /\ cpc = "idle"
  /\ read_pos = write_pos
  /\ UNCHANGED vars

PopCheck ==
  /\ cpc = "idle"
  /\ read_pos # write_pos
  /\ cpc' = "take" /\ r' = read_pos
  /\ UNCHANGED <<buffer, write_pos, read_pos, producer, taken, popped>>

PopTake ==
  /\ cpc = "take"
  /\ taken' = buffer[r]
  /\ buffer' = [buffer EXCEPT ![r] = NoMsg]
  /\ cpc' = "store"
  /\ UNCHANGED <<write_pos, read_pos, producer, r, popped>>

PopStore ==
  /\ cpc = "store"
  /\ read_pos' = Succ(r)
  /\ popped' = taken
  /\ cpc' = "idle"
  /\ UNCHANGED <<buffer, write_pos, producer, taken, r>>

-----------------------------------------------------------------------------
Push == PushFull \/ (\E m \in Msg : PushCheck(m)) \/ PushWrite \/ PushStore
Pop == PopEmpty \/ PopCheck \/ PopTake \/ PopStore
Next == Push \/ Pop

Spec == Init /\ [][Next]_vars

-----------------------------------------------------------------------------
TypeOK ==
  /\ buffer \in [Slots -> Msg \cup {NoMsg}]
  /\ write_pos \in Slots /\ read_pos \in Slots
  /\ ppc \in {"idle", "write", "store"}
  /\ message \in Msg \cup {NoMsg} /\ w \in Slots
  /\ cpc \in {"idle", "take", "store"}
  /\ taken \in Msg \cup {NoMsg} /\ r \in Slots
  /\ popped \in Msg \cup {NoMsg}

(***************************************************************************)
(* "We have exclusive access to this slot", say push and pop of the slot   *)
(* each reaches through a raw pointer: they never hold the same one.       *)
(***************************************************************************)
ExclusiveSlot == ~ (ppc = "write" /\ cpc = "take" /\ w = r)

(* The slot k places after slot i, for k \in 0 .. C. *)
Slot(i, k) == IF i + k >= C THEN (i + k) - C ELSE i + k

ProducerInv ==
  /\ ppc # "idle" => w = write_pos /\ len + 1 < C /\ message \in Msg
  /\ ppc = "store" => buffer[w] = message

ConsumerInv ==
  /\ cpc # "idle" => r = read_pos /\ len > 0
  /\ cpc = "store" => taken \in Msg

(* A slot holds a message when, and only when, it is one of the len slots  *)
(* from read_pos on, the taken one excepted and the one being pushed added.*)
ContentInv ==
  \A k \in 0 .. (C - 1) :
    (buffer[Slot(read_pos, k)] \in Msg) <=>
      \/ k < len /\ ~ (k = 0 /\ cpc = "store")
      \/ k = len /\ ppc = "store"

(***************************************************************************)
(* The inductive invariant of the ring.  Its last part says that a message *)
(* lives in the buffer exactly from push to pop: none is lost, and none is *)
(* kept (and its memory with it) after it was popped.                      *)
(***************************************************************************)
IInv == TypeOK /\ ProducerInv /\ ConsumerInv /\ ContentInv

(* The queue the ring stands for; the message being popped is still in it. *)
Contents ==
  [i \in 1 .. len |-> IF i = 1 /\ cpc = "store" THEN taken
                      ELSE buffer[Slot(read_pos, i - 1)]]

Fifo == INSTANCE BoundedFifo
          WITH Capacity <- C - 1, q <- Contents, last <- popped

(***************************************************************************)
(* The ring is a FIFO queue of C - 1 messages.                             *)
(***************************************************************************)
RefinesFifo == Fifo!Spec
=============================================================================
