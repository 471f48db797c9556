---------------------------- MODULE BoundedFifo ----------------------------
(***************************************************************************)
(* What the repository's message rings promise: a first-in first-out queue *)
(* of at most Capacity messages, with one writer and one reader.  `last'   *)
(* is the message most recently handed to the reader.  The lock-free ring  *)
(* buffers of CAN/src/17 and WebSocket/src/20 are shown to implement it.   *)
(***************************************************************************)
EXTENDS Naturals, Sequences

CONSTANTS
  Capacity,   \* the number of messages the queue holds
  Msg,        \* the messages
  NoMsg       \* "nothing read yet"

VARIABLES q, last

vars == <<q, last>>

Init ==
  /\ q = << >>
  /\ last = NoMsg

(* The writer's message becomes visible to the reader. *)
Put(m) ==
  /\ Len(q) < Capacity
  /\ q' = Append(q, m)
  /\ UNCHANGED last

(* The oldest message is handed to the reader. *)
Get ==
  /\ q # << >>
  /\ last' = Head(q)
  /\ q' = Tail(q)

Next == Get \/ \E m \in Msg : Put(m)

Spec == Init /\ [][Next]_vars

(* The reader is not kept waiting for ever while a message is queued. *)
FairSpec == Spec /\ WF_vars(Get)
=============================================================================
