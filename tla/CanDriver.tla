----------------------------- MODULE CanDriver -----------------------------
(***************************************************************************)
(* The CAN driver built on the two rings of CanBufferManager               *)
(* (CAN/src/17/CAN_Ring_Buffer.rs): the application thread, which sends,   *)
(* processes received messages, checks the overflow statistics and may     *)
(* clear the buffers, and the transmit and receive interrupt handlers.     *)
(*                                                                         *)
(* A handler runs to completion on the application's core, so it is one    *)
(* step; the application can be interrupted between any two of its shared  *)
(* accesses.  What a slot holds is the subject of CanRing; here a ring is  *)
(* its two indices and its counter.                                        *)
(***************************************************************************)
EXTENDS Naturals

CONSTANTS
  Cap,        \* Cap[r] is the capacity of ring r: TX_SIZE and RX_SIZE
  MaxDrops    \* bound on the messages refused by each ring

Ring == {"tx", "rx"}

ASSUME CapAssumption == Cap \in [Ring -> Nat \ {0}]
ASSUME MaxDropsAssumption == MaxDrops \in Nat

VARIABLES
  head, tail, count,    \* the fields of tx_buffer and rx_buffer
  overflows,            \* tx_overflows and rx_overflows
  txie,                 \* the TX interrupt is enabled
  pc,                   \* where the application is
  stats,                \* the overflow counts of the last get_stats()
  last,                 \* last_tx_overflows and last_rx_overflows
  dropped, reported     \* history: messages refused, and refusals logged

rings == <<head, tail, count>>
diag == <<stats, last, reported>>
vars == <<rings, overflows, txie, pc, diag, dropped>>

Succ(r, i) == (i + 1) % Cap[r]
Zero == [r \in Ring |-> 0]

Init ==
  /\ head = Zero /\ tail = Zero /\ count = Zero
  /\ overflows = Zero /\ stats = Zero /\ last = Zero
  /\ dropped = Zero /\ reported = Zero
  /\ txie = FALSE
  /\ pc = "idle"

(* push on a full ring, and the caller's fetch_add on its overflow count. *)
Refuse(r) ==
  /\ count[r] >= Cap[r]
  /\ dropped[r] < MaxDrops
  /\ overflows' = [overflows EXCEPT ![r] = @ + 1]
  /\ dropped' = [dropped EXCEPT ![r] = @ + 1]
  /\ UNCHANGED rings

-----------------------------------------------------------------------------
(* send_can_message: queue_tx, then enable_can_tx_interrupt *)

SendFull ==
  /\ pc = "idle"
  /\ Refuse("tx")
  /\ UNCHANGED <<txie, pc, diag>>

(* Fault: the test for a full ring is off by one. *)
SendCheck_OffByOne ==
  /\ pc = "idle"
  /\ count["tx"] <= Cap["tx"]
  /\ pc' = "send_head"
  /\ UNCHANGED <<rings, overflows, txie, diag, dropped>>

SendCheck ==
  /\ pc = "idle"
  /\ count["tx"] < Cap["tx"]
  /\ pc' = "send_head"
  /\ UNCHANGED <<rings, overflows, txie, diag, dropped>>

SendHead ==
  /\ pc = "send_head"
  /\ head' = [head EXCEPT !["tx"] = Succ("tx", @)]
  /\ pc' = "send_count"
  /\ UNCHANGED <<tail, count, overflows, txie, diag, dropped>>

SendCount ==
  /\ pc = "send_count"
  /\ count' = [count EXCEPT !["tx"] = @ + 1]
  /\ pc' = "send_enable"
  /\ UNCHANGED <<head, tail, overflows, txie, diag, dropped>>

(* Fault: the interrupt is left as the handler may have disabled it. *)
SendEnable_Forgotten ==
  /\ pc = "send_enable"
  /\ pc' = "idle"
  /\ UNCHANGED <<rings, overflows, txie, diag, dropped>>

SendEnable ==
  /\ pc = "send_enable"
  /\ txie' = TRUE
  /\ pc' = "idle"
  /\ UNCHANGED <<rings, overflows, diag, dropped>>

(* process_rx_messages: one get_rx of its loop; an empty ring ends it. *)

ReceiveCheck ==
  /\ pc = "idle"
  /\ count["rx"] > 0
  /\ pc' = "receive_tail"
  /\ UNCHANGED <<rings, overflows, txie, diag, dropped>>

ReceiveTail ==
  /\ pc = "receive_tail"
  /\ tail' = [tail EXCEPT !["rx"] = Succ("rx", @)]
  /\ pc' = "receive_count"
  /\ UNCHANGED <<head, count, overflows, txie, diag, dropped>>

ReceiveCount ==
  /\ pc = "receive_count"
  /\ count' = [count EXCEPT !["rx"] = @ - 1]
  /\ pc' = "idle"
  /\ UNCHANGED <<head, tail, overflows, txie, diag, dropped>>

-----------------------------------------------------------------------------
(* CanDiagnostics::periodic_check: get_stats, then report what is new *)

CheckStats ==
  /\ pc = "idle"
  /\ stats' = overflows
  /\ pc' = "report"
  /\ UNCHANGED <<rings, overflows, txie, last, reported, dropped>>

(* Fault: the counters are read again instead of the snapshot. *)
CheckReport_Reread ==
  /\ pc = "report"
  /\ reported' = [r \in Ring |-> reported[r] + (stats[r] - last[r])]
  /\ last' = overflows
  /\ pc' = "idle"
  /\ UNCHANGED <<rings, overflows, txie, stats, dropped>>

(* The two subtractions are on usize: below zero the build panics. *)
CheckReport ==
  /\ pc = "report"
  /\ \A r \in Ring : stats[r] >= last[r]
  /\ reported' = [r \in Ring |-> reported[r] + (stats[r] - last[r])]
  /\ last' = stats
  /\ pc' = "idle"
  /\ UNCHANGED <<rings, overflows, txie, stats, dropped>>

-----------------------------------------------------------------------------
(* The interrupt handlers *)

(* can_tx_irq_handler: get_tx, and load_can_hardware or disable. *)
TxIrqLoad ==
  /\ txie
  /\ count["tx"] > 0
  /\ tail' = [tail EXCEPT !["tx"] = Succ("tx", @)]
  /\ count' = [count EXCEPT !["tx"] = @ - 1]
  /\ UNCHANGED <<head, overflows, txie, pc, diag, dropped>>

TxIrqDisable ==
  /\ txie
  /\ count["tx"] = 0
  /\ txie' = FALSE
  /\ UNCHANGED <<rings, overflows, pc, diag, dropped>>

(* can_rx_irq_handler: queue_rx of the message the hardware holds. *)
RxIrqQueue ==
  /\ count["rx"] < Cap["rx"]
  /\ head' = [head EXCEPT !["rx"] = Succ("rx", @)]
  /\ count' = [count EXCEPT !["rx"] = @ + 1]
  /\ UNCHANGED <<tail, overflows, txie, pc, diag, dropped>>

RxIrqFull ==
  /\ Refuse("rx")
  /\ UNCHANGED <<txie, pc, diag>>

-----------------------------------------------------------------------------
(* clear_buffers: clear() of each ring stores head, tail and count in turn *)

ClearBegin ==
  /\ pc = "idle"
  /\ pc' = "tx_head"
  /\ UNCHANGED <<rings, overflows, txie, diag, dropped>>

ClearHead(r, at, next) ==
  /\ pc = at
  /\ head' = [head EXCEPT ![r] = 0]
  /\ pc' = next
  /\ UNCHANGED <<tail, count, overflows, txie, diag, dropped>>

ClearTail(r, at, next) ==
  /\ pc = at
  /\ tail' = [tail EXCEPT ![r] = 0]
  /\ pc' = next
  /\ UNCHANGED <<head, count, overflows, txie, diag, dropped>>

ClearCount(r, at, next) ==
  /\ pc = at
  /\ count' = [count EXCEPT ![r] = 0]
  /\ pc' = next
  /\ UNCHANGED <<head, tail, overflows, txie, diag, dropped>>

clear_buffers ==
  \/ ClearBegin
  \/ ClearHead("tx", "tx_head", "tx_tail")
  \/ ClearTail("tx", "tx_tail", "tx_count")
  \/ ClearCount("tx", "tx_count", "rx_head")
  \/ ClearHead("rx", "rx_head", "rx_tail")
  \/ ClearTail("rx", "rx_tail", "rx_count")
  \/ ClearCount("rx", "rx_count", "idle")

(* reset_overflow_counters, no refusal in between. *)
reset_overflow_counters ==
  /\ pc = "idle"
  /\ overflows' = Zero
  /\ UNCHANGED <<rings, txie, pc, diag, dropped>>

-----------------------------------------------------------------------------
Send == SendFull \/ SendCheck \/ SendHead \/ SendCount \/ SendEnable
Receive == ReceiveCheck \/ ReceiveTail \/ ReceiveCount
Diagnose == CheckStats \/ CheckReport
TxIrq == TxIrqLoad \/ TxIrqDisable
RxIrq == RxIrqQueue \/ RxIrqFull

Next == Send \/ Receive \/ Diagnose \/ TxIrq \/ RxIrq

(* The driver in operation: nobody clears anything. *)
Spec == Init /\ [][Next]_vars

(* An operation that was begun is finished; an enabled transmit interrupt  *)
(* is taken when the controller's mailbox is free; the main loop keeps     *)
(* calling process_rx_messages between its other calls.                    *)
Fairness ==
  /\ WF_vars(SendHead \/ SendCount \/ SendEnable \/ ReceiveTail
             \/ ReceiveCount \/ CheckReport)
  /\ WF_vars(TxIrq)
  /\ SF_vars(ReceiveCheck)

LiveSpec == Spec /\ Fairness

(* With the maintenance calls of CanBufferManager. *)
MaintenanceSpec ==
  Init /\ [][Next \/ clear_buffers \/ reset_overflow_counters]_vars

-----------------------------------------------------------------------------
TypeOK ==
  /\ head \in [Ring -> Nat] /\ tail \in [Ring -> Nat]
  /\ count \in [Ring -> Nat]
  /\ overflows \in [Ring -> Nat] /\ stats \in [Ring -> Nat]
  /\ last \in [Ring -> Nat]
  /\ dropped \in [Ring -> 0 .. MaxDrops] /\ reported \in [Ring -> Nat]
  /\ txie \in BOOLEAN
  /\ pc \in {"idle", "send_head", "send_count", "send_enable",
             "receive_tail", "receive_count", "report"}

(***************************************************************************)
(* No lost transmit kick: whenever the application is outside              *)
(* send_can_message and a message is queued, the transmit interrupt is     *)
(* enabled.  The handler may find the ring empty and disable the interrupt *)
(* while a message is half pushed; the enable that follows the push makes  *)
(* up for it.                                                              *)
(***************************************************************************)
NoLostKick ==
  count["tx"] > 0 => txie \/ pc = "send_enable"

(***************************************************************************)
(* Every refused message is logged exactly once: what periodic_check has   *)
(* logged and what it still has to log add up to what was refused, also    *)
(* when the receive interrupt refuses one in the middle of the check.      *)
(***************************************************************************)
EachDropReportedOnce ==
  \A r \in Ring : reported[r] + overflows[r] = dropped[r] + last[r]

(***************************************************************************)
(* A ring the application is not working on is consistent: head is count   *)
(* slots after tail, and count is within the capacity.                     *)
(***************************************************************************)
RingConsistent ==
  pc = "idle" =>
    \A r \in Ring : /\ count[r] <= Cap[r]
                    /\ head[r] = (tail[r] + count[r]) % Cap[r]

(***************************************************************************)
(* The oldest message of either ring leaves it eventually: by the transmit *)
(* interrupt, or through process_rx_messages (between whose store of tail  *)
(* and fetch_sub the counter still includes the message just taken).  Only *)
(* rings of two slots or more show it by the movement of tail.             *)
(***************************************************************************)
OldestLeaves ==
  \A r \in Ring : \A i \in 0 .. (Cap[r] - 1) :
    (tail[r] = i /\ count[r] > 0 /\ pc # "receive_count") ~> (tail[r] # i)
=============================================================================
