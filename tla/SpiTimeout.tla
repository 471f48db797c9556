----------------------------- MODULE SpiTimeout -----------------------------
(***************************************************************************)
(* SpiDriver and NonBlockingSpi of SPI/src/31/spi_timeout_management.rs    *)
(* on a full-duplex peripheral: every byte written brings one byte back,   *)
(* in its own time.  Bytes are numbered as they are written and an answer  *)
(* carries the number of the byte it answers.  Whether a deadline passes   *)
(* before a flag comes up is open at every test of it.                     *)
(***************************************************************************)
EXTENDS Naturals

CONSTANTS max_retries,
  MaxBytes, Len   \* bounds: bytes written, bytes of one transfer

VARIABLES
  tx, rx,   \* the data register: byte being shifted, answer; 0 for none
  sent,     \* bytes written so far
  spi,      \* the driver: interface in use, method, step, bytes left, room
  clean,    \* no transmit() and no timeout yet
  got       \* the last answer returned to the caller and what it answers
vars == <<tx, rx, sent, spi, clean, got>>

Init ==
  /\ tx = 0 /\ rx = 0 /\ sent = 0
  /\ \E api \in {"SpiDriver", "NonBlockingSpi"} :
       spi = [api |-> api, method |-> "none", at |-> "Idle", left |-> 0,
              room |-> 0, len |-> 0, attempts |-> 0]
  /\ clean = TRUE /\ got = <<0, 0>>

(* External: a byte is shifted out and its answer in; an answer nobody took *)
(* is kept or overwritten.                                                  *)
Shift == /\ tx # 0 /\ tx' = 0
         /\ rx' \in IF rx = 0 THEN {tx} ELSE {rx, tx}
         /\ UNCHANGED <<sent, spi, clean, got>>

Write == tx = 0 /\ sent < MaxBytes /\ sent' = sent + 1 /\ tx' = sent'

(* Fault: the data register is read whether or not a byte has come. *)
Read_NoFlag == rx' = 0 /\ got' = <<rx, sent>>

Read == rx # 0 /\ rx' = 0 /\ got' = <<rx, sent>>

-----------------------------------------------------------------------------
(* SpiDriver: transmit(), receive_byte(), transfer(), transfer_with_retry() *)
(* An empty or uneven buffer is refused before anything happens.            *)

Blocking == spi.api = "SpiDriver"

Call == /\ Blocking /\ spi.method = "none"
        /\ \E m \in {"transmit", "receive_byte", "transfer", "with_retry"},
              n \in 1 .. Len :
             /\ m = "receive_byte" => n = 1
             /\ spi' = [spi EXCEPT !.method = m, !.at = "txe", !.left = n, !.len = n,
                                   !.attempts = 0]
        /\ UNCHANGED <<tx, rx, sent, clean, got>>

(* wait_for_flag(txe), then write_data() *)
WriteByte == /\ Blocking /\ spi.at = "txe" /\ Write
             /\ spi' = [spi EXCEPT !.at = IF spi.method = "transmit" THEN "bsy" ELSE "rxne"]
             /\ UNCHANGED <<rx, clean, got>>

NextByte == spi' = IF spi.left > 1
                   THEN [spi EXCEPT !.left = @ - 1, !.at = "txe"]
                   ELSE [spi EXCEPT !.left = 0, !.at = "Idle", !.method = "none"]

(* transmit_byte() waits until the byte is out and leaves its answer. *)
Transmitted == /\ Blocking /\ spi.at = "bsy" /\ tx = 0
               /\ NextByte /\ clean' = FALSE
               /\ UNCHANGED <<tx, rx, sent, got>>

(* wait_for_flag(rxne), then read_data() *)
ReadByte == /\ Blocking /\ spi.at = "rxne" /\ Read
            /\ NextByte
            /\ UNCHANGED <<tx, sent, clean>>

(* A flag that is not up in byte_timeout_ms, or total_timeout_ms over       *)
(* before the next byte: the caller gets Timeout, or the transfer is tried  *)
(* again from its first byte after retry_delay_ms.                          *)
Timeout ==
  /\ Blocking
  /\ \/ spi.at = "txe" /\ (tx # 0 \/ spi.method # "receive_byte")
     \/ spi.at = "bsy" /\ tx # 0
     \/ spi.at = "rxne" /\ rx = 0
  /\ clean' = FALSE
  /\ IF spi.method = "with_retry" /\ spi.attempts < max_retries
     THEN spi' = [spi EXCEPT !.attempts = @ + 1, !.at = "txe", !.left = spi.len]
     ELSE spi' = [spi EXCEPT !.method = "none", !.at = "Idle", !.left = 0]
  /\ UNCHANGED <<tx, rx, sent, got>>

-----------------------------------------------------------------------------
(* NonBlockingSpi *)

(* The two buffers given to poll() may be empty and may differ in length. *)
start_transfer == /\ ~Blocking /\ spi.at = "Idle"
                  /\ \E n \in 0 .. Len, m \in 0 .. Len :
                       spi' = [spi EXCEPT !.at = "WaitingTxEmpty", !.left = n, !.room = m]
                  /\ UNCHANGED <<tx, rx, sent, clean, got>>

(* poll() looks at the clock first, in every state: a transfer that is      *)
(* complete, or was never started, times out too.                           *)
PollTimeout == /\ ~Blocking /\ spi' = [spi EXCEPT !.at = "TimedOut"] /\ clean' = FALSE
               /\ UNCHANGED <<tx, rx, sent, got>>

PollTx == /\ ~Blocking /\ spi.at = "WaitingTxEmpty" /\ spi.left > 0 /\ Write
          /\ spi' = [spi EXCEPT !.at = "WaitingRxData"]
          /\ UNCHANGED <<rx, clean, got>>

(* Without room for it an answer is not taken, until the time is over. *)
PollRx == /\ ~Blocking /\ spi.at = "WaitingRxData" /\ spi.room > 0 /\ Read
          /\ spi' = [spi EXCEPT !.left = @ - 1, !.room = @ - 1,
                       !.at = IF spi.left > 1 THEN "WaitingTxEmpty" ELSE "Complete"]
          /\ UNCHANGED <<tx, sent, clean>>

reset == /\ ~Blocking /\ spi' = [spi EXCEPT !.at = "Idle", !.left = 0]
         /\ clean' = (clean /\ spi.at \in {"Idle", "Complete"})
         /\ UNCHANGED <<tx, rx, sent, got>>

Next == \/ Shift \/ Call \/ WriteByte \/ Transmitted \/ ReadByte \/ Timeout
        \/ start_transfer \/ PollTimeout \/ PollTx \/ PollRx \/ reset
Spec == Init /\ [][Next]_vars

-----------------------------------------------------------------------------
(* What receive_byte(), transfer() and poll() hand to the caller answers    *)
(* the byte they wrote last, as long as nothing was transmitted without     *)
(* being read and no deadline passed: neither transmit() nor the retry      *)
(* after a timeout takes the answers that are still coming, and those are   *)
(* then returned one byte late.                                             *)
AnswersMatch == clean => got[1] = got[2]
=============================================================================
