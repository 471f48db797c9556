---------------------------- MODULE I2cLoopback ----------------------------
(***************************************************************************)
(* I2CLoopbackTester of I2C/src/44/44.rs: one thread writes a pattern to   *)
(* the controller's own slave side and reads it back, waiting for a flag   *)
(* before each access; every wait may time out.                            *)
(***************************************************************************)
EXTENDS Naturals, FiniteSets

CONSTANTS MaxSize, MaxTests   \* bounds: bytes of a pattern, tests of a session

VARIABLES
  initialized, ack,       \* CR1 bits PE and ACK
  open,                   \* a START without its STOP
  size, at, i,            \* bytes of the pattern; what is waited for, bytes done
  errors,                 \* error_positions of the test under way
  stats,                  \* Statistics
  last                    \* outcome of the last test
vars == <<initialized, ack, open, size, at, i, errors, stats, last>>

NoStats == [passed |-> 0, failed |-> 0, timeouts |-> 0, data_errors |-> 0]

Init == /\ initialized = FALSE /\ ack = FALSE /\ open = FALSE
        /\ size = 0 /\ at = "idle" /\ i = 0 /\ errors = {} /\ stats = NoStats /\ last = "none"

-----------------------------------------------------------------------------
initialize == /\ at = "idle"
              /\ initialized' = TRUE /\ ack' = TRUE
              /\ UNCHANGED <<open, at, i, errors, stats, last, size>>

(* Drop calls it too when the controller is on. *)
disable == /\ at = "idle" /\ initialized
           /\ initialized' = FALSE
           /\ UNCHANGED <<ack, open, at, i, errors, stats, last, size>>

reset_statistics == /\ at = "idle"
                    /\ stats' = NoStats /\ last' = "none"
                    /\ UNCHANGED <<initialized, ack, open, at, i, errors, size>>

(* test_pattern() begins with write(). *)
test_pattern ==
  /\ at = "idle" /\ stats.passed + stats.failed < MaxTests
  /\ errors' = {} /\ i' = 0 /\ size' \in 0 .. MaxSize
  /\ \/ initialized /\ at' = "SB" /\ open' = TRUE /\ UNCHANGED <<stats, last>>
     \/ /\ ~initialized /\ last' = "NotInitialized"
        /\ stats' = [stats EXCEPT !.failed = @ + 1]
        /\ UNCHANGED <<at, open>>
  /\ UNCHANGED <<initialized, ack>>

(* A flag in time: the phases of write() and then of read(). *)
Started == /\ at = "SB" /\ at' = "ADDR"
           /\ UNCHANGED <<initialized, ack, open, i, errors, stats, last, size>>

(* An empty pattern has no bytes to wait for. *)
Addressed == /\ at = "ADDR" /\ at' = IF size = 0 THEN "BTF" ELSE "TXE"
             /\ UNCHANGED <<initialized, ack, open, i, errors, stats, last, size>>

ByteSent == /\ at = "TXE"
            /\ i' = (i + 1) % size
            /\ at' = IF i' = 0 THEN "BTF" ELSE "TXE"
            /\ UNCHANGED <<initialized, ack, open, errors, stats, last, size>>

(* STOP, a pause, and the START of read(). *)
Written == /\ at = "BTF" /\ at' = "read_SB"
           /\ UNCHANGED <<initialized, ack, open, i, errors, stats, last, size>>

ReadStarted == /\ at = "read_SB" /\ at' = "read_ADDR"
               /\ UNCHANGED <<initialized, ack, open, i, errors, stats, last, size>>

(* Before it waits for the last byte it turns ACK off and sends STOP. *)
BeforeByte(k) == IF k = size - 1 THEN ack' = FALSE /\ open' = FALSE ELSE UNCHANGED <<ack, open>>

ReadAddressed == /\ at = "read_ADDR" /\ size > 0 /\ at' = "RXNE"
                 /\ BeforeByte(0)
                 /\ UNCHANGED <<initialized, i, errors, stats, last, size>>

(* The loop over an empty buffer sends no STOP, and nothing differs. *)
ReadNothing == /\ at = "read_ADDR" /\ size = 0
               /\ at' = "idle" /\ ack' = TRUE /\ last' = "Ok"
               /\ stats' = [stats EXCEPT !.passed = @ + 1]
               /\ UNCHANGED <<initialized, open, i, errors, size>>

(* The byte is as it was sent or is not. *)
Compared(k) == errors' \in {errors, errors \cup {k}}

ByteRead == /\ at = "RXNE" /\ i < size - 1
            /\ i' = i + 1 /\ Compared(i) /\ BeforeByte(i + 1)
            /\ UNCHANGED <<initialized, at, stats, last, size>>

(* Fault: ACK is not turned on again. *)
Verified_NoAck ==
  /\ at = "RXNE" /\ i = size - 1
  /\ Compared(i) /\ i' = 0 /\ at' = "idle" /\ ack' = ack
  /\ last' = IF errors' = {} THEN "Ok" ELSE "DataMismatch"
  /\ UNCHANGED <<initialized, open, stats, size>>

(* The last byte: ACK again, the comparison, the statistics. *)
Verified ==
  /\ at = "RXNE" /\ i = size - 1
  /\ Compared(i) /\ i' = 0 /\ at' = "idle" /\ ack' = TRUE
  /\ \/ /\ errors' = {} /\ last' = "Ok"
        /\ stats' = [stats EXCEPT !.passed = @ + 1]
     \/ /\ errors' # {} /\ last' = "DataMismatch"
        /\ stats' = [stats EXCEPT !.failed = @ + 1, !.data_errors = @ + Cardinality(errors')]
  /\ UNCHANGED <<initialized, open, size>>

(* wait_for_flag() gives up: the call returns at once and leaves the bus and *)
(* the ACK bit as they are.                                                 *)
TimedOut == /\ at # "idle"
            /\ at' = "idle" /\ i' = 0 /\ errors' = {} /\ last' = "Timeout"
            /\ stats' = [stats EXCEPT !.failed = @ + 1, !.timeouts = @ + 1]
            /\ UNCHANGED <<initialized, ack, open, size>>

Next == \/ initialize \/ disable \/ reset_statistics \/ test_pattern
        \/ Started \/ Addressed \/ ByteSent \/ Written
        \/ ReadStarted \/ ReadAddressed \/ ReadNothing \/ ByteRead \/ Verified \/ TimedOut
Spec == Init /\ [][Next]_vars

-----------------------------------------------------------------------------
(* After a test of at least one byte that ran to its end, well or with      *)
(* wrong bytes, the controller answers with ACK and the bus is free: only a *)
(* timeout, or a test of nothing, may leave a START without STOP, only a    *)
(* timeout ACK off, and no later test hides it.                             *)
BetweenTests ==
  at = "idle" /\ last \in {"Ok", "DataMismatch"} =>
    /\ ack /\ (size > 0 => ~open)
    /\ (last = "Ok") <=> (errors = {})
=============================================================================
