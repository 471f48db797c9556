----------------------------- MODULE I2cBitBang -----------------------------
(***************************************************************************)
(* I2CBus of I2C/src/42/42.rs, a master that moves two open-drain pins     *)
(* itself.  A call is the sequence of what it does to the pins: `todo' is  *)
(* what is left of it, `bits' the bits still to come of a byte.  The slave *)
(* (external) may hold the clock low, may pull the data line in a bit the  *)
(* master reads, and, like any listener, takes a change of the data line   *)
(* while the clock is high for a START or a STOP.  The measurements and    *)
(* their analysis are left out.                                            *)
(***************************************************************************)
EXTENDS Naturals, Sequences

CONSTANTS Bits, MaxCalls   \* bits of a byte, 8 in the code; bound: calls made

VARIABLES
  todo, bits, calls,
  sda, scl,              \* the master pulls the line low
  data, stretch,         \* the slave pulls the line low
  meant, heard,          \* a transaction is open: for the master, for a listener
  late                   \* the master went on although the clock was held low
vars == <<todo, bits, calls, sda, scl, data, stretch, meant, heard, late>>

SDA == ~sda /\ ~data
SCL == ~scl /\ ~stretch

(* init() releases both pins. *)
Init == /\ todo = << >> /\ bits = << >> /\ calls = 0
        /\ sda = FALSE /\ scl = FALSE /\ data = FALSE /\ stretch = FALSE
        /\ meant = FALSE /\ heard = FALSE /\ late = FALSE

-----------------------------------------------------------------------------
(* What the calls do, in order. *)
start == <<"sda_high", "scl_high", "START", "scl_low">>
stop == <<"sda_low", "scl_high", "wait_10_ms", "STOP">>

(* Fault: the clock rises before the data line is set. *)
write_bit_ClockFirst(bit) ==
  <<"scl_high", "wait", IF bit THEN "sda_high" ELSE "sda_low", "scl_low">>

write_bit(bit) == <<IF bit THEN "sda_high" ELSE "sda_low", "scl_high", "wait", "scl_low">>

read_bit == <<"sda_release", "scl_high", "wait", "sample", "scl_low">>

write_byte == [k \in 1 .. Bits + 1 |-> IF k <= Bits THEN "write_bit" ELSE "read_bit"]
read_byte == [k \in 1 .. Bits + 1 |-> IF k <= Bits THEN "read_bit" ELSE "write_bit"]

(* Bytes and stop() between start() and stop(), as main() calls them. *)
Call == /\ todo = << >> /\ bits = << >> /\ calls < MaxCalls
        /\ calls' = calls + 1
        /\ \/ todo' = start /\ UNCHANGED bits
           \/ meant /\ todo' = stop /\ UNCHANGED bits
           \/ meant /\ bits' \in {write_byte, read_byte} /\ UNCHANGED todo
        /\ UNCHANGED <<sda, scl, data, stretch, meant, heard, late>>

(* The next bit of the byte: any value, any acknowledgement. *)
Bit == /\ todo = << >> /\ bits # << >>
       /\ bits' = Tail(bits)
       /\ \/ Head(bits) = "write_bit" /\ \E bit \in BOOLEAN : todo' = write_bit(bit)
          \/ Head(bits) = "read_bit" /\ todo' = read_bit
       /\ UNCHANGED <<calls, sda, scl, data, stretch, meant, heard, late>>

-----------------------------------------------------------------------------
(* What a listener makes of a step. *)
Listen == heard' = IF SCL /\ SCL' /\ SDA # SDA' THEN ~SDA' ELSE heard

Does(op) == todo # << >> /\ Head(todo) = op /\ todo' = Tail(todo) /\ UNCHANGED <<bits, calls>>

SetSda == /\ \/ Does("sda_high") /\ sda' = FALSE
             \/ Does("sda_low") /\ sda' = TRUE
          /\ UNCHANGED <<scl, data, stretch, meant, late>> /\ Listen

(* The slave answers in a bit the master reads, while the clock is low. *)
Release == /\ Does("sda_release") /\ sda' = FALSE
           /\ data' \in IF scl THEN BOOLEAN ELSE {FALSE}
           /\ UNCHANGED <<scl, stretch, meant, late>> /\ Listen

SclHigh == /\ Does("scl_high") /\ scl' = FALSE
           /\ UNCHANGED <<sda, data, stretch, meant, late>> /\ Listen

(* The slave lets the data line go, and may hold the clock. *)
SclLow == /\ Does("scl_low") /\ scl' = TRUE /\ data' = FALSE
          /\ stretch' \in BOOLEAN
          /\ UNCHANGED <<sda, meant, late>> /\ Listen

(* write_bit() and read_bit() wait for ever, stop() for 10 ms. *)
Wait == /\ \/ Does("wait") /\ SCL /\ UNCHANGED late
           \/ Does("wait_10_ms") /\ late' = (late \/ ~SCL)
        /\ UNCHANGED <<sda, scl, data, stretch, meant>> /\ Listen

Sample == /\ Does("sample")
          /\ UNCHANGED <<sda, scl, data, stretch, meant, late>> /\ Listen

(* The edges that matter; start() does not look whether the clock is high. *)
Edge == /\ \/ Does("START") /\ sda' = TRUE /\ meant' = TRUE
           \/ Does("STOP") /\ sda' = FALSE /\ meant' = FALSE
        /\ late' = (late \/ ~SCL)
        /\ UNCHANGED <<scl, data, stretch>> /\ Listen

(* External: the slave lets the clock go. *)
EndStretch == /\ stretch /\ stretch' = FALSE
              /\ UNCHANGED <<todo, bits, calls, sda, scl, data, meant, late>> /\ Listen

Next == \/ Call \/ Bit \/ SetSda \/ Release \/ SclHigh \/ SclLow \/ Wait \/ Sample \/ Edge
        \/ EndStretch
Spec == Init /\ [][Next]_vars

-----------------------------------------------------------------------------
(* A listener hears a START where start() makes one and a STOP where stop() *)
(* does, and nothing in between: the data line is still while the clock is  *)
(* high in every bit, over bytes, repeated starts and stretched clocks,     *)
(* unless start() or stop() went on with the clock held low.                *)
HeardAsMeant == ~late => heard = meant
=============================================================================
