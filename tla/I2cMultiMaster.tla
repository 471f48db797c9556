--------------------------- MODULE I2cMultiMaster ---------------------------
(***************************************************************************)
(* I2cMultiMaster of I2C/src/09/09.rs on two lines that are low while any  *)
(* master drives them low.  Every access to the hardware is a step, so     *)
(* the masters run at their own pace (a data bit that is read decides      *)
(* nothing and is part of the step after it).  Bits are chosen where they  *)
(* are sent; an addressed slave answers with either level.                 *)
(***************************************************************************)
EXTENDS Naturals

CONSTANTS Master, max_retries,
  Bits, Bytes   \* bounds: bits of a byte (8), data bytes of a transfer

VARIABLE master   \* each master: what it drives, its fields, where it is
vars == <<master>>

(* `at' is the next access, `op', `bits' and `bytes' what is left to do. *)
Init == master = [m \in Master |->
  [sda |-> TRUE, scl |-> TRUE, at |-> "idle", op |-> "write", bits |-> Bits,
   bytes |-> Bytes, arb_state |-> "InProgress", is_master |-> TRUE,
   retry_count |-> 0, result |-> "none"]]

(* MockHal::sda_read: a line is high when everybody lets it be. *)
High(line) == \A m \in Master : master[m][line]

(* Record g with the fields of f added or replaced. *)
Over(f, g) ==
  [x \in DOMAIN f \cup DOMAIN g |-> IF x \in DOMAIN f THEN f[x] ELSE g[x]]

(* Master m stands at `from' and changes the given fields of its record. *)
Does(m, from, fields) ==
  master[m].at = from /\ master' = [master EXCEPT ![m] = Over(fields, @)]

(* The accesses that only drive a line: the line, its level, what follows. *)
Drives == [
  start1 |-> <<"sda", TRUE,  "start2">>, start2 |-> <<"scl", TRUE,  "sda?">>,
  start4 |-> <<"sda", FALSE, "start5">>,
  bit1   |-> <<"scl", TRUE,  "wait">>,
  ack1   |-> <<"scl", TRUE,  "ack2">>,   ack2   |-> <<"sda", TRUE,  "ack?">>,
  read0  |-> <<"sda", TRUE,  "read1">>,  read1  |-> <<"scl", TRUE,  "read?">>,
  rack2  |-> <<"scl", TRUE,  "rack3">>,
  stop1  |-> <<"sda", FALSE, "stop2">>,  stop2  |-> <<"scl", TRUE,  "stop3">>]

Drive(m) ==
  /\ master[m].at \in DOMAIN Drives
  /\ LET d == Drives[master[m].at]
     IN  Does(m, master[m].at, Over([l \in {d[1]} |-> d[2]], [at |-> d[3]]))

-----------------------------------------------------------------------------
(* start() *)

(* The transfer is left with an error: the retry loop goes on after a lost *)
(* arbitration or a busy bus, and only then.                               *)
Error(e) == [result |-> e,
             at |-> IF e \in {"ArbitrationLost", "BusBusy"} THEN "retry" ELSE "idle"]

(* SDA is read and then SCL. *)
StartBusy(m) == \/ ~High("sda") /\ Does(m, "sda?", Error("BusBusy"))
                \/ ~High("scl") /\ Does(m, "scl?", Error("BusBusy"))
StartFree(m) == \/ High("sda") /\ Does(m, "sda?", [at |-> "scl?"])
                \/ High("scl") /\ Does(m, "scl?", [at |-> "start4"])
Started(m) == Does(m, "start5", [scl |-> FALSE, arb_state |-> "InProgress",
                                 bits |-> Bits, bytes |-> Bytes, at |-> "bit1"])

-----------------------------------------------------------------------------
(* write_bit_with_arbitration() waits for SCL, sends the bit, reads it back *)

SclTimeout(m) == ~High("scl") /\ Does(m, "wait", Error("Timeout"))

SendBit(m) ==
  High("scl") /\ \E bit \in BOOLEAN : Does(m, "wait", [sda |-> bit, at |-> "sent"])

ArbitrationLost(m) ==
  /\ master[m].sda /\ ~High("sda")
  /\ Does(m, "sent", Over(Error("ArbitrationLost"),
                          [arb_state |-> "Lost", is_master |-> FALSE]))

(* The next bit, or what follows the last one of the byte. *)
NextBit(m, again, then) ==
  IF master[m].bits > 1 THEN [bits |-> master[m].bits - 1, at |-> again]
                        ELSE [bits |-> Bits, at |-> then]

BitKept(m) == (~master[m].sda \/ High("sda")) /\ Does(m, "sent", [at |-> "kept"])
BitDone(m) == Does(m, "kept", Over(NextBit(m, "bit1", "ack1"), [scl |-> FALSE]))

-----------------------------------------------------------------------------
(* write_byte() after its bits, read_byte(), stop() *)

(* An ACK, from the slave or because another master holds SDA low. *)
AckRead(m) == \/ Does(m, "ack?", [at |-> "ack"])
              \/ High("sda") /\ Does(m, "ack?", [at |-> "nack"])

Ack(m) ==
  /\ LET b == master[m].bytes
         go == CASE b = 0                          -> [at |-> "stop1", result |-> "Ok"]
                 [] b > 0 /\ master[m].op = "read" -> [at |-> "read0"]
                 [] OTHER                          -> [at |-> "bit1", bytes |-> b - 1]
     IN  Does(m, "ack", Over(go, [scl |-> FALSE, arb_state |-> "Won"]))

Nack(m) == Does(m, "nack", [scl |-> FALSE, result |-> "Nack", at |-> "stop1"])

ReadBit(m) == Does(m, "read?", Over(NextBit(m, "read1", "rack1"), [scl |-> FALSE]))

(* SDA is pulled low for every byte but the last. *)
ReadAck(m) == Does(m, "rack1", [sda |-> master[m].bytes = 1, at |-> "rack2"])

ByteRead(m) ==
  LET last == master[m].bytes = 1 IN
  Does(m, "rack3", [scl |-> FALSE, bytes |-> master[m].bytes - 1,
                    result |-> IF last THEN "Ok" ELSE master[m].result,
                    at |-> IF last THEN "stop1" ELSE "read0"])

Stopped(m) == Does(m, "stop3", [sda |-> TRUE, is_master |-> TRUE, at |-> "idle"])

-----------------------------------------------------------------------------
(* write_with_retry(), read_with_retry() *)

Call(m) ==
  /\ master[m].result = "none"                  \* bound: one call of each
  /\ \E o \in {"write", "read"} :
       Does(m, "idle", [op |-> o, retry_count |-> 0, result |-> "called",
                        at |-> "start1"])

Again(n) == IF n < max_retries
            THEN [retry_count |-> n, result |-> "called", at |-> "start1"]
            ELSE [retry_count |-> n, result |-> "MaxRetriesExceeded", at |-> "idle"]

(* Fault: a busy bus is not counted. *)
Retry_BusyFree(m) ==
  Does(m, "retry", Again(master[m].retry_count
                         + IF master[m].result = "BusBusy" THEN 0 ELSE 1))

Retry(m) == Does(m, "retry", Again(master[m].retry_count + 1))

Step(m) ==
  \/ Drive(m) \/ StartBusy(m) \/ StartFree(m) \/ Started(m)
  \/ SclTimeout(m) \/ SendBit(m) \/ ArbitrationLost(m) \/ BitKept(m) \/ BitDone(m)
  \/ AckRead(m) \/ Ack(m) \/ Nack(m) \/ ReadBit(m) \/ ReadAck(m) \/ ByteRead(m)
  \/ Stopped(m) \/ Retry(m)

Next == \E m \in Master : Call(m) \/ Step(m)

(* A master is a program that runs by itself. *)
Fairness == \A m \in Master : WF_vars(Step(m))
Spec == Init /\ [][Next]_vars /\ Fairness

-----------------------------------------------------------------------------
(* A master that has returned, or has lost and is about to try again, holds *)
(* neither line low, so it cannot block the other one; only after a Timeout *)
(* does write_bit_with_arbitration leave SDA as the last bit set it.        *)
LetsGo == \A m \in Master : master[m].at \in {"idle", "retry"} =>
            /\ master[m].scl
            /\ ~master[m].sda => master[m].result = "Timeout"

(* Every call returns, whatever the other master does: with the bus busy or *)
(* the arbitration lost for ever it runs out of retries.                    *)
CallsEnd == \A m \in Master : master[m].at = "start1" ~> master[m].at = "idle"
=============================================================================
