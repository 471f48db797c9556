----------------------------- MODULE I2cDriver -----------------------------
(***************************************************************************)
(* I2cBus of I2C/src/28/28.rs, the driver with error handling.  A step is  *)
(* one wait for a status flag together with the register writes around it; *)
(* the hardware decides how the wait ends.  A loop over the bytes goes     *)
(* round any number of times.                                              *)
(***************************************************************************)
EXTENDS Naturals

VARIABLES
  i2c,    \* the driver: its state, the method that runs and how far it is
  open,   \* a START of ours is on the bus and no STOP has followed it
  other   \* another master has the bus
vars == <<i2c, open, other>>

Init ==
  /\ i2c = [state |-> "Idle", method |-> "none", at |-> "none", last |-> "none",
            result |-> "Ok"]
  /\ open = FALSE /\ other \in BOOLEAN

(* The method that runs returns r and leaves the driver in state s. *)
Return(s, r) == i2c' = [i2c EXCEPT !.state = s, !.method = "none", !.at = "none",
                                   !.last = i2c.method, !.result = r]

(* The bus is somebody else's only while it is not ours. *)
OtherMaster == ~open /\ other' = ~other /\ UNCHANGED <<i2c, open>>

-----------------------------------------------------------------------------
(* wait_flag(), with check_ack_error(), check_arbitration_error() and      *)
(* check_bus_error(): every error makes the state Error.  A NACK is        *)
(* answered with STOP, a lost arbitration takes the bus away; after a bus  *)
(* error or a timeout the transaction is still open.                       *)
WaitError == {"Nack", "ArbitrationLost", "BusError", "Timeout"}
OpenAfter(e) == open /\ e \in {"BusError", "Timeout"}

(* The state after stop(), also where an error had set it to Error. *)
stop == "Idle"

(* Fault: the STOP bit is not written. *)
Stopped_NoBit(e) == OpenAfter(e)

(* The bus after stop(). *)
Stopped(e) == FALSE

(* The errors of a wait after which the method calls stop(): write_read()  *)
(* leaves all of them to its caller, send_address() handles two of them.   *)
StopsOn(method, at) ==
  CASE at \in {"address", "read_address"}         -> {"Timeout", "Nack"}
    [] at \in {"tx", "rx", "last"} /\ method # "write_read" -> WaitError
    [] OTHER                                        -> {}

WaitFails ==
  /\ i2c.at \notin {"none", "start", "restart"}
  /\ \E e \in WaitError :
       LET stops == e \in StopsOn(i2c.method, i2c.at) IN
       /\ Return(IF stops THEN stop ELSE "Error", e)
       /\ open' = IF stops THEN Stopped(e) ELSE OpenAfter(e)
  /\ UNCHANGED other

(* What follows a wait that succeeds.  STOP is requested before the last   *)
(* byte is waited for.                                                     *)
Then(at) == CASE at = "started"      -> {"address"}
              [] at = "address"      -> IF i2c.method = "read" THEN {"rx", "last"} ELSE {"tx"}
              [] at = "tx"           -> {"tx", "finish"}
              [] at = "finish"       -> {"restart"}
              [] at = "restarted"    -> {"read_address"}
              [] at \in {"read_address", "rx"} -> {"rx", "last"}
              [] OTHER               -> {}

WaitOk ==
  /\ ~(i2c.at = "finish" /\ i2c.method = "write")
  /\ \E next \in Then(i2c.at) :
       i2c' = [i2c EXCEPT !.at = next] /\ open' = (open /\ next # "last")
  /\ UNCHANGED other

(* After a byte is written the acknowledge flag is looked at once more. *)
ByteNack ==
  /\ i2c.at = "tx"
  /\ Return("Error", "Nack")
  /\ open' = FALSE
  /\ UNCHANGED other

-----------------------------------------------------------------------------
(* write(), read() and write_read(); the last sets no state when it begins. *)

Call ==
  /\ i2c.method = "none"
  /\ \E m \in {"write", "read", "write_read"} :
       i2c' = [i2c EXCEPT !.method = m, !.at = "start",
                 !.state = CASE m = "write" -> "Transmit" [] m = "read" -> "Receive"
                             [] OTHER -> @]
  /\ UNCHANGED <<open, other>>

InvalidParam == /\ i2c.method = "none"
                /\ i2c' = [i2c EXCEPT !.result = "InvalidParam"]
                /\ UNCHANGED <<open, other>>

(* start(): is_busy() does not tell our own transaction from another's, so *)
(* the repeated START of write_read() is refused while ours is open.       *)
StartBusy ==
  /\ i2c.at \in {"start", "restart"} /\ (open \/ other)
  /\ Return(i2c.state, "Busy")
  /\ UNCHANGED <<open, other>>

StartFree ==
  /\ i2c.at \in {"start", "restart"} /\ ~open /\ ~other
  /\ i2c' = [i2c EXCEPT !.at = IF @ = "start" THEN "started" ELSE "restarted"]
  /\ open' = TRUE
  /\ UNCHANGED other

WriteDone ==
  /\ i2c.method = "write" /\ i2c.at = "finish"
  /\ Return(stop, "Ok")
  /\ open' = Stopped("none")
  /\ UNCHANGED other

ReadDone ==
  /\ i2c.at = "last"
  /\ Return("Idle", "Ok")
  /\ UNCHANGED <<open, other>>

(* recover() turns the peripheral off and on.  It sends no STOP, and its   *)
(* pulses on SCL are commented out: the bus stays as it was.               *)
recover ==
  /\ i2c.method = "none"
  /\ i2c' = [i2c EXCEPT !.state = "Idle", !.last = "recover", !.result = "Ok"]
  /\ UNCHANGED <<open, other>>

Next == \/ OtherMaster \/ WaitFails \/ WaitOk \/ ByteNack \/ Call \/ InvalidParam
        \/ StartBusy \/ StartFree \/ WriteDone \/ ReadDone \/ recover
Spec == Init /\ [][Next]_vars

-----------------------------------------------------------------------------
(* A transaction that is left open is reported.  Between calls, if a START  *)
(* of ours is on the bus without its STOP, then the call before failed, by  *)
(* Timeout, BusError or Busy, and the state is not Idle: every way out of   *)
(* write() and read() that ends in Idle has sent STOP.  Two methods are the *)
(* exceptions: write_read(), which sets no state, finds its own transaction *)
(* at its repeated START and returns Busy; and recover(), which answers Ok  *)
(* and says Idle without having closed what it found open.                  *)
LeftOpenIsReported == i2c.method = "none" /\ open =>
  /\ i2c.state = "Idle" => i2c.last \in {"write_read", "recover"}
  /\ i2c.last # "recover" => i2c.result \in {"BusError", "Timeout", "Busy", "InvalidParam"}
=============================================================================
