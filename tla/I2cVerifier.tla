---------------------------- MODULE I2cVerifier ----------------------------
(***************************************************************************)
(* ProtocolVerifier of I2C/src/45/45.rs: it is told what was measured on a *)
(* bus, checks it against the minima of a speed mode, and reports.  Times  *)
(* are in nanoseconds; a measured time is short, just enough or nominal.   *)
(***************************************************************************)
EXTENDS Naturals, Sequences

CONSTANTS Mode, Addr, MaxErrors   \* modes, addresses looked at; bound: errors kept

VARIABLES
  mode, current_state, transaction_count, clock_stretching_count, arbitration_loss_count,
  error_count, errors,
  nominal         \* kind of a measurement at the mode's own clock that was refused
vars == <<mode, current_state, transaction_count, clock_stretching_count,
          arbitration_loss_count, error_count, errors, nominal>>
counts == <<transaction_count, clock_stretching_count, arbitration_loss_count>>

(* The minima, as the constants of TimingSpec give them. *)
TimingSpec(m) ==
  CASE m = "STANDARD_MODE" ->
         [scl_low |-> 4700000, scl_high |-> 4000000, start_setup |-> 4700000,
          start_hold |-> 4000000, data_setup |-> 250, stop_setup |-> 4000000,
          bus_free |-> 4700000]
    [] m = "FAST_MODE" ->
         [scl_low |-> 1300, scl_high |-> 600, start_setup |-> 600, start_hold |-> 600,
          data_setup |-> 100, stop_setup |-> 600, bus_free |-> 1300]
    [] m = "FAST_MODE_PLUS" ->
         [scl_low |-> 500, scl_high |-> 260, start_setup |-> 260, start_hold |-> 260,
          data_setup |-> 50, stop_setup |-> 260, bus_free |-> 500]

(* The period of the clock each mode is named for: 100 kHz, 400 kHz, 1 MHz. *)
Period == [STANDARD_MODE |-> 10000, FAST_MODE |-> 2500, FAST_MODE_PLUS |-> 1000]

spec == TimingSpec(mode)
Init == /\ mode \in Mode /\ current_state = "Idle"
        /\ transaction_count = 0 /\ clock_stretching_count = 0 /\ arbitration_loss_count = 0
        /\ error_count = 0 /\ errors = << >> /\ nominal = "none"

-----------------------------------------------------------------------------
record_error(e) == error_count' = error_count + 1 /\ errors' = Append(errors, e)

(* A refused measurement leaves the state of the bus as it was. *)
Refuse(e) == /\ error_count < MaxErrors
             /\ record_error(e)
             /\ UNCHANGED <<mode, current_state>>

Agree(s) == /\ current_state' = s
            /\ UNCHANGED <<mode, error_count, errors>>

(* A check of several measured times: the first one too short is reported. *)
Short(names) ==
  \E k \in 1 .. Len(names) :
    /\ Refuse(names[k])
    /\ nominal' = nominal /\ UNCHANGED counts

verify_start_condition ==
  \/ Short(<<"start_setup", "start_hold">>)
  \/ Agree("Start") /\ UNCHANGED <<counts, nominal>>

verify_stop_condition ==
  \/ Short(<<"stop_setup">>)
  \/ /\ transaction_count < MaxErrors
     /\ Agree("Stop") /\ transaction_count' = transaction_count + 1
     /\ UNCHANGED <<clock_stretching_count, arbitration_loss_count, nominal>>

(* A data bit: times that are short or enough, or a clock at the mode's own  *)
(* rate that is low for six tenths of its period.                            *)
NominalBit(low, high) ==
  IF low >= spec.scl_low /\ high >= spec.scl_high
  THEN Agree(current_state) /\ UNCHANGED nominal
  ELSE LET e == IF low < spec.scl_low THEN "scl_low" ELSE "scl_high" IN
       Refuse(e) /\ nominal' = e

verify_data_timing ==
  \/ Short(<<"data_setup", "scl_low", "scl_high">>)
  \/ Agree(current_state) /\ UNCHANGED <<counts, nominal>>
  \/ /\ NominalBit((Period[mode] * 6) \div 10, (Period[mode] * 4) \div 10)
     /\ UNCHANGED counts

verify_bus_free_time ==
  \/ Short(<<"bus_free">>)
  \/ Agree(current_state) /\ UNCHANGED <<counts, nominal>>

(* Seven bits that fit are looked at without their last one: reserved are   *)
(* 0 to 15, not 0 to 7 and 120 to 127.                                      *)
Reserved(a) == a \div 2 <= 7 \/ a \div 2 >= 120

verify_address_frame ==
  \E a \in Addr, is_10bit, read_mode, ack \in BOOLEAN :
    /\ IF ~is_10bit /\ (a > 127 \/ Reserved(a)) THEN Refuse("InvalidAddress")
       ELSE IF ~ack THEN Refuse("NoAcknowledge")
       ELSE Agree(IF read_mode THEN "DataRx" ELSE "DataTx")
    /\ UNCHANGED <<counts, nominal>>

(* Counted whether it is in time or not. *)
verify_clock_stretching ==
  /\ clock_stretching_count < MaxErrors
  /\ clock_stretching_count' = clock_stretching_count + 1
  /\ Refuse("ClockStretchTimeout") \/ Agree(current_state)
  /\ UNCHANGED <<transaction_count, arbitration_loss_count, nominal>>

record_arbitration_loss ==
  /\ error_count < MaxErrors
  /\ arbitration_loss_count' = arbitration_loss_count + 1
  /\ current_state' = "Error"
  /\ record_error("ArbitrationLost")
  /\ UNCHANGED <<mode, transaction_count, clock_stretching_count, nominal>>

reset == /\ current_state' = "Idle" /\ errors' = << >> /\ error_count' = 0
         /\ transaction_count' = 0 /\ clock_stretching_count' = 0
         /\ arbitration_loss_count' = 0
         /\ UNCHANGED <<mode, nominal>>

Next == \/ verify_start_condition \/ verify_stop_condition \/ verify_data_timing
        \/ verify_bus_free_time \/ verify_address_frame \/ verify_clock_stretching
        \/ record_arbitration_loss \/ reset
Spec == Init /\ [][Next]_vars

-----------------------------------------------------------------------------
(* A clock at the rate a mode is named for is not refused: `Standard mode    *)
(* (100 kHz)', `Fast mode (400 kHz)', `Fast mode plus (1 MHz)'.              *)
NominalClockPasses == nominal = "none"
=============================================================================
