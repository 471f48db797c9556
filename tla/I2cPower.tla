------------------------------ MODULE I2cPower ------------------------------
(***************************************************************************)
(* I2C/src/47/47.rs: LowPowerI2C, LowPowerSensor and PeriodicReader.  One  *)
(* thread calls them; a call is a step.  A transfer on the bus goes well   *)
(* or fails.                                                               *)
(***************************************************************************)
EXTENDS Naturals

CONSTANT MaxCalls   \* bound: transactions

VARIABLES
  state, i2c,                         \* PowerState; the peripheral is here
  transaction_count, reading_count,
  cycles                              \* calls of read_cycle whose transfer went well
vars == <<state, i2c, transaction_count, reading_count, cycles>>

Init == /\ state = "Active" /\ i2c = TRUE
        /\ transaction_count = 0 /\ reading_count = 0 /\ cycles = 0

-----------------------------------------------------------------------------
(* LowPowerI2C; LowPowerSensor's wake() and sleep() are enable() and disable(). *)

(* From any state, with or without a peripheral. *)
enable == /\ state' = "Active"
          /\ UNCHANGED <<i2c, transaction_count, reading_count, cycles>>

(* Ok only from Active: InvalidState in any other state. *)
Disabled(s) == IF s = "Active" THEN [ok |-> TRUE, state |-> "LowPower"]
               ELSE [ok |-> FALSE, state |-> s]

disable == /\ state' = Disabled(state).state
           /\ UNCHANGED <<i2c, transaction_count, reading_count, cycles>>

Transfer == /\ i2c /\ transaction_count < MaxCalls
            /\ transaction_count' = transaction_count + 1

(* burst_read() and burst_write(), which configure_low_power_mode() calls:  *)
(* enabled first, and counted when the transfer went well.                  *)
burst == /\ state' = "Active"
         /\ \/ Transfer
            \/ UNCHANGED transaction_count
         /\ UNCHANGED <<i2c, reading_count, cycles>>

(* read_temperature() and read_all_sensors(): a failed transfer returns      *)
(* before disable() and leaves the peripheral on.                            *)
read_sensor_low_power ==
  /\ \/ Transfer /\ state' = Disabled("Active").state
     \/ state' = "Active" /\ UNCHANGED transaction_count
  /\ UNCHANGED <<i2c, reading_count, cycles>>

(* The state changes even when there is nothing to give away. *)
enter_sleep ==
  /\ state' = "Sleep" /\ i2c' = FALSE
  /\ UNCHANGED <<transaction_count, reading_count, cycles>>

wake_from_sleep ==
  /\ ~i2c
  /\ i2c' = TRUE /\ state' = "Active"
  /\ UNCHANGED <<transaction_count, reading_count, cycles>>

-----------------------------------------------------------------------------
(* PeriodicReader::read_cycle, which run_loop() calls for ever: wake, read  *)
(* all sensors, which ends with disable(), and sleep, which is disable().   *)
read_cycle ==
  /\ \/ LET read == Disabled("Active")
            sleep == Disabled(read.state) IN
          /\ Transfer /\ cycles' = cycles + 1
          /\ state' = sleep.state
          /\ reading_count' = IF sleep.ok THEN reading_count + 1 ELSE reading_count
     \/ state' = "Active" /\ UNCHANGED <<transaction_count, reading_count, cycles>>
  /\ UNCHANGED i2c

Next == \/ enable \/ disable \/ burst \/ read_sensor_low_power
        \/ enter_sleep \/ wake_from_sleep \/ read_cycle
Spec == Init /\ [][Next]_vars

-----------------------------------------------------------------------------
(* A reading cycle whose transfer went well gives its data to the caller    *)
(* and is counted (`Perform one reading cycle', `Return to sleep').         *)
GoodCycleCounts == reading_count = cycles
=============================================================================
