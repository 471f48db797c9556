---------------------------- MODULE CanScheduler ----------------------------
(***************************************************************************)
(* CanScheduler of CAN/src/19/CAN_Message_Scheduling.rs with its example   *)
(* program.  An entry is known by its identifier: periodic ones, and one   *)
(* that a button triggers.  For each entry the model keeps its age, the    *)
(* time since the timestamp of its last message.  The hundred turns of     *)
(* main's loop are taken as endless, and a press may come at any moment.   *)
(***************************************************************************)
EXTENDS Naturals, FiniteSetsExt

CONSTANTS
  Periodic, Button,   \* identifiers; a smaller one is more urgent
  period, deadline,   \* period of the periodic entries, deadline of the button
  MaxAge, MaxQueued   \* bounds: ages saturate; copies of a message queued
Id == Periodic \cup {Button}

VARIABLES
  program,     \* "main", or "api": another program calls what it likes
  at,          \* where main's loop is
  age, queued, \* per entry; tx_queue as the number of copies of each message
  pressed,     \* the flag the trigger reads and clears
  last         \* identifier sent last by this transmit_queue(), 0 before
vars == <<program, at, age, queued, pressed, last>>

Init == /\ program \in {"main", "api"} /\ at = "process"
        /\ age = [i \in Id |-> 0] /\ queued = [i \in Id |-> 0]
        /\ pressed = FALSE /\ last = 0

(* External: the clock, and whoever presses the button. *)
Tick == /\ age' = [i \in Id |-> Min({age[i] + 1, MaxAge})]
        /\ UNCHANGED <<program, at, queued, pressed, last>>

Press == /\ pressed' = TRUE
         /\ UNCHANGED <<program, at, age, queued, last>>

-----------------------------------------------------------------------------
(* prepare_message() for every entry of a set: a new timestamp and a copy in *)
(* the queue.                                                                *)
Prepare(S) ==
  /\ \A i \in S : queued[i] < MaxQueued
  /\ age' = [i \in Id |-> IF i \in S THEN 0 ELSE age[i]]
  /\ queued' = [i \in Id |-> IF i \in S THEN queued[i] + 1 ELSE queued[i]]

Due == {i \in Periodic : age[i] >= period}

process_time_triggered == Prepare(Due) /\ UNCHANGED pressed

(* trigger() clears the flag before the deadline is looked at: a press that *)
(* comes later than the deadline after the last message is dropped.         *)
process_event_triggered ==
  LET fires == pressed /\ age[Button] < deadline IN
  /\ Prepare(IF fires THEN {Button} ELSE {})
  /\ pressed' = FALSE

(* Fault: the trigger of an entry is asked only when no period is over. *)
process_hybrid_Else ==
  /\ Prepare(Due \cup IF pressed /\ Due = {} THEN {Button} ELSE {})
  /\ pressed' = FALSE

process_hybrid ==
  /\ Prepare(Due \cup IF pressed THEN {Button} ELSE {})
  /\ pressed' = FALSE

(* Ord for PriorityMessage is reversed, so the heap gives the smallest. *)
Outranks(i, j) == i <= j

(* One turn of transmit_queue(); a message that fails is dropped. *)
Transmit ==
  \E i \in Id :
    /\ queued[i] > 0 /\ \A j \in Id : queued[j] > 0 => Outranks(i, j)
    /\ queued' = [queued EXCEPT ![i] = @ - 1]
    /\ last' = i
    /\ UNCHANGED <<program, at, age, pressed>>

Drained == \A i \in Id : queued[i] = 0

-----------------------------------------------------------------------------
(* main() processes, transmits and sleeps; another program calls anything. *)

MainProcess == /\ program = "main" /\ at = "process" /\ process_hybrid
               /\ at' = "transmit" /\ last' = 0
               /\ UNCHANGED program

MainTransmit == program = "main" /\ at = "transmit" /\ Transmit

MainSleep == /\ program = "main" /\ at = "transmit" /\ Drained
             /\ at' = "process" /\ last' = 0
             /\ UNCHANGED <<program, age, queued, pressed>>

ApiProcess ==
  /\ program = "api" /\ at = "process"
  /\ process_time_triggered \/ process_event_triggered \/ process_hybrid
  /\ UNCHANGED <<program, at, last>>

ApiTransmit ==
  /\ program = "api"
  /\ \/ /\ at = "process" /\ at' = "transmit" /\ last' = 0
        /\ UNCHANGED <<program, age, queued, pressed>>
     \/ at = "transmit" /\ Transmit
     \/ /\ at = "transmit" /\ Drained /\ at' = "process" /\ last' = 0
        /\ UNCHANGED <<program, age, queued, pressed>>

Main == MainProcess \/ MainTransmit \/ MainSleep
Next == Tick \/ Press \/ Main \/ ApiProcess \/ ApiTransmit
Spec == Init /\ [][Next]_vars /\ WF_vars(Main)

-----------------------------------------------------------------------------
(* main() answers every press of the button with a message, however the     *)
(* press falls between the processing, the transmissions and the periods:   *)
(* process_hybrid() looks at no deadline.                                   *)
PressAnswered == program = "main" /\ pressed ~> last = Button

(* Within one transmit_queue() the messages leave by urgency: a smaller     *)
(* identifier never waits behind a larger one.                              *)
UrgentFirst ==
  [][last' # last /\ last' # 0 => last <= last']_vars
=============================================================================
