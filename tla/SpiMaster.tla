----------------------------- MODULE SpiMaster -----------------------------
(***************************************************************************)
(* SPIMaster and SPIFlash of SPI/src/2/2.rs.  A transaction selects the    *)
(* chip, exchanges its bytes one by one and deselects it; the flash memory *)
(* (external) takes the command when chip select rises, and programs a     *)
(* page in its own time.  `program' is what remains of the driver's call:  *)
(* a sequence of transactions, each the sequence of bytes it sends.        *)
(***************************************************************************)
EXTENDS Naturals, Sequences, FiniteSetsExt

CONSTANTS Value, MaxLen, Limit   \* contents; bytes of a request; size of write()'s dummy

VARIABLES
  program, cs, frame,    \* transactions to do; chip selected; bytes since then
  call,                  \* what was called, with which value, was the chip ready
  wel, wip, page,        \* flash: write enable latch, busy, contents
  plain                  \* outcome of the last SPIMaster::read or write
vars == <<program, cs, frame, call, wel, wip, page, plain>>

None == [op |-> "none", value |-> 0, ready |-> TRUE]

Init == /\ program = << >> /\ cs = FALSE /\ frame = << >> /\ call = None
        /\ wel = FALSE /\ wip = FALSE /\ page = 0 /\ plain = "none"

-----------------------------------------------------------------------------
(* The calls.  A byte is a command, an address, a datum or a dummy. *)

Begin(op, v, p) == /\ program = << >>
                   /\ program' = p
                   /\ call' = [op |-> op, value |-> v, ready |-> ~wip]
                   /\ UNCHANGED <<cs, frame, wel, wip, page, plain>>

(* Fault: both commands in one transaction. *)
write_OneFrame(v) == Begin("write", v, << <<"WREN", "PP", "addr", "addr", "addr", v>> >>)

(* Nothing waits for an operation under way, before or after.  Data that is *)
(* empty or longer than a page is refused before anything is done, and a    *)
(* read() of nothing returns Ok at once.                                    *)
write(v) == Begin("write", v, << <<"WREN">>, <<"PP", "addr", "addr", "addr", v>> >>)

read_id == Begin("read_id", 0, << <<"RDID", "dummy", "dummy", "dummy">> >>)

read == Begin("read", 0, << <<"READ", "addr", "addr", "addr", "dummy">> >>)

(* read_status(), again and again until the WIP bit is 0. *)
wait_ready == Begin("wait_ready", 0, << <<"RDSR", "dummy">> >>)

(* SPIMaster::write cuts what is longer than its dummy buffer and says Ok;   *)
(* read() of as much fails, since the two lengths differ.                    *)
Plain(op, k) == IF op = "read" /\ k > Limit THEN "Err" ELSE "Ok"

transfer ==
  /\ program = << >> /\ call.op = "none"
  /\ \E op \in {"read", "write"}, k \in 0 .. MaxLen :
       /\ plain' = Plain(op, k)
       /\ program' = IF plain' = "Err" THEN << >>
                     ELSE << [i \in 1 .. Min({k, Limit}) |-> "dummy"] >>
       /\ call' = [None EXCEPT !.op = "transfer"]
  /\ UNCHANGED <<cs, frame, wel, wip, page>>

-----------------------------------------------------------------------------
(* SPIMaster::transaction and transfer() *)

select == /\ program # << >> /\ ~cs
          /\ cs' = TRUE /\ frame' = << >>
          /\ UNCHANGED <<program, call, wel, wip, page, plain>>

transfer_byte == /\ cs /\ Len(frame) < Len(Head(program))
                 /\ frame' = Append(frame, Head(program)[Len(frame) + 1])
                 /\ UNCHANGED <<program, cs, call, wel, wip, page, plain>>

(* The status a poll of wait_ready() saw: busy means another one. *)
Poll == IF call.op = "wait_ready" /\ wip THEN program ELSE Tail(program)

(* External: what the flash makes of a frame when chip select rises. *)
Command == IF frame = << >> THEN "none" ELSE Head(frame)
Latch == /\ wel' = IF wip THEN wel
                   ELSE IF frame = <<"WREN">> THEN TRUE
                   ELSE IF Command = "PP" THEN FALSE ELSE wel
         /\ IF Command = "PP" /\ wel /\ ~wip
            THEN wip' = TRUE /\ page' = frame[Len(frame)]
            ELSE UNCHANGED <<wip, page>>

deselect == /\ cs /\ Len(frame) = Len(Head(program))
            /\ cs' = FALSE /\ program' = Poll /\ frame' = << >>
            /\ Latch
            /\ UNCHANGED <<call, plain>>

Return == /\ program = << >> /\ call.op # "none"
          /\ call' = None
          /\ UNCHANGED <<program, cs, frame, wel, wip, page, plain>>

(* External: the page is programmed. *)
Programmed == /\ wip /\ wip' = FALSE
              /\ UNCHANGED <<program, cs, frame, call, wel, page, plain>>

Next == \/ call.op = "none" /\ ((\E v \in Value : write(v)) \/ read_id \/ read \/ wait_ready)
        \/ transfer \/ select \/ transfer_byte \/ deselect \/ Return
        \/ Programmed
Spec == Init /\ [][Next]_vars

-----------------------------------------------------------------------------
(* write() of a page takes effect if the flash was ready when it began:     *)
(* the latch of the first transaction is there for the second, and is used  *)
(* up by it.  A write() that comes while another is under way is lost       *)
(* without an error: only wait_ready() in between makes the two safe.       *)
WriteTakesEffect ==
  /\ call.op = "write" /\ call.ready /\ program = << >> => page = call.value /\ ~wel
  /\ program = << >> => ~cs
=============================================================================
