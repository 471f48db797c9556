---------------------------- MODULE WsValidator ----------------------------
(***************************************************************************)
(* WebSocketConnection and WebSocketValidator of                           *)
(* WebSocket/src/37/websocket_protocol_violation_handler.rs: a peer sends  *)
(* any frames, process_frame() checks each to the end.                     *)
(***************************************************************************)
EXTENDS Naturals, Sequences

CONSTANTS
  Length, CloseCode,   \* payload lengths and close codes at their limits
  MaxFrames            \* bound: data frames accepted since the last violation

VARIABLES is_server, in_fragmented_message, fragmented_opcode,
  accepted,            \* data frames accepted since the last violation
  farewell             \* close payloads that were accepted
vars == <<is_server, in_fragmented_message, fragmented_opcode, accepted, farewell>>

Data == {"Text", "Binary"}
Control == {"Close", "Ping", "Pong"}

Init == /\ is_server \in BOOLEAN
        /\ in_fragmented_message = FALSE /\ fragmented_opcode = "None"
        /\ accepted = << >> /\ farewell = {}

(* What the header says of the length, and how much there is. *)
Frame == [fin : BOOLEAN, rsv : BOOLEAN, masked : BOOLEAN, payload_length : Length,
          length : Length, utf8 : BOOLEAN, code : CloseCode,
          opcode : Data \cup Control \cup {"Continuation"}]

-----------------------------------------------------------------------------
(* No extension is ever negotiated. *)
HeaderOk(f) == /\ ~f.rsv
               /\ f.opcode \in Control => f.fin /\ f.payload_length <= 125

MaskingOk(f) == f.masked = is_server

FragmentationOk(f) ==
  /\ f.opcode = "Continuation" => in_fragmented_message
  /\ f.opcode \in Data => ~in_fragmented_message

reset_fragmentation == in_fragmented_message' = FALSE /\ fragmented_opcode' = "None"

(* validate_fragmentation(): its state has changed before the payload is   *)
(* looked at.                                                               *)
Fragmentation(f) ==
  IF f.opcode = "Continuation" /\ f.fin THEN reset_fragmentation
  ELSE IF f.opcode \in Data /\ ~f.fin
  THEN in_fragmented_message' = TRUE /\ fragmented_opcode' = f.opcode
  ELSE UNCHANGED <<in_fragmented_message, fragmented_opcode>>

CodeOk(c) == c >= 1000 /\ c \notin 1004 .. 1006 /\ c \notin 1012 .. 2999

(* validate_text_payload() and validate_close_payload(); the pieces of a    *)
(* text after the first one are not looked at.                              *)
PayloadOk(f) ==
  /\ f.opcode = "Text" => f.utf8
  /\ f.opcode = "Close" =>
       \/ f.length = 0
       \/ f.length >= 2 /\ CodeOk(f.code) /\ (f.length > 2 => f.utf8)

Accept(f) ==
  /\ HeaderOk(f) /\ MaskingOk(f) /\ FragmentationOk(f) /\ PayloadOk(f)
  /\ Fragmentation(f)
  /\ accepted' = IF f.opcode \in Control THEN accepted
                 ELSE Append(accepted, [opcode |-> f.opcode, fin |-> f.fin])
  /\ farewell' = IF f.opcode = "Close" /\ f.length > 0 THEN farewell \cup {f.code} ELSE farewell
  /\ Len(accepted') <= MaxFrames
  /\ UNCHANGED is_server

(* Fault: close_connection() leaves the state of the message that was cut. *)
Violation_Open(f) ==
  /\ ~(HeaderOk(f) /\ MaskingOk(f) /\ FragmentationOk(f) /\ PayloadOk(f))
  /\ IF HeaderOk(f) /\ MaskingOk(f) /\ FragmentationOk(f) THEN Fragmentation(f)
     ELSE UNCHANGED <<in_fragmented_message, fragmented_opcode>>
  /\ accepted' = << >>
  /\ UNCHANGED <<is_server, farewell>>

(* A frame that fails any check closes the connection: a close frame goes   *)
(* out and the message under way is forgotten.  The object takes more       *)
(* frames afterwards as if it were new.                                     *)
Violation(f) ==
  /\ ~(HeaderOk(f) /\ MaskingOk(f) /\ FragmentationOk(f) /\ PayloadOk(f))
  /\ reset_fragmentation
  /\ accepted' = << >>
  /\ UNCHANGED <<is_server, farewell>>

process_frame == \E f \in Frame : Accept(f) \/ Violation(f)

Next == process_frame
Spec == Init /\ [][Next]_vars

-----------------------------------------------------------------------------
(* The data frames accepted since the last violation are whole messages     *)
(* and at most one unfinished at the end: a piece never follows a finished  *)
(* message or a violation, a new message never starts inside one, whatever  *)
(* control frames come between; and the state of the connection says which. *)
MessagesWellFormed ==
  /\ \A i \in DOMAIN accepted :
       accepted[i].opcode = "Continuation" <=> (i > 1 /\ ~accepted[i - 1].fin)
  /\ in_fragmented_message <=> (accepted # << >> /\ ~accepted[Len(accepted)].fin)
  /\ in_fragmented_message =>
       \E i \in DOMAIN accepted :
         /\ accepted[i].opcode = fragmented_opcode
         /\ \A j \in i + 1 .. Len(accepted) : accepted[j].opcode = "Continuation"
  /\ \A c \in farewell : c \notin 0 .. 999 \cup {1004, 1005, 1006}
=============================================================================
