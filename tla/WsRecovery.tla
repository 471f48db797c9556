----------------------------- MODULE WsRecovery -----------------------------
(***************************************************************************)
(* WebSocketConnection of WebSocket/src/36/websocket_error_recovery.rs:    *)
(* connecting with exponential backoff, and buffering of the messages sent *)
(* while the connection is down.  A method runs to completion, so it is    *)
(* one step; the network decides how each of its calls ends.  `phase'      *)
(* follows the example program main(), which drives the connection, or is  *)
(* "api" for another program, which calls the methods in any order.        *)
(*                                                                         *)
(* The history variables say what became of a message: in the buffer,      *)
(* written to a stream, refused by a full buffer, reported to the caller   *)
(* as failed, or lost by a flush.                                          *)
(***************************************************************************)
EXTENDS Naturals, Sequences

CONSTANTS
  MaxMsg,        \* bound on the messages sent
  max_size,      \* of the message buffer, 1000 in the code
  initial, max,  \* the backoff bounds, 1 s and 32 s in main
  max_retries,   \* 10 in main
  Iterations     \* of main's loop, 100 in the code

VARIABLES
  state, stream, retry_count, current, buffer,   \* the connection's fields
  submitted, written, dropped, failed, lost,     \* what became of messages
  phase, i                                       \* main

history == <<submitted, dropped, failed, lost>>
main == <<phase, i>>
vars == <<state, stream, retry_count, current, buffer, history, written, main>>

(* Write errors that from_io_error makes recoverable, and the others. *)
Error == {"recoverable", "fatal"}
PING == 0

Init ==
  /\ state = "Disconnected" /\ stream = FALSE
  /\ retry_count = 0 /\ current = initial
  /\ buffer = << >>
  /\ submitted = 0 /\ written = << >>
  /\ dropped = {} /\ failed = {} /\ lost = {}
  /\ phase \in {"connect", "api"} /\ i = 0

-----------------------------------------------------------------------------
(* The parts of the methods *)

(* handle_error: only a recoverable error changes the state. *)
AfterError(s, e) == IF e = "recoverable" THEN "Error" ELSE s

(* Fault: the flush writes the buffer and leaves it as it is. *)
ConnectOk_KeepBuffer ==
  /\ stream' = TRUE /\ state' = "Connected"
  /\ retry_count' = 0 /\ current' = initial
  /\ buffer' = buffer /\ written' = written \o buffer
  /\ UNCHANGED history

(* The stream is open: the state and the counters are reset and the buffer *)
(* flushed, all of it ...                                                  *)
ConnectOk ==
  /\ stream' = TRUE /\ state' = "Connected"
  /\ retry_count' = 0 /\ current' = initial
  /\ buffer' = << >> /\ written' = written \o buffer
  /\ UNCHANGED history

(* ... or up to a message whose write fails: it has left the buffer, the   *)
(* error is returned, and the state stays Connected.                       *)
FlushFails ==
  \E k \in 1 .. Len(buffer) :
    /\ stream' = TRUE /\ state' = "Connected"
    /\ retry_count' = 0 /\ current' = initial
    /\ buffer' = SubSeq(buffer, k + 1, Len(buffer))
    /\ written' = written \o SubSeq(buffer, 1, k - 1)
    /\ lost' = lost \cup {buffer[k]}
    /\ UNCHANGED <<submitted, dropped, failed>>

(* No address, no connection or no socket options: `down' is the stream    *)
(* before the call.                                                        *)
ConnectFails(retries, backoff, down) ==
  /\ \/ state' = "Connecting"    \* DNS failure, set_read_timeout and the like
     \/ \E e \in Error : state' = AfterError("Connecting", e)
  /\ stream' = down
  /\ retry_count' = retries /\ current' = backoff
  /\ UNCHANGED <<buffer, written, history>>

connect ==
  \/ ConnectOk
  \/ FlushFails
  \/ ConnectFails(retry_count, current, stream)

should_retry == retry_count < max_retries

next_backoff ==
  IF retry_count = 0 THEN initial
  ELSE IF current * 2 < max THEN current * 2 ELSE max

reconnect ==
  /\ should_retry
  /\ \/ ConnectOk
     \/ FlushFails
     \/ ConnectFails(retry_count + 1, next_backoff, FALSE)

(* "Max retries exceeded" *)
reconnect_refused ==
  /\ ~should_retry
  /\ UNCHANGED <<state, stream, retry_count, current, buffer, written, history>>

Submit(m) == submitted' = IF m = PING THEN submitted ELSE m

(* MessageBuffer::push: a full buffer drops the message. *)
Push(m) ==
  IF Len(buffer) < max_size
  THEN buffer' = Append(buffer, m) /\ UNCHANGED dropped
  ELSE dropped' = dropped \cup {m} /\ UNCHANGED buffer

SendBuffered(m) ==
  /\ state # "Connected"
  /\ Push(m) /\ Submit(m)
  /\ UNCHANGED <<state, stream, retry_count, current, written, failed, lost>>

SendWritten(m) ==
  /\ state = "Connected" /\ stream
  /\ written' = Append(written, m) /\ Submit(m)
  /\ UNCHANGED <<state, stream, retry_count, current, buffer, dropped, failed,
                 lost>>

(* The write fails: a recoverable error buffers the message for retry. *)
SendFails(m, e) ==
  /\ state = "Connected" /\ stream
  /\ state' = AfterError(state, e)
  /\ IF e = "recoverable"
     THEN Push(m) /\ UNCHANGED failed
     ELSE failed' = failed \cup {m} /\ UNCHANGED <<buffer, dropped>>
  /\ Submit(m)
  /\ UNCHANGED <<stream, retry_count, current, written, lost>>

(* send() also has a case for Connected without a stream; it cannot occur, *)
(* see ConnectedHasStream.                                                 *)
send(m) ==
  SendBuffered(m) \/ SendWritten(m) \/ \E e \in Error : SendFails(m, e)

(* End of stream, data or timeout, and an error. *)
receive ==
  /\ \/ UNCHANGED state
     \/ state = "Connected" /\ stream /\ state' = "Disconnected"
     \/ state = "Connected" /\ stream
        /\ \E e \in Error : state' = AfterError(state, e)
  /\ UNCHANGED <<stream, retry_count, current, buffer, written, history>>

disconnect ==
  /\ stream' = FALSE /\ state' = "Disconnected"
  /\ UNCHANGED <<retry_count, current, buffer, written, history>>

check_connection_health ==
  \/ state = "Connected" /\ send(PING)
  \/ UNCHANGED <<state, stream, retry_count, current, buffer, written, history>>

-----------------------------------------------------------------------------
(* The methods, called in any order *)
ApiNext ==
  /\ phase = "api"
  /\ \/ connect
     \/ reconnect
     \/ submitted < MaxMsg /\ send(submitted + 1)
     \/ receive
     \/ disconnect
  /\ UNCHANGED main

-----------------------------------------------------------------------------
(* main(): connect, reconnect until it succeeds, then the loop.  Nothing   *)
(* is buffered before the loop, so no flush fails there.                   *)

MainConnect ==
  /\ phase = "connect"
  /\ \/ ConnectOk /\ phase' = "loop"
     \/ ConnectFails(retry_count, current, stream) /\ phase' = "retry"
  /\ UNCHANGED i

(* while conn.reconnect().is_err(), unless the state is Disconnected. *)
MainRetry ==
  /\ phase = "retry"
  /\ \/ should_retry /\ ConnectOk /\ phase' = "loop"
     \/ /\ \/ reconnect_refused
           \/ should_retry /\ ConnectFails(retry_count + 1, next_backoff, FALSE)
        /\ phase' = IF state' = "Disconnected" THEN "loop" ELSE "retry"
  /\ UNCHANGED i

(* Fault: a failed recovery does not count as an iteration. *)
MainRecover_NoCount ==
  /\ phase = "loop" /\ i < Iterations
  /\ state \in {"Error", "Disconnected"}
  /\ reconnect \/ reconnect_refused
  /\ UNCHANGED main

MainRecover ==
  /\ phase = "loop" /\ i < Iterations
  /\ state \in {"Error", "Disconnected"}
  /\ reconnect \/ reconnect_refused
  /\ i' = i + 1 /\ UNCHANGED phase

MainHealth ==
  /\ phase = "loop" /\ i < Iterations
  /\ state = "Connected"
  /\ check_connection_health
  /\ phase' = "send" /\ UNCHANGED i

MainSend ==
  /\ phase = "send"
  /\ send(i + 1)
  /\ phase' = "receive" /\ UNCHANGED i

MainReceive ==
  /\ phase = "receive"
  /\ receive
  /\ phase' = "loop" /\ i' = i + 1

(* Any other state: sleep and look again. *)
MainWait ==
  /\ phase = "loop" /\ i < Iterations
  /\ state \in {"Connecting", "Reconnecting"}
  /\ i' = i + 1
  /\ UNCHANGED <<state, stream, retry_count, current, buffer, written, history,
                 phase>>

MainEnd ==
  /\ phase = "loop" /\ i = Iterations
  /\ disconnect
  /\ phase' = "done" /\ UNCHANGED i

Done == phase = "done" /\ UNCHANGED vars

MainNext ==
  \/ MainConnect \/ MainRetry \/ MainRecover \/ MainHealth \/ MainSend
  \/ MainReceive \/ MainWait \/ MainEnd \/ Done

Next == ApiNext \/ MainNext

Spec == Init /\ [][Next]_vars

(* main is a thread that is scheduled; another program may stop calling. *)
LiveSpec == Spec /\ WF_vars(MainNext)

-----------------------------------------------------------------------------
TypeOK ==
  /\ state \in {"Disconnected", "Connecting", "Connected", "Error"}
  /\ stream \in BOOLEAN
  /\ retry_count \in 0 .. max_retries
  /\ buffer \in Seq(0 .. MaxMsg) /\ Len(buffer) <= max_size
  /\ written \in Seq(0 .. MaxMsg) /\ submitted \in 0 .. MaxMsg
  /\ \A s \in {dropped, failed, lost} : s \subseteq 0 .. MaxMsg
  /\ phase \in {"api", "connect", "retry", "loop", "send", "receive", "done"}

(***************************************************************************)
(* send() and receive() find a stream whenever the state is Connected:     *)
(* "No stream available" is never returned, whatever the calls before.     *)
(***************************************************************************)
ConnectedHasStream == state = "Connected" => stream

(* The backoff doubled n times, without its limit. *)
Doubled[n \in Nat] == IF n = 0 THEN initial ELSE Doubled[n - 1] * 2

(***************************************************************************)
(* The backoff is exponential in the failed attempts since the last        *)
(* success and capped: initial * 2^(retry_count - 1), at most max.         *)
(***************************************************************************)
BackoffFollowsRetries ==
  IF retry_count = 0 THEN current = initial
  ELSE LET uncapped == Doubled[retry_count - 1]
       IN  current = IF uncapped < max THEN uncapped ELSE max

(* The messages on their way or gone out, and pings among them. *)
Trail == written \o buffer

(***************************************************************************)
(* A message is written at most once, in the order of the sends, as long   *)
(* as no flush has failed: buffered messages go out before newer ones, and *)
(* a message buffered for retry was not written already.                   *)
(***************************************************************************)
OrderKept ==
  lost = {} =>
    \A j, k \in 1 .. Len(Trail) :
      j < k /\ Trail[j] # PING /\ Trail[k] # PING => Trail[j] < Trail[k]

(***************************************************************************)
(* The first connection is not retried without end: main gets through, or  *)
(* has used up its attempts.  (Then reconnect() refuses at once, for ever, *)
(* and main's `while conn.reconnect().is_err()' spins: it leaves only in   *)
(* the state Disconnected, which a refusal does not set.)                  *)
(***************************************************************************)
RetriesBounded ==
  phase = "retry" ~> (phase = "loop" \/ retry_count = max_retries)

(***************************************************************************)
(* Once in its loop, main ends, whatever the network does.                 *)
(***************************************************************************)
LoopEnds == phase = "loop" ~> phase = "done"
=============================================================================
