---------------------------- MODULE WsMigration ----------------------------
(***************************************************************************)
(* WebSocketMigration of WebSocket/src/30/websocket_connection_migration.rs*)
(* and the tasks its main() starts on it: main itself, which sends         *)
(* messages; the task of the first connection; the reconnect loop, which   *)
(* opens the later ones; and a health checker for each connection.  All    *)
(* share the fields of the client, each behind its own lock, and may be    *)
(* interrupted at every await.  The lock of the queue is the only one held *)
(* across an await.  main() starts the loop when it has sent its messages; *)
(* a program that starts it first is included.                             *)
(***************************************************************************)
EXTENDS Integers, Sequences, FiniteSets

CONSTANTS
  max_reconnect_attempts,   \* 10 in new()
  Messages,                 \* main sends so many, 5 in the code
  MaxConnections            \* bound on the connections that are opened

VARIABLES
  state, session_token, next_sequence_num, last_acked_sequence,
  pending_messages, reconnect_attempts, missed_pongs,   \* the fields
  pending,       \* who holds the lock of the queue across an await
  pc,            \* where the two connecting tasks are
  health,        \* the health checker of the task's connection is running
  orphans,       \* checkers that were not aborted with their connection
  main,          \* main: before, or in, a send_message; waiting for the tasks
  written,       \* the sequence numbers written to a connection, in order
  connections    \* how many were opened

queue == <<next_sequence_num, pending_messages, pending, main, written>>
counts == <<reconnect_attempts, missed_pongs>>
session == <<session_token, last_acked_sequence>>
checkers == <<health, orphans>>
vars == <<state, queue, counts, session, pc, checkers, connections>>

Task == {"first", "loop"}
None == "none"

Init ==
  /\ state = "Disconnected" /\ session_token = FALSE
  /\ next_sequence_num = 0 /\ last_acked_sequence = 0
  /\ pending_messages = << >> /\ pending = None
  /\ reconnect_attempts = 0 /\ missed_pongs = 0
  /\ pc \in [Task -> {"connect", "off", "look"}]
  /\ pc["first"] = "connect" /\ pc["loop"] # "connect"
  /\ health = [t \in Task |-> FALSE] /\ orphans = 0
  /\ main = "idle" /\ written = << >> /\ connections = 0

Goto(t, from, to) == pc[t] = from /\ pc' = [pc EXCEPT ![t] = to]

(* Where connect() returns to. *)
Return(t) == IF t = "first" THEN "ended" ELSE "look"

-----------------------------------------------------------------------------
(* connect() *)

Connect(t) ==
  /\ Goto(t, "connect", "dialing")
  /\ state' = "Connecting"
  /\ UNCHANGED <<queue, counts, session, checkers, connections>>

(* The state stays Connecting, in which the reconnect loop only sleeps: no *)
(* attempt follows a failed one.                                           *)
DialFails(t) ==
  /\ Goto(t, "dialing", Return(t))
  /\ UNCHANGED <<state, queue, counts, session, checkers, connections>>

DialOk(t) ==
  /\ connections < MaxConnections /\ connections' = connections + 1
  /\ Goto(t, "dialing", "opened")
  /\ state' = "Connected"
  /\ UNCHANGED <<queue, counts, session, checkers>>

Opened(t) ==
  /\ Goto(t, "opened", "request")
  /\ reconnect_attempts' = 0 /\ missed_pongs' = 0
  /\ UNCHANGED <<state, queue, session, checkers, connections>>

-----------------------------------------------------------------------------
(* handle_connection(): the first message, RequestSession or ResumeSession *)

Request(t) ==
  /\ Goto(t, "request", "requested")
  /\ UNCHANGED <<state, queue, counts, session, checkers, connections>>

(* The error is returned before anything else is done: the state stays     *)
(* Connected, without a connection and without a checker to notice.        *)
RequestFails(t) ==
  /\ Goto(t, "request", Return(t))
  /\ UNCHANGED <<state, queue, counts, session, checkers, connections>>

(* Without a token nothing is flushed. *)
NoSession(t) ==
  /\ ~session_token
  /\ Goto(t, "requested", "reading")
  /\ health' = [health EXCEPT ![t] = TRUE]
  /\ UNCHANGED <<state, queue, counts, session, orphans, connections>>

(* flush_pending_messages() keeps the queue locked until it returns. *)
FlushLock(t) ==
  /\ session_token
  /\ pending = None /\ pending' = t
  /\ Goto(t, "requested", "flush")
  /\ UNCHANGED <<state, next_sequence_num, pending_messages, main, written,
                 counts, session, checkers, connections>>

FlushSend(t) ==
  /\ pc[t] = "flush" /\ pending_messages # << >>
  /\ written' = Append(written, Head(pending_messages))
  /\ pending_messages' = Tail(pending_messages)
  /\ UNCHANGED <<state, next_sequence_num, pending, main, counts, session, pc,
                 checkers, connections>>

(* Faults: the message whose send failed is put back at the other end; the *)
(* queue stays locked while the connection is served.                      *)
FlushStop_PushBack(t) ==
  /\ Goto(t, "flush", "reading")
  /\ pending' = None
  /\ pending_messages' =
       IF pending_messages = << >> THEN << >>
       ELSE Append(Tail(pending_messages), Head(pending_messages))
  /\ health' = [health EXCEPT ![t] = TRUE]
  /\ UNCHANGED <<state, next_sequence_num, main, written, counts, session,
                 orphans, connections>>
FlushStop_Locked(t) ==
  /\ Goto(t, "flush", "reading")
  /\ health' = [health EXCEPT ![t] = TRUE]
  /\ UNCHANGED <<state, queue, counts, session, orphans, connections>>

(* The queue is empty, or a send failed and its message was put back. *)
FlushStop(t) ==
  /\ Goto(t, "flush", "reading")
  /\ pending' = None
  /\ health' = [health EXCEPT ![t] = TRUE]
  /\ UNCHANGED <<state, next_sequence_num, pending_messages, main, written,
                 counts, session, orphans, connections>>

-----------------------------------------------------------------------------
(* handle_message() *)

SessionToken(t) ==
  /\ pc[t] = "reading"
  /\ session_token' = TRUE
  /\ UNCHANGED <<state, queue, counts, last_acked_sequence, pc, checkers,
                 connections>>

(* Messages are popped while the front one is acknowledged. *)
cleanup_acked_messages(messages, ack_seq) ==
  LET popped == CHOOSE n \in 0 .. Len(messages) :
                  /\ \A k \in 1 .. n : messages[k] <= ack_seq
                  /\ n < Len(messages) => messages[n + 1] > ack_seq
  IN  SubSeq(messages, popped + 1, Len(messages))

Ack(t, sequence) ==
  /\ pc[t] = "reading" /\ pending = None
  /\ last_acked_sequence' = sequence
  /\ pending_messages' = cleanup_acked_messages(pending_messages, sequence)
  /\ UNCHANGED <<state, next_sequence_num, pending, main, written, counts,
                 session_token, pc, checkers, connections>>

Pong(t) ==
  /\ pc[t] = "reading"
  /\ missed_pongs' = 0
  /\ UNCHANGED <<state, queue, reconnect_attempts, session, pc, checkers,
                 connections>>

(* The answer to a Ping cannot be written: the error is returned at once,  *)
(* the checker goes on and the state stays.                                *)
PongFails(t) ==
  /\ Goto(t, "reading", Return(t))
  /\ orphans' = IF health[t] THEN orphans + 1 ELSE orphans
  /\ health' = [health EXCEPT ![t] = FALSE]
  /\ UNCHANGED <<state, queue, counts, session, connections>>

(* Close, an error or the end of the stream. *)
Closed(t) ==
  /\ Goto(t, "reading", Return(t))
  /\ health' = [health EXCEPT ![t] = FALSE]
  /\ state' = "Reconnecting"
  /\ UNCHANGED <<queue, counts, session, orphans, connections>>

-----------------------------------------------------------------------------
(* health_check_loop(): the last pong is older than 30 seconds *)

Missed ==
  /\ missed_pongs' = missed_pongs + 1
  /\ IF missed_pongs + 1 >= 3
     THEN /\ state' = "Reconnecting"
          /\ \/ \E t \in Task : health[t] /\ UNCHANGED orphans
                  /\ health' = [health EXCEPT ![t] = FALSE]
             \/ orphans > 0 /\ orphans' = orphans - 1 /\ UNCHANGED health
     ELSE UNCHANGED <<state, checkers>>

HealthCheck ==
  /\ orphans > 0 \/ \E t \in Task : health[t]
  /\ Missed
  /\ UNCHANGED <<queue, reconnect_attempts, session, pc, connections>>

-----------------------------------------------------------------------------
(* reconnect_loop() *)

Look ==
  /\ \/ state \in {"Reconnecting", "Disconnected"}
        /\ Goto("loop", "look", "attempts")
     \/ state = "Connected" /\ Goto("loop", "look", "ended")
  /\ UNCHANGED <<state, queue, counts, session, checkers, connections>>

Attempts ==
  /\ \/ /\ reconnect_attempts >= max_reconnect_attempts
        /\ Goto("loop", "attempts", "ended") /\ state' = "Disconnected"
     \/ /\ reconnect_attempts < max_reconnect_attempts
        /\ Goto("loop", "attempts", "backoff") /\ UNCHANGED state
  /\ UNCHANGED <<queue, counts, session, checkers, connections>>

(* The sleep is over. *)
Backoff ==
  /\ Goto("loop", "backoff", "connect")
  /\ reconnect_attempts' = reconnect_attempts + 1
  /\ UNCHANGED <<state, queue, missed_pongs, session, checkers, connections>>

-----------------------------------------------------------------------------
(* main(): send_message() takes a number and queues the message; then the  *)
(* reconnect loop is started.                                              *)

TakeNumber ==
  /\ main = "idle" /\ next_sequence_num < Messages
  /\ next_sequence_num' = next_sequence_num + 1
  /\ main' = "push"
  /\ UNCHANGED <<state, pending_messages, pending, written, counts, session, pc,
                 checkers, connections>>

Push ==
  /\ main = "push" /\ pending = None
  /\ pending_messages' = Append(pending_messages, next_sequence_num - 1)
  /\ main' = "idle"
  /\ UNCHANGED <<state, next_sequence_num, pending, written, counts, session, pc,
                 checkers, connections>>

StartLoop ==
  /\ main = "idle" /\ next_sequence_num = Messages
  /\ main' = "wait"
  /\ pc' = IF pc["loop"] = "off" THEN [pc EXCEPT !["loop"] = "look"] ELSE pc
  /\ UNCHANGED <<state, next_sequence_num, pending_messages, pending, written,
                 counts, session, checkers, connections>>

-----------------------------------------------------------------------------
Connecting(t) == Connect(t) \/ DialFails(t) \/ DialOk(t) \/ Opened(t)

Resuming(t) ==
  \/ Request(t) \/ RequestFails(t) \/ NoSession(t) \/ FlushLock(t)
  \/ FlushSend(t) \/ FlushStop(t)

(* The server acknowledges what it was sent. *)
Receiving(t) ==
  \/ SessionToken(t) \/ Pong(t) \/ PongFails(t) \/ Closed(t)
  \/ \E k \in 1 .. Len(written) : Ack(t, written[k])

Loop == Look \/ Attempts \/ Backoff
Main == TakeNumber \/ Push \/ StartLoop

Next ==
  \/ \E t \in Task : Connecting(t) \/ Resuming(t) \/ Receiving(t)
  \/ HealthCheck \/ Loop \/ Main

Spec == Init /\ [][Next]_vars

(* Tasks are scheduled, and a write to a connection ends somehow; nothing  *)
(* is assumed of what the server sends.                                    *)
LiveSpec ==
  /\ Spec /\ WF_vars(Main) /\ WF_vars(Loop)
  /\ \A t \in Task : WF_vars(Connecting(t)) /\ WF_vars(Resuming(t))

-----------------------------------------------------------------------------
TypeOK ==
  /\ state \in {"Disconnected", "Connecting", "Connected", "Reconnecting"}
  /\ session_token \in BOOLEAN
  /\ next_sequence_num \in 0 .. Messages
  /\ last_acked_sequence \in 0 .. Messages
  /\ pending_messages \in Seq(0 .. Messages) /\ written \in Seq(0 .. Messages)
  /\ reconnect_attempts \in 0 .. max_reconnect_attempts
  /\ missed_pongs \in 0 .. (2 + MaxConnections)
  /\ pending \in Task \cup {None}
  /\ pc \in [Task -> {"off", "connect", "dialing", "opened", "request", "requested",
                      "flush", "reading", "look", "attempts", "backoff", "ended"}]
  /\ health \in [Task -> BOOLEAN] /\ orphans \in 0 .. MaxConnections
  /\ main \in {"idle", "push", "wait"} /\ connections \in 0 .. MaxConnections

(***************************************************************************)
(* "Prevent duplicate processing": over all connections together, two of   *)
(* which may be open at a time, a message is written at most once and in   *)
(* the order of the numbers, and what is still queued comes after it.  At  *)
(* most once, because flush_pending_messages() takes a message out of the  *)
(* queue when it writes it, before any acknowledgement, and nothing puts   *)
(* it back: one that is lost with its connection is not sent again.        *)
(***************************************************************************)
OrderedOnce ==
  LET trail == written \o pending_messages
  IN  \A j, k \in 1 .. Len(trail) : j < k => trail[j] < trail[k]

(***************************************************************************)
(* The queue holds exactly the messages that were sent and not yet written *)
(* to any connection: neither a flush that fails nor an acknowledgement,   *)
(* also one that arrives on the older of two connections, takes out one    *)
(* that was not written.  Of those written nothing is said.                *)
(***************************************************************************)
UnwrittenStayQueued ==
  LET pushed == IF main = "push" THEN next_sequence_num - 1 ELSE next_sequence_num
  IN  {pending_messages[k] : k \in 1 .. Len(pending_messages)}
        = (0 .. (pushed - 1)) \ {written[k] : k \in 1 .. Len(written)}

(***************************************************************************)
(* Each connection starts one health checker at most, and a checker breaks *)
(* its loop when it reports a dead connection: those that run, those left  *)
(* running by a failed answer to a Ping, and the reports made since the    *)
(* last pong are together no more than the connections opened, however the *)
(* checkers of several connections share the counter.                      *)
(***************************************************************************)
CheckersBounded ==
  Cardinality({t \in Task : health[t]}) + orphans
    + (IF missed_pongs > 2 THEN missed_pongs - 2 ELSE 0) <= connections

(***************************************************************************)
(* main gets its messages into the queue and starts the loop: a flush, of  *)
(* either connection, does not keep the queue locked for ever.             *)
(***************************************************************************)
MainNotBlocked == <>(main = "wait")
=============================================================================
