----------------------------- MODULE WebSockets -----------------------------
(***************************************************************************)
(* The WebSocket programs, one at a time: `prog' says which one runs, the  *)
(* state of the others rests.  WsRing is extended; the other components    *)
(* are instances.                                                          *)
(***************************************************************************)
EXTENDS WsRing, FiniteSets

CONSTANTS
  MaxMsg, r_max_size, initial, max, max_retries, Iterations,           \* WsRecovery
  max_reconnect_attempts, Messages, MaxConnections,                    \* WsMigration
  capacity, max_pool_size, initial_count, b_MaxFrames, b_MaxBytes, MaxHeld, \* WsBuffers
  Length, CloseCode, v_MaxFrames,                                      \* WsValidator
  Thread, initial_size, max_size, block_size, MaxBlocks, Sizes,        \* WsPool
  Client, BUFFER_SIZE, SendSpace, l_MaxBytes,                          \* WsEventLoop
  PING_INTERVAL, PONG_TIMEOUT, client_interval, client_limit, Delay, Lag, \* WsHeartbeat
  Session, MaxMsgs                                                     \* WsGateway

(* Main sends a message in an iteration. *)
ASSUME RecoveryAssumption ==
  /\ MaxMsg \in Nat /\ r_max_size \in Nat /\ max_retries \in Nat
  /\ Iterations \in Nat /\ Iterations <= MaxMsg
(* The first backoff does not exceed the limit: 1 s and 32 s in main. *)
ASSUME BackoffAssumption == initial \in Nat /\ max \in Nat /\ initial <= max
ASSUME MigrationAssumption ==
  max_reconnect_attempts \in Nat /\ Messages \in Nat /\ MaxConnections \in Nat
ASSUME BuffersAssumption ==
  /\ capacity \in Nat \ {0} /\ max_pool_size \in Nat /\ initial_count \in Nat
  /\ b_MaxFrames \in Nat /\ b_MaxBytes \in Nat /\ MaxHeld \in Nat
ASSUME ValidatorAssumption == CloseCode \subseteq Nat
(* A slice longer than a block panics. *)
ASSUME PoolAssumption ==
  /\ IsFiniteSet(Thread) /\ initial_size \in Nat /\ max_size \in Nat
  /\ block_size \in Nat /\ MaxBlocks \in Nat /\ Sizes \subseteq 0 .. block_size
(* A round trip fits in an interval, and a timeout in what an end waits. *)
ASSUME HeartbeatAssumption ==
  /\ PING_INTERVAL \in Nat /\ PONG_TIMEOUT \in Nat /\ client_interval \in Nat
  /\ client_limit \in Nat /\ Delay \in Nat /\ Lag \in Nat
  /\ 2 * Delay + Lag < PING_INTERVAL /\ 2 * Delay + Lag < client_interval
  /\ PONG_TIMEOUT + Lag < PING_INTERVAL /\ client_interval + Lag <= client_limit

VARIABLES
  prog,
  state, stream, retry_count, current, r_buffer, submitted, written, dropped, failed,
  lost, phase, i,                                                  \* WsRecovery
  m_state, session_token, next_sequence_num, last_acked_sequence, pending_messages,
  reconnect_attempts, missed_pongs, pending, pc, health, orphans, main, m_written,
  connections,                                                     \* WsMigration
  user, recv, frames, cut, payloads, send, queued, sent, b_pool, held, fresh,  \* WsBuffers
  is_server, in_fragmented_message, fragmented_opcode, accepted, farewell, \* WsValidator
  objects, available, in_use, allocations, deallocations, handle, writing, arena, given,
  p_taken,                                                         \* WsPool
  l_peer, l_sent, echoed, inbox, outbox, slot, write_buffer, interest, armed, l_events,
  at, cur, left, data,                                             \* WsEventLoop
  open, gave_up, waiting_for_pong, since_pong, due, wire, severed, \* WsHeartbeat
  g_at, msgs, closed, sessions, pipe, requests, lists, listening, events, tx  \* WsGateway

Recovery_vars == <<state, stream, retry_count, current, r_buffer, submitted, written,
  dropped, failed, lost, phase, i>>
Migration_vars == <<m_state, session_token, next_sequence_num, last_acked_sequence,
  pending_messages, reconnect_attempts, missed_pongs, pending, pc, health, orphans,
  main, m_written, connections>>
Buffers_vars == <<user, recv, frames, cut, payloads, send, queued, sent, b_pool, held,
  fresh>>
Validator_vars == <<is_server, in_fragmented_message, fragmented_opcode, accepted,
  farewell>>
Pool_vars == <<objects, available, in_use, allocations, deallocations, handle, writing,
  arena, given, p_taken>>
Loop_vars == <<l_peer, l_sent, echoed, inbox, outbox, slot, write_buffer, interest, armed,
  l_events, at, cur, left, data>>
Heartbeat_vars == <<open, gave_up, waiting_for_pong, since_pong, due, wire, severed>>
Gateway_vars == <<g_at, msgs, closed, sessions, pipe, requests, lists, listening, events, tx>>

Recovery == INSTANCE WsRecovery WITH max_size <- r_max_size, buffer <- r_buffer
Migration == INSTANCE WsMigration WITH state <- m_state, written <- m_written
Buffers == INSTANCE WsBuffers
  WITH MaxFrames <- b_MaxFrames, MaxBytes <- b_MaxBytes, pool <- b_pool
Validator == INSTANCE WsValidator WITH MaxFrames <- v_MaxFrames
Pool == INSTANCE WsPool WITH taken <- p_taken
Loop == INSTANCE WsEventLoop
  WITH MaxBytes <- l_MaxBytes, peer <- l_peer, sent <- l_sent, events <- l_events
Heartbeat == INSTANCE WsHeartbeat WITH cut <- severed
Gateway == INSTANCE WsGateway WITH at <- g_at

Programs == {"ring", "recovery", "migration", "buffers", "validator", "pool", "loop",
             "heartbeat", "gateway"}

(* Every component but the one of program p rests. *)
Only(p) ==
  /\ prog = p /\ UNCHANGED prog
  /\ IF p = "ring" THEN TRUE ELSE UNCHANGED vars
  /\ IF p = "recovery" THEN TRUE ELSE UNCHANGED Recovery_vars
  /\ IF p = "migration" THEN TRUE ELSE UNCHANGED Migration_vars
  /\ IF p = "buffers" THEN TRUE ELSE UNCHANGED Buffers_vars
  /\ IF p = "validator" THEN TRUE ELSE UNCHANGED Validator_vars
  /\ IF p = "pool" THEN TRUE ELSE UNCHANGED Pool_vars
  /\ IF p = "loop" THEN TRUE ELSE UNCHANGED Loop_vars
  /\ IF p = "heartbeat" THEN TRUE ELSE UNCHANGED Heartbeat_vars
  /\ IF p = "gateway" THEN TRUE ELSE UNCHANGED Gateway_vars

(* A component that rests is in one of its initial states. *)
WebSocketInit ==
  /\ prog \in Programs
  /\ Init /\ Recovery!Init /\ Migration!Init /\ Buffers!Init /\ Validator!Init /\ Pool!Init
  /\ Loop!Init /\ Heartbeat!Init /\ Gateway!Init
  /\ prog # "recovery" => phase = "api"
  /\ prog # "migration" => pc["loop"] = "off"
  /\ prog # "buffers" => user = "pool"
  /\ prog # "validator" => is_server

WebSocketNext ==
  \/ Only("ring") /\ Next
  \/ Only("recovery") /\ Recovery!Next
  \/ Only("migration") /\ Migration!Next
  \/ Only("buffers") /\ Buffers!Next
  \/ Only("validator") /\ Validator!Next
  \/ Only("pool") /\ Pool!Next
  \/ Only("loop") /\ Loop!Next
  \/ Only("heartbeat") /\ Heartbeat!Next
  \/ Only("gateway") /\ Gateway!Next

(* The fairness of the program that runs. *)
WebSocketFairness ==
  /\ WF_(Recovery_vars)(prog = "recovery" /\ Recovery!MainNext)
  /\ WF_(Migration_vars)(prog = "migration" /\ Migration!Main)
  /\ WF_(Migration_vars)(prog = "migration" /\ Migration!Loop)
  /\ \A t \in {"first", "loop"} :
       /\ WF_(Migration_vars)(prog = "migration" /\ Migration!Connecting(t))
       /\ WF_(Migration_vars)(prog = "migration" /\ Migration!Resuming(t))
  /\ WF_(Loop_vars)(prog = "loop" /\ Loop!Server)
  /\ \A c \in Client : WF_(Loop_vars)(prog = "loop" /\ Loop!Receive(c))
  /\ \A s \in Session :
       /\ WF_(Gateway_vars)(prog = "gateway" /\ Gateway!Task(s))
       /\ WF_(Gateway_vars)(prog = "gateway" /\ Gateway!Redis(s))

websocket == <<prog, vars, Recovery_vars, Migration_vars, Buffers_vars, Validator_vars,
               Pool_vars, Loop_vars, Heartbeat_vars, Gateway_vars>>

WebSocketSpec == WebSocketInit /\ [][WebSocketNext]_websocket /\ WebSocketFairness

-----------------------------------------------------------------------------
(* WsRecovery: no message is written before an older one or twice, and a    *)
(* connection that is Connected has a stream.                               *)
RecoveryInv == Recovery!TypeOK /\ Recovery!ConnectedHasStream /\ Recovery!OrderKept

(* WsRecovery: the retries back off exponentially, main's are bounded, and  *)
(* its loop ends.                                                           *)
MainProgress ==
  []Recovery!BackoffFollowsRetries /\ Recovery!RetriesBounded /\ Recovery!LoopEnds

(* WsMigration: messages are written in order and at most once over all     *)
(* connections, those not written are queued, and the health checkers with  *)
(* the deaths they reported are no more than the connections opened.        *)
MigrationInv == /\ Migration!TypeOK /\ Migration!OrderedOnce
                /\ Migration!UnwrittenStayQueued /\ Migration!CheckersBounded

(* WsMigration: main gets to the end of its sends. *)
MainNotBlocked == prog = "migration" => Migration!MainNotBlocked

(* WsBuffers: frames come out whole and in order, bytes leave in order, and *)
(* pooled buffers are clean and have one owner.                             *)
BuffersFaithful == Buffers!FramesWhole /\ Buffers!BytesInOrder /\ Buffers!PoolClean

(* WsValidator: what is accepted between violations is whole messages. *)
MessagesWellFormed == Validator!MessagesWellFormed

(* WsPool: an object has one owner, the slices of an arena are apart. *)
PoolSafe == Pool!OneOwner /\ Pool!SlicesApart

(* WsEventLoop: every byte of a peer that stays comes back. *)
EveryByteEchoed == Loop!EveryByteEchoed

(* WsHeartbeat: no false alarm while the network delivers, and a cut is     *)
(* noticed in time.                                                         *)
HeartbeatSound == Heartbeat!HeartbeatSound

(* WsGateway: answers belong to the calls of the client that gets them. *)
AnswersBelong == Gateway!AnswersBelong

(* WsGateway: a client that has gone leaves the table of sessions. *)
Departs == Gateway!Departs
=============================================================================
