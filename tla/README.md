# Verification of uProtocols

uProtocols is a collection of communication protocols (CAN, I2C, SPI, MQTT, TCP/IP, WebSocket,
Protobuf and others): long documents, and beside them working example implementations, mostly in
Rust with C and C++ counterparts. This directory holds TLA+ models of the implementations that
carry real control logic, the TLC configurations that check them on small instances, and TLAPS
proofs for all instances of the most important ones.

Paths such as `CAN/src/17` are relative to the repository's root. The Rust version of an example
is the reference for its model; where the C or C++ version differs, this file says so.

## 1. Inventory

### Modelled

| Component | State it keeps | Operations | What is hard | What makes it correct |
|---|---|---|---|---|
| CAN ring buffer (`CAN/src/17`, `RingBuffer`) | slots behind `UnsafeCell`, atomic `head`, `tail`, `count` | `push`, `pop`, `peek`, `is_empty`, `is_full`, `clear` | an interrupt handler runs between any two accesses; index and counter are stored separately | a slot has one user at a time; FIFO; what is pushed is popped |
| CAN driver (`CAN/src/17`) | two rings, overflow counters, interrupt enable, last seen counters | `send_can_message`, `process_rx_messages`, the two interrupt handlers, `periodic_check`, `clear_buffers`, `reset_overflow_counters` | application interrupted anywhere; snapshots of moving counters | a queued message has its interrupt enabled; each refusal is reported once |
| CAN scheduler (`CAN/src/19`) | entries with timestamps, a heap of messages, the button's flag | the three ways of processing, `transmit_queue`, `main` | a flag consumed before anything is queued; reversed heap order | a press is answered; urgency decides |
| I2C multi-master (`I2C/src/09`) | two masters on two wires | `start`, `write_bit_with_arbitration`, `write_byte`, `read_byte`, `stop`, both retry loops | arbitration bit by bit, busy bus, errors without STOP | a loser lets go of the wires; calls return |
| I2C driver (`I2C/src/28`) | state field, open transaction | `write`, `read`, `write_read`, `recover` | every wait can fail in four ways | a transaction left open is reported |
| I2C bit-banged bus (`I2C/src/42`) | two open-drain pins | `start`, `stop`, bits and bytes | clock stretching | START and STOP are heard where they are made, nowhere else |
| I2C loopback tester (`I2C/src/44`) | controller flags, statistics | `initialize`, `write`, `read`, `test_pattern`, `run_test_suite` | a timeout at each flag | a finished test leaves the bus in order |
| I2C verifier (`I2C/src/45`) | limits and violations | the checks of `ProtocolVerifier` | units | a nominal clock passes (it does not) |
| I2C power (`I2C/src/47`) | peripheral and power state | `LowPowerI2C`, `LowPowerSensor`, `PeriodicReader` | calls that must alternate | a good cycle is counted (it is not) |
| SPI master and flash (`SPI/src/2`) | chip select, transaction | `transfer`, `write`, `read`, `wait_ready` | two transactions per write, busy chip | a page written to a ready flash is programmed |
| SPI timeouts (`SPI/src/31`) | data register, retry count, non-blocking state | `SpiDriver`, `NonBlockingSpi` | an answer after its timeout | an answer is the answer to its own byte |
| SPI batching (`SPI/src/36`) | buffers, address list | `SpiBatch`, `AutoBatch`, `SpiBatchManager`, `RegisterBatch`, `ChunkedTransfer`, `SensorBatcher` | failure in mid-batch | each byte once and in order; answers go to their addresses |
| SPI DMA (`SPI/src/38`) | two buffers, cache lines, DMA jobs | `transmit`, `receive`, `transfer` | the cache loads and writes back on its own | DMA and caller see the same bytes |
| MQTT limiter (`MQTT/src/47`) | token bucket, counters, MQTT client | `publish`, `print_stats`, refill, the client's thread | several mutexes, two readings of the clock, a bounded channel | the rate is kept; calls return and are accounted for |
| MQTT-SN gateway (`MQTT/src/57`) | topic maps, client map, next identifier | one handler per message type | repeated and late requests, identifiers that wrap | an identifier reaches the topic it was given for |
| Reliable UDP (`TCPIP/src/20`) | send window, sequence numbers, receive buffer, acknowledgement bits | `send`, `receive`, `process_acknowledgments`, `process_received_packet`, `process_retransmissions` | loss, duplication, reordering, retries | in order, at most once; nothing unacknowledged is overwritten; retries end |
| TCP state manager (`TCPIP/src/17`) | the tracked TCP state | `send_data`, `receive_data`, `shutdown_write`, `run_client`, `run_server` | half-closed connections, timeouts | the tracked state is the one the FINs make; both programs end |
| Closing sockets (`TCPIP/src/49`) | linger setting, unsent and unread data | `handle_client`, `graceful_close`, `ManagedSocket`, `SocketLinger` | a close may reset | nothing written is lost unasked |
| ARP (`TCPIP/src/52`) | cache with expiry, spoof detector | lookup, request, reply, static entries, expiry | stale entries, lost and late packets | a wrong address is bounded in time |
| WebSocket ring and queue (`WebSocket/src/20`) | slots and two positions; linked nodes, `head`, `tail`, `count` | `push`, `pop`, `len`; `enqueue` (many threads), `dequeue` (one), `drop` | raw pointers; compare-and-swap loops, lagging tail, reclamation, reused addresses | FIFO; no access to freed memory; no leak; lock freedom |
| Ping/pong (`WebSocket/src/08`) | waiting flag, last pong, interval | `handle_connection`, the client | two clocks, delays, a silent network | no false alarm; a cut is noticed |
| Buffers (`WebSocket/src/13`) | circular and growing buffers, pool | `append`, `consume`, `try_extract_frame`, `queue_send_data`, `acquire` | compaction, wrap-around, any split of the stream | frames whole, bytes in order, clean pooled buffers |
| Event-loop server (`WebSocket/src/17`) | client table, write buffers, poll registrations | `accept_connections`, `readable`, `writable`, `queue_write`, `run` | edge-triggered readiness | every byte is echoed |
| Connection migration (`WebSocket/src/30`) | state, session token, sequence numbers, unsent messages, attempts, missed pongs | `connect`, `handle_connection`, `send_message`, `flush_pending_messages`, `health_check_loop`, `reconnect_loop`, `main` | several tasks, two connections alive at once | each message at most once and in order; the unwritten stay queued |
| Memory pool (`WebSocket/src/32`) | objects, free list, handles, arena | `acquire`, `get_mut`, `drop`, `allocate`, `reset` | references that outlive the lock | one owner per object, slices apart |
| Error recovery (`WebSocket/src/36`) | state, stream, retry count, backoff, message buffer | `connect`, `reconnect`, `send`, `receive`, `disconnect`, `flush_message_buffer`, `main` | every call can fail in several ways | Connected implies a stream; order survives outages |
| Protocol validator (`WebSocket/src/37`) | fragmentation state | `process_frame` and its checks | control frames and violations inside a message | what is accepted is whole messages |
| Microservices gateway (`WebSocket/src/50`) | session table, a Redis connection per client | `handle_connection`, `call_service`, `publish_event`, the event subscriber | timeouts that leave a command behind, tasks on one table | answers reach their caller; clients that leave are forgotten |

The components interact little: each directory is a program of its own. Within a program the
interactions are calls of one thread or task against shared fields (driver and handlers over the
rings; connection threads and routing thread over the queue; publisher threads, statistics and the
MQTT client's thread over the mutexes; tokio tasks over the locks of the migration client and over
the gateway's session table), or messages between two ends (reliable UDP, TCP state manager, ARP,
heartbeat), or wires (I2C).

### Not modelled

PROJECT.json lists every component with the reason. In short:

* **Left for later**: the broker that joins queue and rings (`WebSocket/src/20`), the sliding-window
  and adaptive limiters of `MQTT/src/47`, SPI bit-banging (`SPI/src/12`), the per-mode I2C master
  (`I2C/src/08`), the WebSocket lifecycle (`WebSocket/src/07`) and authentication (`22`),
  length-prefixed Protobuf streams (`Protobuf/src/103`), the TCP poll servers (`TCPIP/src/06`).
* **Out of reach**: floating-point calculators (`I2C/src/16, 17`), the measurements of `I2C/src/42`,
  the battery estimate of `I2C/src/47`.
* **No state to speak of**: scanners, benchmarks, display driver, bus adapters and logging
  (`I2C/src/35, 41, 43, 46`), ping and traceroute, packet capture, byte-order examples, compression
  through a library, predicates on strings, logging servers, thread placement.
* **Parts of modelled files**: `CacheGuard` (`SPI/src/38`, unused), the byte encoding of ARP packets.
* **Documents only**: CommonAPI, DDS, Modbus, Profibus, REST, SomeIP, UART and gRPC have no source.

## 2. Modules

| Module | Models | Grain of a step |
|---|---|---|
| `BoundedFifo` | abstract: a FIFO queue of bounded capacity with one writer and one reader | one message in, one out |
| `CanRing`, `WsRing` | the two ring buffers | one access of a shared location |
| `CanDriver` | `CanBufferManager`, the interrupt handlers, `CanDiagnostics` | one shared access of the application; a whole handler |
| `CanScheduler` | the scheduler and its program | one processing pass, one transmission |
| `I2cMultiMaster` | two masters and the wires | one change or reading of a wire |
| `I2cDriver` | `I2cBus` with errors | one wait for a flag |
| `I2cBitBang` | the bit-banged bus, a stretching slave | one edge |
| `I2cLoopback` | `I2CLoopbackTester` | one wait for a flag |
| `I2cVerifier`, `I2cPower` | `ProtocolVerifier`; the low-power layers | one call |
| `SpiMaster` | `SPIMaster`, `SPIFlash`, a flash memory | one byte |
| `SpiTimeout`, `SpiBatch`, `SpiDma` | the drivers named so | one test of a flag; one call; one access by processor, cache or DMA |
| `MqttLimiter` | `TokenBucketRateLimiter`, `RateLimitedPublisher` | one lock, one reading of the clock, one call of the client |
| `MqttSnGateway` | the gateway's tables | one datagram |
| `ReliableUdp` | two endpoints and the network | one call |
| `TcpStateManager` | `run_client`, `run_server` and the two streams | one call |
| `Linger` | the ways of closing, the kernel's send queue | one call, one segment |
| `Arp` | hosts with cache and detector on a lossy link | one packet |
| `WsQueue` | `LockFreeQueue` with the allocator | one shared access |
| `WsHeartbeat` | server and client at the ends of a network, explicit time | one message, one tick |
| `WsBuffers`, `WsPool`, `WsValidator` | the data structures named so | one call |
| `WsEventLoop` | the mio server, peers, readiness queue | one system call |
| `WsMigration` | the migration client and its tasks | from one await to the next |
| `WsRecovery` | `WebSocketConnection`, buffer, backoff, `main` | one call, with the outcome the network gives it |
| `WsGateway` | client tasks, Redis, services, subscriber | from one await to the next |
| `Buses`, `Network`, `WebSockets` | the programs of a family, one at a time, and the properties of the runs | one step of the program that runs |
| `CanRing_proofs`, `CanDriver_proofs`, `WsRing_proofs`, `MqttLimiter_proofs`, `Buses_proofs`, `Network_proofs`, `WebSockets_proofs`, `WsQueue_proofs` | theorems (section 5) | |

Three modules put the programs of one family together: `Buses` (CAN, I2C, SPI), `Network` (the TCP/IP
programs and the MQTT-SN gateway) and `WebSockets`. Each extends one component, instantiates the
others and runs one program at a time: the variable `prog` says which one runs, the others rest in an
initial state, and the fairness is that of the program that runs. Their constants, with the named
assumptions the proofs rest on, are those of all their components. `MC*.cfg` files
give values to the constants of a run; an `MC*` module extends a model only where a value is not a
literal (`MCCanDriver`, `MCReliableUdp`, `MCWebSocket`, and `MCBuses` and `MCNetwork`, which extend
the first two). `*_proofs` modules extend a
model with its theorems, so what is proved is about the same definitions as what is checked. Definitions named `X_Something`, each just before `X`,
are plausible faults of `X`; no specification uses them. They are what the mutants in PROJECT.json
put in X's place to show that a property can fail.

Variables carry the names of the fields they stand for, where they have one. Program points are in
`pc`, `at`, `ppc` or `cpc`. History variables, which the code does not have, are marked in the
declarations (`delivered`, `written`, `received`, `stale`, `aba`, `gave_up`, `lost`, `misdirected` and the like).

Abstractions worth knowing:

* Memory is sequentially consistent. The rings and the queue use acquire/release pairs whose only
  role is to publish the slot written before; the models do not explore weaker orderings.
* `CanDriver` leaves out slot contents, which `CanRing` covers. A handler is one step because it
  runs to completion on the core of the application it interrupts.
* `WsQueue` models the heap: nodes are allocated and freed, and following a pointer to a freed node
  sets `undefined`, after which no further step is taken. Properties about the whole queue are
  claimed up to that moment; `ConsumerSafe` says the consumer is never the one that causes it. A
  freed address may be handed out again at once, as `Box` does. `stale` keeps who holds a copy of an
  address that was freed since, and `aba` becomes true when a compare-and-swap succeeds on such a
  copy, which can happen only if the address was given to a new node meanwhile. From then on `tail`
  may point outside the queue, and `QueueInv` and `AllArrive` claim nothing more (section 4).
* `ReliableUdp` keeps every packet ever sent in `net`; receiving picks any of them and removes
  none. Loss, duplication, delay and reordering need no actions of their own. Sequence numbers do
  not wrap. A packet's payload is either data or empty.
* `WsRecovery` writes a message completely or not at all: the fragment that a broken connection has
  taken of a message which is then buffered and sent again is left out, since the peer of a new
  stream never sees it.
* `MqttLimiter` counts tokens and time in whole units; `refill_rate` tokens accrue per unit.
* `TcpStateManager` takes the state of an end from the FINs it has sent and read (`TrueState`); the
  acknowledgement that separates FIN_WAIT_1 from FIN_WAIT_2 is not told apart from its absence.
* `WsMigration` lets the server send a token, a pong, a close or an acknowledgement of anything it
  was sent, at any time or never; `main`'s order and a program that starts the loop first are both
  initial states.
* `CanScheduler` keeps ages instead of timestamps and takes `main`'s hundred turns as endless.
* `I2cMultiMaster` has bytes of one bit in its run: arbitration is lost or won at any bit, and a byte
  is the same step repeated. Its slave, like those of the other bus models, answers as it likes.
* `WsEventLoop` counts bytes; a socket is reported when something it is registered for changes, or
  when it is registered while ready, as epoll does in edge-triggered mode (mio's mode). `poll` succeeds: an error, a signal for example,
  ends `run` (line 184), and nothing is claimed of that.
* `WsHeartbeat` counts time in units of 5 seconds, delays and lateness in at most one unit. The echo
  of a text or binary message is awaited in the same loop: it delays the next tick, and counts as
  lateness, so that `Lag` is also a bound on how long the peer may block such a write.
* `WsBuffers` unmasks a byte with the byte of the key that its place asks for. A 64-bit length close
  to the largest usize, for which the sum at line 321 overflows, is not among the forms.
* `WsGateway` lets Redis run the commands of one connection in order, a blocked BLPOP included.
* `Arp` loses a packet or delivers it within `MaxDelay`, in any order and also after the interface of
  its sender was exchanged. The clock is not set back, so that `SystemTime::elapsed` does not fail (an
  entry from the future counts as expired in the code).
* `Linger` lets `set_linger` and `shutdown` fail when the peer has reset the connection.

The abstract specification `BoundedFifo` is implemented by both rings: `RefinesFifo` maps the live
slots, oldest first, to the queue. In `CanRing` a push takes effect at its `fetch_add` and a pop at
its `fetch_sub`; in `WsRing` at the stores of the positions, so that a WebSocket ring of capacity C
is a queue of C - 1. `RefinesFairFifo` adds that a queued message is eventually handed over.

## 3. Runs

| Run | Distinct states | Properties |
|---|---|---|
| `ring` | 32 638 | `NoSlotRace`, `PeekIsNext`, `RefinesFairFifo` |
| `buses` | 94 747 | CAN driver: `NoLostKick`, `EachDropReportedOnce`, `RingConsistent`, `OldestLeaves`; scheduler: `SchedulerSound`; I2C: `MastersShare`, `LeftOpenIsReported`, `BetweenTests`, `HeardAsMeant`; SPI: `WriteTakesEffect`, `AnswersMatch`, `BatchFaithful`, `Coherent` |
| `websocket` | 144 300 | ring: `ExclusiveSlot`, `RefinesFifo`; `RecoveryInv`, `MainProgress`; `MigrationInv`, `MainNotBlocked`; `BuffersFaithful`; `MessagesWellFormed`; `PoolSafe`; `EveryByteEchoed`; `HeartbeatSound`; gateway: `AnswersBelong`, `Departs` |
| `ws_queue` | 572 454 | `QueueInv`, `AllArrive` |
| `network` | 292 044 | reliable UDP: `DeliveryInv`, `WindowSound`; `RightTopic`; `StaleIsBounded`; `TcpSound`; `NothingLost` |
| `mqtt_limiter` | 85 742 | `RateBound`, `CallsAccounted`, `CallsReturn` |
| `driver_clear`, `ws_queue_reclaim`, `rudp_ack`, `mqtt_lock_cycle`, `i2c_power_cycle`, `i2c_standard_mode` | violations | one property each, see section 4 |

Several properties are conjunctions, because their parts are claimed together:

* `QueueInv`: types; the consumer never follows a freed pointer; FIFO per producer; the tail stays
  in the queue; the counter is right at rest; nothing is leaked by `drop`. All of it until `aba`.
* `DeliveryInv`: types; packets are delivered in order and once; the receiver's bits tell the truth.
  `WindowSound`: an unacknowledged packet is not overwritten; retries end.
* `RecoveryInv`: types; Connected has a stream; order is kept.
  `MainProgress`: the backoff follows the retries, they are bounded and `main`'s loop ends.
* `MigrationInv`: types; over all connections each message is written at most once and in order; the
  queue holds exactly the numbers sent and not written yet; health checkers and the deaths they
  reported are together no more than the connections made.
* `MastersShare`: a master that returned or lost holds no line; every call returns.
* `SchedulerSound`: `main` answers each press; messages leave by urgency.
* `TcpSound`: each end believes the state that the FINs it sent and read put it in, with one named
  exception (section 4); nothing is written behind a FIN; both programs end.
* `BuffersFaithful`: frames whole and in order; bytes in order; pooled buffers clean and owned once.
* `BatchFaithful`: every accepted byte once and in order; every read gets its own answer.
* `PoolSafe`: one owner per object; slices of an arena apart.
* `HeartbeatSound`: no false alarm while the network delivers; a cut is noticed within 65 seconds.

### What the properties of the smaller programs exclude

* `LeftOpenIsReported`: after `write` and `read` an open transaction goes with an error and a state that
  is not Idle. `write_read` sets no state, finds its own transaction when it repeats START and leaves
  it open with Busy; `recover` answers Ok and says Idle whatever it found on the bus.
* `BetweenTests` speaks of tests that ran to their end, and of a free bus only if the pattern was not
  empty.
* `QueueInv` and `AllArrive` are claimed until `aba`, `AllArrive` also until `undefined`.
* `AnswersMatch` is claimed until the first timeout or transmit-only call, `Coherent` of the bytes
  sent until a transmit is followed by another call before the DMA is done, `BatchFaithful`'s answers
  for batches of reads without failure, `RightTopic` until the counter wraps, `HeardAsMeant` until
  `start` or `stop` goes on with the clock held low. In each case the code goes wrong afterwards and
  the model shows it; section 4 lists them.
* `Departs` excepts a task that waits behind the BLPOP of a call nobody ever answers.

### Bounds

The rings wrap around several times whatever N is; three slots and three messages give every
relation of head, tail and count (empty, partly filled, full, and full with a wrap), with messages
distinct enough to show a reordering. The CAN driver has two slots per ring and three refusals. In
the queue, two producers with two messages give lost races, a lagging tail, a tail swung by a
helper, a dequeue behind a lagging tail and the wrapped counter; five addresses are all that four
messages and the dummy can need, and each freed one is handed out again, so that stale copies meet
their address in a new node. In reliable UDP, a window of 2 makes slots be reused, a bitfield of
3 is wider than the window so that gaps and bits interact, and one retry reaches both the
retransmission and the giving up; four numbers are sent one way, one the other. In error recovery
the backoff reaches its cap (1, 2, 4, 4) and the buffer overflows (4 messages, 3 places). In the
limiter (2 threads, bucket of 2, channel of 1, 3 units of time, 5 calls) the bucket empties, refills,
overflows its size, and the channel is full while the client's thread fails. In the migration client
(3 messages, 3 connections, 2 attempts) two connections overlap and a third follows.

Two I2C masters with two retries meet in START, in a bit, in the acknowledgement and at a busy bus.
The loopback tester runs three tests of none to two bytes, so that a failed one is followed by others. The
bit-banged bus makes four calls, enough for a repeated START, with bytes of eight bits. The SPI programs get five to seven
bytes, more than their buffers hold; three DMA jobs let the third meet what the first left. The
scheduler has an entry more urgent and one less urgent than the button's. Three threads compete for
two pooled objects, three blocks of an arena are reset and used again, a ring of three bytes wraps
twice with six. Frames of 0, 1, 3 and 126 bytes, up to four in a sequence, reach every check of the
validator. Topic identifiers wrap at 4, after the properties had three identifiers for two topics.
Two ARP hosts, one of which changes its card once, with two packets under way, a delay of 1 and a
timeout of 2 make entries stale and expire, and let a packet from before the exchange arrive after
one from after it. In the
event loop one peer sends two bytes and another one, the send buffer holds one, so that a write
blocks. In the gateway one client makes two requests and the other one: a call that times out is
followed by another command, and two calls overlap.

**Deadlock** is checked except in `buses`, `websocket` and `network`, where the programs end, or stop
at a bound.

**Fairness.** Only liveness properties use it. It assumes that threads and tasks are scheduled and, in
three places said below, that the environment goes on: a write to a socket ends (WsMigration), a peer
reads (WsEventLoop), Redis runs (WsGateway):

* CanRing, CanDriver: an operation that was entered goes on (there is no loop or lock to hold it
  up); an enabled transmit interrupt is taken when the mailbox is free; the main loop keeps calling
  the receiving operation. The latter is strong fairness because the application is free to do
  something else in between, again and again.
* CanScheduler: `main` goes on. I2cMultiMaster: each master goes on; nothing is assumed of the slave.
* WsQueue: each thread keeps taking steps.
* ReliableUdp: `main` calls `process_retransmissions` repeatedly, so a slot that stays
  unacknowledged has its timeout pass; nothing is assumed of the network.
* TcpStateManager: both programs run, and the client's read, which has a timeout, ends while it is
  half closed. The server's reads have none and need none.
* WsRecovery: `main` is scheduled; nothing is assumed of the network, nor of a program that uses
  the methods in its own order.
* MqttLimiter: threads inside a call are scheduled; the client's thread takes requests until its
  connection fails. That it fails, or does not, is left open.
* WsMigration: the tasks are scheduled and a write to a socket ends, in success or in an error. The
  code has no timeout there: a peer that keeps the connection and never reads would hold the queue's
  lock, and `MainNotBlocked` excludes it.
  Nothing is assumed of what the server sends, nor of the health checkers.
* WsEventLoop: the server's thread runs, and a peer reads what has come.
* WsGateway: the tasks and Redis run, timers included; services may never answer.

## 4. Disagreements between code and text

Six runs show the code doing what a text of the repository excludes. PROJECT.json quotes the lines.

* `driver_clear`: `clear()` on a ring whose other side is an enabled interrupt leaves head, tail
  and count in permanent disagreement.
* `ws_queue_reclaim`: with two producers, `enqueue` can follow a tail pointer to a freed node.
  `WebSocket/docs/20_Lock_Free_Data_Structures.md:693` warns of the ABA problem, to which the queue is
  open as well: a producer stopped before its swing of `tail` (line 73) may find the address of its old
  tail in a new node, and then sets `tail` to a node the consumer has passed and freed. This is what
  `aba` marks in the model.
* `rudp_ack`: the acknowledgement number is the next number expected, and the sender takes it for
  the number of a packet that arrived; a lost packet is then never sent again.
* `mqtt_lock_cycle`: `publish` and `print_stats` lock the same two mutexes in opposite orders. The
  passing run keeps the two calls apart, as `main` does.
* `i2c_power_cycle`: `read_all_sensors` disables the peripheral and `sleep` disables it again, which
  is an error: no reading cycle is ever counted.
* `i2c_standard_mode`: the standard-mode limits are written in microseconds where nanoseconds are
  meant, so that a 100 kHz clock is refused.

Observed while modelling, present in the models unless said otherwise, without a run of their own:

* CAN: `periodic_check` after `reset_overflow_counters` subtracts a larger from a smaller number.
  `process_event_triggered` consumes a press that comes later than the deadline and sends nothing.
* I2C: the check for a free bus and START are not atomic (`09`). In `28` a timeout or a bus error while
  START or the last flag is waited for leaves the transaction without STOP, as does every failure of a
  data byte in `write_read` but a NACK or a lost arbitration; a NACK sends STOP (line 127). `recover`,
  an "Attempt bus recovery for stuck condition" (line 356), switches the peripheral off and on and
  sends neither STOP nor the nine pulses, whose line is commented out; its state then says Idle with
  the transaction open. A loopback test with an empty pattern (`44`) ends its read without STOP and
  passes.
* SPI: a write while the flash is busy is ignored and returns Ok (`2`); after a timeout the answers
  of later transfers are one byte late, and a non-blocking transfer with the shorter receive buffer
  waits until its timeout (`31`); the addresses of a failed batch shift the answers of
  the next, and a batch can be queued by half (`36`); `transmit` lets the next call refill the buffer
  the DMA still reads (`38`).
* MQTT: the adaptive limiter starts with a full bucket at each report (not modelled); a datagram with
  a length byte below 6 underflows in the gateway's CONNECT (`data[0] as usize - 6`, line 142; not
  modelled), and identifiers come round after 65536.
* TCP/IP: reliable UDP returns only the first payload when a filled gap releases several packets; its
  32-bit numbers are compared without regard to wrapping (not modelled). The server of `17` sends its
  farewell in CloseWait, where `send_data` refuses. Its client, half closed and in FinWait2, goes to
  CloseWait when it reads the server's FIN (line 106), where `TCPIP/docs/17_TCP_State_Machine.md:39-44`
  has TIME_WAIT and line 89 says of CLOSE_WAIT "local side must close too"; and it enters FinWait2
  after a sleep of 100 ms, with or without the acknowledgement line 85 speaks of. `StateTruthful`
  names the first as its exception and cannot see the second. `as_secs` turns a linger time under a second into
  an abortive close. A static ARP entry is overwritten by any packet of its host, a dynamic
  one by a packet from before an exchange that comes late; `resolve` asks nobody. The mio server of
  `06` says it "will continue later" at line 114 and drops the rest of the data (not modelled).
* Ping/pong: the pong is looked for only at the next tick, 30 seconds later, when the last pong is
  always older than the 10 seconds of `PONG_TIMEOUT`; that constant decides nothing.
* Buffers: `queue_send_data` that returns false has queued what fitted. The sum at line 321 overflows
  for a 64-bit length near the largest usize, and `MAX_FRAME_SIZE` is not used (not modelled).
* Event loop: a peer that shuts its side right after sending gets no echo of what it sent last.
* Broker: a message for a full ring is dropped (not modelled).
* Recovery: a message whose write fails during a flush has already left the buffer and is lost
  (`FlushFails`); `WebSocket/docs/36_Connection_Error_Recovery.md:1315` says that queuing "ensures
  no data loss". `OrderKept` is claimed until it happens. After the last retry `main`'s
  `while conn.reconnect().is_err()` spins; a failure that is not recoverable leaves the state
  Connecting, which nobody leaves.
* Migration: a message is popped when it is written (lines 234-241), before any acknowledgement, and no
  copy is kept: what was written to a connection that dies is lost. `WebSocket/docs/30_Connection_Migration.md`
  promises reconnection "without data loss" (line 11), that both sides "retransmit any lost messages"
  (21, 759) and that sequence numbers and queuing "prevent data loss" (780). An acknowledgement on the
  older connection may set `last_acked_sequence` back. A failed dial leaves the state Connecting, in which the reconnect loop only sleeps;
  a failed first write leaves the state Connected without a connection.
* Gateway: after a call that timed out, the next command waits behind its BLPOP without a limit, and
  the session of a client that has left stays in the table as long; a panic while the bridge is made
  leaves it there too.

## 5. Proofs

All theorems are about the specification of a model or of one of the three sums, for every value of
the constants that satisfies the named ASSUMEs. Those marked * state a part of the property that the
run checks; the rest of it is liveness.

| Theorem | Property | Component |
|---|---|---|
| `CanRing_proofs!RingInvariant`, `RaceFreedom`, `PeekAgrees`, `RingRefinesFifo` | `IInv`, `NoSlotRace`, `PeekIsNext`, `RefinesFifo` | CAN ring, every N > 0, every set of messages |
| `CanDriver_proofs!DriverTypes`, `NeverLostKick`, `DropsReportedOnce`, `RingsStayConsistent` | `TypeOK`, `NoLostKick`, `EachDropReportedOnce`, `RingConsistent` | CAN driver, all capacities, any bound on refusals |
| `WsRing_proofs!RingInvariant`, `SlotsExclusive`, `RingRefinesFifo` | `IInv`, `ExclusiveSlot`, `RefinesFifo` | WebSocket ring, every C > 0 |
| `MqttLimiter_proofs!BucketInvariant`, `RateKept`, `EveryCallAccounted` | `IInv`, `RateBound`, `CallsAccounted` | limiter, any finite set of threads, any rate and size; also when statistics are printed meanwhile |
| `Buses_proofs!OpenBusIsReported` | `LeftOpenIsReported` | I2C driver |
| `Buses_proofs!LoopbackBetweenTests` | `BetweenTests` | loopback tester, patterns of every size, empty ones included |
| `Buses_proofs!BitsAreHeardAsMeant` | `HeardAsMeant` | bit-banged bus, bytes of any number of bits |
| `Buses_proofs!ReadyWriteTakesEffect` | `WriteTakesEffect` | SPI flash |
| `Buses_proofs!AnswersAreOwn` | `AnswersMatch` | SPI timeouts, any lengths and retries |
| `Buses_proofs!BatchIsFaithful` | `BatchFaithful` | SPI batching, any sizes, thresholds and chunks |
| `Buses_proofs!DmaCoherent` | `Coherent` | SPI DMA, any buffers |
| `Buses_proofs!MastersLetGo` | `LetsGo`, * of `MastersShare` | I2C multi-master, any set of masters, bits, bytes and retries |
| `Buses_proofs!UrgentLeavesFirst` | `UrgentFirst`, * of `SchedulerSound` | CAN scheduler, any set of entries |
| `Network_proofs!PublicationsReachTheirTopic` | `RightTopic` | MQTT-SN gateway, any clients and topics |
| `Network_proofs!LookupsAreFresh` | `StaleIsBounded` | ARP, any hosts, any timeout, any delay of packets |
| `Network_proofs!NothingIsLost` | `NothingLost` | closing sockets |
| `Network_proofs!TcpStateIsTrue` | `StateTruthful`, * of `TcpSound` | TCP state manager |
| `Network_proofs!DeliveryIsInOrder`, `SlotsAreKept` | `DeliveryInv`; `NeverOverwritten`, * of `WindowSound` | reliable UDP, every window, bitfield and number of retries |
| `WebSockets_proofs!AnswersAreOwn` | `AnswersBelong` | gateway, any number of sessions and calls |
| `WebSockets_proofs!MessagesAreWhole` | `MessagesWellFormed` | validator, any sequence of frames |
| `WebSockets_proofs!PoolIsSafe` | `PoolSafe` | pool and arena, any finite set of threads, all sizes |
| `WebSockets_proofs!MigrationIsSound` | `MigrationInv` | migration, any number of messages, connections and attempts |
| `WebSockets_proofs!RecoveryKeepsOrder` | `RecoveryInv` | error recovery, any buffer and number of retries |
| `WebSockets_proofs!BackoffIsExponential` | `BackoffFollowsRetries`, * of `MainProgress` | error recovery, any first backoff and limit |
| `WebSockets_proofs!BuffersAreFaithful` | `BuffersFaithful` | buffers, any capacity, any stream cut anywhere |
| `WebSockets_proofs!HeartbeatIsSound` | `HeartbeatSound` | ping/pong, all intervals with room for a round trip |
| `WsQueue_proofs!QueueIsSound` | `QueueInv` | linked queue, any finite sets of producers and addresses, addresses reused at any moment |
| `WsQueue_proofs!SoleProducerIsSafe` | `NoUseAfterFree`, false with two producers | linked queue with one producer, any allocator |

### Assumptions

Sizes, bounds and times are natural numbers, positive where the code divides by them or would have
no slot (`NAssumption`, `CAssumption`, `CapAssumption`, `SizesAssumption`, `BuffersAssumption`); "no message" and "nobody" are no messages and no threads; thread sets are finite
where threads are counted. These say more, each from the code:

* `GatewayAssumption`: there are at least two topic identifiers (the code has 65536).
* `RecoveryAssumption`: `main` makes no more iterations than there are message numbers;
  `PoolAssumption`: no slice is longer than a block (the code would panic).
* `BackoffAssumption`: the first backoff does not exceed the limit (1 s and 32 s in `main`).
* `QueueAssumption`, `CountAssumption`: there is an address for the dummy node, `Null` is none, and the
  counter (a usize) is wider than the number of messages sent. Nothing is assumed of the allocator.
  `SoleProducerIsSafe` has the hypothesis `Sole`: one producer.
* `HeartbeatAssumption`: twice the delay and the lag fit in each interval; `PONG_TIMEOUT` and the lag
  fit in the server's interval; the client waits at least an interval and the lag. The constants of
  `WebSocket/src/08` (30 and 10 seconds, 20 and 40 seconds) leave room for a delay of 5 seconds and
  a lag of 5 seconds.

The sums need nothing beyond their components: a step of `Buses`, `Network` or `WebSockets` is a step
of a component or leaves its variables alone, which is one lemma per component (`HeartRuns` and the
like), and the argument is then that of the component.

### Arguments

None of the properties is inductive as stated, except `MessagesWellFormed`. What had to be added, and
why:

**The rings.** That producer and consumer never meet in a slot follows from where each stands. The
invariant says that the live slots are the `count` slots starting at the oldest one, that the producer
works on the first free slot while `count < N` and the consumer on the oldest while `count > 0`, and
that between the store of an index and the update of the counter the index is one ahead (`Oldest`,
`FirstFree`). `Slot(i, k)` is the slot k places after i, written without a remainder so that the
lemmas on it (`SuccIsSlot`, `SlotStep`, `SlotInjective`) are linear arithmetic. The two work on the
same slot only if `Slot(oldest, count) = oldest` with `0 < count < N`, which is impossible. The
refinement proof maps each step to a `Put`, a `Get` or a stuttering step by comparing `Contents`
entry by entry.

**The CAN driver.** `DriverInv` adds that the application takes a received message only when there
is one (nobody else takes them), and that the snapshot of the overflow counters lies between what was
reported and what was counted: a refusal in the middle of `periodic_check` is then neither lost nor
reported twice. `IndexInv` says where the indices are in the middle of a push or a pop, when they
disagree with the counter by the one message in question.

**The scheduler.** While `transmit_queue` runs, all that is queued is at most as urgent as what was
sent last; nothing is queued meanwhile.

**The token bucket.** `RateBound` looks at every span of time. `CreditInv` says: what was let through
since s, plus what the bucket holds, is at most `max_tokens + refill_rate * (upto - s)`, where `upto`
is the time up to which the bucket has been credited, that is `last_refill`, or the present between
the two readings of the clock in `refill`. A refill raises `tokens` and `upto` together, or caps at
`max_tokens`; consuming moves tokens to the left term; time that passes between the readings is
marked as credited although it was not, so the bound can only become looser. `LockInv` (the bucket is
touched under its mutex) makes the two readings of one thread undisturbed by the others.
`CallsAccounted` counts the threads on the way: a step moves one thread into that set, out of it or
neither, together with one counter.

**I2C.** `I2cInv` and `LoopbackInv` tie the place of a call to whether a transaction is open: when a
call returns Ok, or sets Idle, STOP has been requested at the step before, on the error paths that
lead there as well. `BitBangInv` says, for each place of each
call, what the two pins are and what the listener has heard, and holds for any number of bits because
a bit returns to the pins it started from. `MastersInv` says at which places a master is sure to let
SCL or SDA be high: `start` has released both before it looks at them, a bit is sent and read back with
SCL high, and an arbitration is lost only by who let SDA be high. From these places errors leave.

**SPI.** `TimeoutInv`: the answer that waits is that to the byte sent last, and there is one only if
no transfer was given up. `DmaInv`: while the DMA writes, no line of the buffer is in the cache; while
it reads, memory holds what the caller wrote. `FlashInv`: the bytes since chip select fell are the
first ones of the frame in progress, and the write enable latch is set before the second frame.
`BatchInv`: the bytes taken are, in order, those on the wire, those lost in failed transfers and
those in the buffer, and the queued reads stand where their addresses say.

**Network.** `GatewayInv`: until the counter comes round, each identifier in use is below it, so that
a new one is new, and what a client was told is what the map says. `LinkInv`: a packet tells
the present address of its sender, or the exchange is no longer ago than the packet has been under
way; so an entry tells the present address, or the exchange is no longer ago than its age and
`MaxDelay`. `ClosingInv`:
the kernel's linger setting is what the option says, and data is lost only by the peer's reset or the
program's. `TcpInv` gives for each place of both programs what is believed and which FINs have been
sent and read, and `TcpStreams` that a FIN is the last thing in its stream and that one that was read
had been written. `UdpInv` has three parts: a packet in slot i has a number that belongs there, one of
the last `WINDOW_SIZE` given; what was delivered is behind `recv_sequence`, what is buffered ahead of
it by less than the bitfield is wide; and packets on the network carry numbers that were given. Overwriting an
unacknowledged packet needs two numbers in the window with one remainder.

**WebSocket.** `GatewayInv`: while a task waits for an answer, its BLPOP is the only command of its
connection. `PoolInv`: an object is held by one thread or none, and is queued once if by none; the
counters, which wrap, differ by the number that is out. `ArenaInv`: what was given lies before the
place of the next slice. Migration: messages leave the queue only at the front, so that what is
written and what is queued are together the numbers from 0 on, and no acknowledgement finds in the
queue a message that it covers; for the checkers, each connection's is to come, running, left behind,
or has stopped with its report. Recovery: as long as no flush failed, Connected implies an empty
buffer, which is why a message written at once overtakes nothing. Buffers: place x of the circular
buffer lies x steps after the tail (`RingInv`); the frames not yet extracted lie one behind the other
in the unread bytes, which an offset for each of them witnesses (`StreamInv`); numbers of pooled
buffers are given once (`OwnedInv`). Heartbeat: until the cut, the pong an end waits for is on its way,
or its ping is, and has travelled at least as long as `Interval - Lag` less the time to the next tick;
a message older than `Delay` does not exist, so at a tick nothing is awaited. After the cut the wires
are empty, and the sum of the time since the cut and the time to the next tick counts the ticks.

Backoff: `Doubled` is the doubling without a limit, and the code applies the limit at every step; the
two agree because doubling what reached the limit stays there. `DoublingIsDefined` shows first that
the recursive definition of `Doubled` has a solution: a number up to which there is none would have a
least one below it, which `LeastNumber` takes from the well-foundedness of the order on the naturals.

**The linked queue.** `QInv(c, m)` speaks of two logs that no variable holds: the nodes ever linked, the
dummy first, and their messages. They grow at the end when `enqueue` links a node and never change
otherwise; the head is node `H`, one more than the messages received, and the queue is the part of the
log from `H` on. The parts say: the queued nodes are owned, distinct and linked in the order of the log
(`LinkInv`); a node not yet linked is known to its producer only (`PrivateInv`); a tail read earlier is
queued, retired or freed, and what was read behind it is what follows it in the log (`PointerInv`), so
that a late compare-and-swap helps or fails (a copy whose node was freed since is in `stale` and says
nothing any more; until `aba`, a compare-and-swap with it fails); tail never goes back behind what
`dequeue` read, which is why the head it frees is not the tail (`ConsumerInv`); each owned node is queued, retired or private,
so that `drop` leaks nothing (`HeapInv`); the messages of each producer are in the log once and in order
(`LogInv`); and the counter differs from the length by the threads between link and count, modulo its
width (`CountInv`). `QueueInv` follows the pointers with a recursive definition, `Chain`; that it yields
the log from `H` on is shown by a least position at which they would differ (`ChainUnique`,
`ChainIsLog`). With a sole producer `SoleInv` adds that tail lags only between that producer's link and
its swing, so that the pointer it holds is always the tail, which is owned.

### Only model-checked

* Liveness, which is beyond the prover: `RefinesFairFifo`, `OldestLeaves`, `AllArrive`, `CallsReturn`,
  `MainNotBlocked`, `EveryByteEchoed`, `Departs`, and the liveness parts of `MastersShare`,
  `SchedulerSound`, `MainProgress`, `WindowSound` and `TcpSound`. Every safety property of a passing
  run is stated by a theorem.
* The properties of the violation runs, which are false.

## 6. Plan

1. **Proofs**: none of the safety properties is left; the linked queue with a reclamation scheme
   (hazard pointers or epochs) in place of the exception `aba`, should the code get one.
2. **Models**: the broker as a composition of the queue and of one `BoundedFifo` per connection; the
   lifecycle of `WebSocket/src/07`; the sliding-window limiter; the four modes of `SPI/src/12` against
   a slave that samples at the opposite edge; the TCP poll servers as variants of `WsEventLoop`.
