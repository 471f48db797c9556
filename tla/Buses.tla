------------------------------- MODULE Buses -------------------------------
(***************************************************************************)
(* The bus drivers, one program at a time: `prog' says which one runs, the *)
(* state of the others rests.  CanDriver is extended; the other components *)
(* are instances.                                                          *)
(***************************************************************************)
EXTENDS CanDriver

CONSTANTS
  Master, a_retries, a_Bits, a_Bytes,                            \* I2cMultiMaster
  MaxSize, MaxTests,                                             \* I2cLoopback
  Bits, MaxCalls,                                                \* I2cBitBang
  Value, MaxLen, Limit,                                          \* SpiMaster
  t_retries, t_MaxBytes, t_Len,                                  \* SpiTimeout
  max_size, flush_threshold, chunk_size, MaxBytes,               \* SpiBatch
  MaxJobs,                                                       \* SpiDma
  Periodic, Button, period, deadline, MaxAge, MaxQueued          \* CanScheduler

ASSUME SizeAssumption == MaxSize \in Nat
ASSUME TimeoutAssumption == t_retries \in Nat /\ t_MaxBytes \in Nat /\ t_Len \in Nat
ASSUME BatchAssumption ==
  max_size \in Nat /\ flush_threshold \in Nat /\ chunk_size \in Nat /\ MaxBytes \in Nat
ASSUME SchedulerAssumption == Periodic \subseteq Nat /\ Button \in Nat   \* u32 identifiers

VARIABLES
  prog,
  master,                                                        \* I2cMultiMaster
  i2c, i2c_open, i2c_other,                                      \* I2cDriver
  lb_on, lb_ack, lb_open, lb_size, lb_at, lb_i, lb_errors, lb_stats, lb_last,  \* I2cLoopback
  todo, bits, calls, sda, scl, data, stretch, meant, heard, late,      \* I2cBitBang
  program, m_cs, frame, call, wel, wip, page, plain,             \* SpiMaster
  t_tx, t_rx, t_sent, spi, clean, got,                           \* SpiTimeout
  user, tx_buffer, rx_buffer, read_addresses, cs, n, wire, lost, results, regular, \* SpiBatch
  mem, line, dirty, d_at, method, d_n, tx_job, rx_job, d_sent, received, overrun,  \* SpiDma
  s_program, s_at, age, queued, pressed, s_last                  \* CanScheduler

Arbitration_vars == <<master>>
I2C_vars == <<i2c, i2c_open, i2c_other>>
Loopback_vars == <<lb_on, lb_ack, lb_open, lb_size, lb_at, lb_i, lb_errors, lb_stats,
  lb_last>>
BitBang_vars == <<todo, bits, calls, sda, scl, data, stretch, meant, heard, late>>
Flash_vars == <<program, m_cs, frame, call, wel, wip, page, plain>>
Timeout_vars == <<t_tx, t_rx, t_sent, spi, clean, got>>
Batch_vars == <<user, tx_buffer, rx_buffer, read_addresses, cs, n, wire, lost, results,
  regular>>
Dma_vars == <<mem, line, dirty, d_at, method, d_n, tx_job, rx_job, d_sent, received,
  overrun>>
Scheduler_vars == <<s_program, s_at, age, queued, pressed, s_last>>

Arbitration == INSTANCE I2cMultiMaster
  WITH max_retries <- a_retries, Bits <- a_Bits, Bytes <- a_Bytes
I2C == INSTANCE I2cDriver WITH open <- i2c_open, other <- i2c_other
Loopback == INSTANCE I2cLoopback
  WITH initialized <- lb_on, ack <- lb_ack, open <- lb_open, size <- lb_size, at <- lb_at,
       i <- lb_i, errors <- lb_errors, stats <- lb_stats, last <- lb_last
BitBang == INSTANCE I2cBitBang
Flash == INSTANCE SpiMaster WITH cs <- m_cs
Timeout == INSTANCE SpiTimeout
  WITH max_retries <- t_retries, MaxBytes <- t_MaxBytes, Len <- t_Len,
       tx <- t_tx, rx <- t_rx, sent <- t_sent
Batch == INSTANCE SpiBatch
Dma == INSTANCE SpiDma WITH at <- d_at, n <- d_n, sent <- d_sent
Scheduler == INSTANCE CanScheduler WITH program <- s_program, at <- s_at, last <- s_last

Programs == {"can", "arbitration", "i2c", "loopback", "bit_bang", "spi", "timeout", "batch",
             "dma", "scheduler"}

(* Every component but the one of program p rests. *)
Only(p) ==
  /\ prog = p /\ UNCHANGED prog
  /\ IF p = "can" THEN TRUE ELSE UNCHANGED vars
  /\ IF p = "arbitration" THEN TRUE ELSE UNCHANGED Arbitration_vars
  /\ IF p = "i2c" THEN TRUE ELSE UNCHANGED I2C_vars
  /\ IF p = "loopback" THEN TRUE ELSE UNCHANGED Loopback_vars
  /\ IF p = "bit_bang" THEN TRUE ELSE UNCHANGED BitBang_vars
  /\ IF p = "spi" THEN TRUE ELSE UNCHANGED Flash_vars
  /\ IF p = "timeout" THEN TRUE ELSE UNCHANGED Timeout_vars
  /\ IF p = "batch" THEN TRUE ELSE UNCHANGED Batch_vars
  /\ IF p = "dma" THEN TRUE ELSE UNCHANGED Dma_vars
  /\ IF p = "scheduler" THEN TRUE ELSE UNCHANGED Scheduler_vars

(* A component that rests is in one of its initial states. *)
BusesInit ==
  /\ prog \in Programs
  /\ Init /\ Arbitration!Init /\ I2C!Init /\ Loopback!Init /\ BitBang!Init /\ Flash!Init
  /\ Timeout!Init /\ Batch!Init /\ Dma!Init /\ Scheduler!Init
  /\ prog # "i2c" => ~i2c_other
  /\ prog # "timeout" => spi.api = "SpiDriver"
  /\ prog # "batch" => user = "manager"
  /\ prog # "scheduler" => s_program = "main"

BusesNext ==
  \/ Only("can") /\ Next
  \/ Only("arbitration") /\ Arbitration!Next
  \/ Only("i2c") /\ I2C!Next
  \/ Only("loopback") /\ Loopback!Next
  \/ Only("bit_bang") /\ BitBang!Next
  \/ Only("spi") /\ Flash!Next
  \/ Only("timeout") /\ Timeout!Next
  \/ Only("batch") /\ Batch!Next
  \/ Only("dma") /\ Dma!Next
  \/ Only("scheduler") /\ Scheduler!Next

(* The fairness of the program that runs. *)
BusesFairness ==
  /\ WF_vars(prog = "can" /\ (SendHead \/ SendCount \/ SendEnable \/ ReceiveTail
                              \/ ReceiveCount \/ CheckReport))
  /\ WF_vars(prog = "can" /\ TxIrq)
  /\ SF_vars(prog = "can" /\ ReceiveCheck)
  /\ \A m \in Master : WF_(Arbitration_vars)(prog = "arbitration" /\ Arbitration!Step(m))
  /\ WF_(Scheduler_vars)(prog = "scheduler" /\ Scheduler!Main)

buses == <<prog, vars, Arbitration_vars, I2C_vars, Loopback_vars, BitBang_vars, Flash_vars,
           Timeout_vars, Batch_vars, Dma_vars, Scheduler_vars>>

BusesSpec == BusesInit /\ [][BusesNext]_buses /\ BusesFairness

-----------------------------------------------------------------------------
(* I2cMultiMaster: a master that has returned or lost holds no line low, so *)
(* that every transfer with retries returns, won or lost.                   *)
MastersShare == []Arbitration!LetsGo /\ Arbitration!CallsEnd

(* I2cDriver: a call that leaves its transaction open has failed, and the  *)
(* state says so until write_read() or recover() is called.                *)
LeftOpenIsReported == I2C!LeftOpenIsReported

(* I2cLoopback: a test of some bytes that ran to its end leaves bus and ACK *)
(* in order.                                                                *)
BetweenTests == Loopback!BetweenTests

(* I2cBitBang: listeners hear START and STOP where the master makes them. *)
HeardAsMeant == BitBang!HeardAsMeant

(* SpiMaster: a page written to a ready flash is programmed. *)
WriteTakesEffect == Flash!WriteTakesEffect

(* SpiTimeout: a transfer returns the answers to its own bytes. *)
AnswersMatch == Timeout!AnswersMatch

(* SpiBatch: every byte goes once and in order, and every read gets its answer. *)
BatchFaithful == Batch!EachByteOnce /\ Batch!ReadsMatch

(* SpiDma: memory and cache agree wherever the DMA or the caller looks. *)
Coherent == Dma!Coherent

(* CanScheduler: main() answers every press of the button, and messages     *)
(* leave the queue by urgency.                                              *)
SchedulerSound == Scheduler!PressAnswered /\ Scheduler!UrgentFirst
=============================================================================
