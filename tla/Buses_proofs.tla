---------------------------- MODULE Buses_proofs ----------------------------
(***************************************************************************)
(* Proofs about the bus drivers of Buses, for every value of the constants. *)
(* Each component has an inductive invariant, shown for its own Init and    *)
(* Next; a step of Buses is a step of that component or leaves it alone.    *)
(***************************************************************************)
EXTENDS Buses, Integers, SequenceTheorems, TLAPS

-----------------------------------------------------------------------------
(* I2cDriver: the driver's record and the state of the bus. *)
I2cRecord ==
  [state : {"Idle", "Transmit", "Receive", "Error"},
   method : {"none", "write", "read", "write_read"},
   at : {"none", "start", "started", "address", "tx", "finish", "restart",
         "restarted", "read_address", "rx", "last"},
   last : {"none", "write", "read", "write_read", "recover"},
   result : {"Ok", "Busy", "InvalidParam"} \cup I2C!WaitError]

I2cTypeOK ==
  /\ i2c \in I2cRecord
  /\ i2c_open \in BOOLEAN /\ i2c_other \in BOOLEAN

(* A call in progress has a method, and its state tells that it is not idle; *)
(* at its last step the transaction has been ended.                         *)
I2cInv ==
  /\ I2cTypeOK
  /\ i2c.at = "none" <=> i2c.method = "none"
  /\ i2c.at = "last" => ~i2c_open
  /\ i2c.method = "write" => i2c.state = "Transmit"
  /\ i2c.method = "read" => i2c.state = "Receive"
  /\ I2C!LeftOpenIsReported

LEMMA I2cInit == I2C!Init => I2cInv
<1> SUFFICES ASSUME I2C!Init PROVE I2cInv
  OBVIOUS
<1>1. i2c_open \in BOOLEAN /\ i2c_other \in BOOLEAN
  BY Zenon DEF I2C!Init
<1>. QED
  BY <1>1 DEF I2C!Init, I2cInv, I2cTypeOK, I2cRecord, I2C!LeftOpenIsReported

LEMMA I2cReturned ==
  ASSUME i2c \in I2cRecord, NEW s \in {"Idle", "Error"}, NEW e \in I2C!WaitError,
         I2C!Return(s, e)
  PROVE  /\ i2c' \in I2cRecord /\ i2c'.state = s /\ i2c'.method = "none" /\ i2c'.at = "none"
         /\ i2c'.result = e
BY DEF I2cRecord, I2C!Return

LEMMA I2cNext == I2cInv /\ [I2C!Next]_(I2C!vars) => I2cInv'
<1> SUFFICES ASSUME I2cInv, [I2C!Next]_(I2C!vars) PROVE I2cInv'
  OBVIOUS
<1> USE DEF I2cInv, I2cTypeOK, I2cRecord, I2C!LeftOpenIsReported
<1>1. CASE I2C!OtherMaster
  <2>1. i2c_open' \in BOOLEAN /\ i2c_other' \in BOOLEAN
    BY <1>1, Zenon DEF I2C!OtherMaster
  <2>2. UNCHANGED <<i2c, i2c_open>>
    BY <1>1, Zenon DEF I2C!OtherMaster
  <2>. QED  BY <2>1, <2>2
<1>2. CASE I2C!WaitFails
  <2>1. PICK e \in I2C!WaitError :
           \/ I2C!Return("Idle", e) /\ i2c_open' = FALSE
           \/ /\ I2C!Return("Error", e)
              /\ i2c_open' = (i2c_open /\ e \in {"BusError", "Timeout"})
    BY <1>2, Zenon DEF I2C!WaitFails, I2C!stop, I2C!Stopped, I2C!OpenAfter
  <2>2. i2c_other' \in BOOLEAN /\ i2c_open' \in BOOLEAN /\ i2c.method # "none"
    BY <1>2, <2>1, Zenon DEF I2C!WaitFails
  <2>3. CASE I2C!Return("Idle", e) /\ i2c_open' = FALSE
    <3>1. ~i2c_open'
      BY <2>3
    <3>2. i2c \in I2cRecord /\ I2C!Return("Idle", e)
      BY <2>3
    <3> HIDE DEF I2cRecord
    <3>3. i2c' \in I2cRecord /\ i2c'.state = "Idle" /\ i2c'.method = "none" /\ i2c'.at = "none"
      BY <3>2, I2cReturned
    <3>. QED  BY <2>2, <3>1, <3>3
  <2>4. CASE /\ I2C!Return("Error", e)
             /\ i2c_open' = (i2c_open /\ e \in {"BusError", "Timeout"})
    <3>1. i2c \in I2cRecord
      OBVIOUS
    <3> HIDE DEF I2cRecord
    <3>2. /\ i2c' \in I2cRecord /\ i2c'.state = "Error" /\ i2c'.method = "none"
          /\ i2c'.at = "none" /\ i2c'.result = e
      BY <2>4, <3>1, I2cReturned
    <3>3. I2cTypeOK'
      BY <2>2, <3>2, Zenon
    <3>4. i2c_open' => e \in {"BusError", "Timeout"}
      BY <2>4
    <3> HIDE DEF I2cTypeOK
    <3>. QED  BY <3>2, <3>3, <3>4
  <2>. QED  BY <2>1, <2>3, <2>4
<1>3. CASE I2C!WaitOk
  <2>1. PICK x \in I2C!Then(i2c.at) :
          i2c' = [i2c EXCEPT !.at = x] /\ i2c_open' = (i2c_open /\ x # "last")
    BY <1>3, Zenon DEF I2C!WaitOk
  <2>2. i2c_other' \in BOOLEAN /\ i2c_open' \in BOOLEAN
    BY <1>3, <2>1, Zenon DEF I2C!WaitOk
  <2>3. /\ x \in {"address", "rx", "last", "tx", "finish", "restart", "read_address"}
        /\ i2c.at # "none"
    BY <2>1 DEF I2C!Then
  <2>4. x = "last" => ~i2c_open'
    BY <2>1
  <2>5. i2c_open' => i2c_open
    BY <2>1
  <2>6. /\ i2c'.at = x /\ i2c'.method = i2c.method /\ i2c'.state = i2c.state
        /\ i2c'.last = i2c.last /\ i2c'.result = i2c.result
    BY <2>1
  <2>. QED  BY <2>1, <2>2, <2>3, <2>4, <2>5, <2>6
<1>4. CASE I2C!ByteNack
  <2>1. i2c_open' = FALSE /\ i2c_other' = i2c_other /\ I2C!Return("Error", "Nack")
    BY <1>4, Zenon DEF I2C!ByteNack
  <2>2. i2c_open' \in BOOLEAN /\ i2c_other' \in BOOLEAN /\ ~i2c_open'
    BY <2>1, Zenon
  <2>3. i2c \in I2cRecord /\ "Nack" \in I2C!WaitError
    BY DEF I2C!WaitError
  <2> HIDE DEF I2cRecord
  <2>4. i2c' \in I2cRecord /\ i2c'.state = "Error" /\ i2c'.method = "none" /\ i2c'.at = "none"
    BY <2>1, <2>3, I2cReturned
  <2>. QED  BY <2>2, <2>4
<1>5. CASE I2C!Call
  BY <1>5 DEF I2C!Call
<1>6. CASE I2C!InvalidParam
  BY <1>6 DEF I2C!InvalidParam
<1>7. CASE I2C!StartBusy
  BY <1>7 DEF I2C!StartBusy, I2C!Return
<1>8. CASE I2C!StartFree
  BY <1>8 DEF I2C!StartFree
<1>9. CASE I2C!WriteDone
  BY <1>9 DEF I2C!WriteDone, I2C!Return, I2C!stop, I2C!Stopped
<1>10. CASE I2C!ReadDone
  BY <1>10 DEF I2C!ReadDone, I2C!Return
<1>11. CASE I2C!recover
  BY <1>11 DEF I2C!recover
<1>12. CASE UNCHANGED I2C!vars
  BY <1>12 DEF I2C!vars
<1>. QED
  BY <1>1, <1>2, <1>3, <1>4, <1>5, <1>6, <1>7, <1>8, <1>9, <1>10, <1>11, <1>12 DEF I2C!Next

LEMMA I2cRuns == [BusesNext]_buses => [I2C!Next]_(I2C!vars)
BY DEF BusesNext, buses, Only, I2C_vars, I2C!vars

(* Whatever call fails at whatever step, and whatever another master does:   *)
(* write() and read() leave no transaction open without an error and a state *)
(* that is not Idle.  recover() may: it sends no STOP.                       *)
THEOREM OpenBusIsReported == BusesSpec => []LeftOpenIsReported
<1>1. BusesInit => I2cInv
  BY I2cInit DEF BusesInit
<1>2. I2cInv /\ [BusesNext]_buses => I2cInv'
  BY I2cNext, I2cRuns
<1>3. I2cInv => LeftOpenIsReported
  BY DEF I2cInv, LeftOpenIsReported
<1>. QED
  BY <1>1, <1>2, <1>3, PTL DEF BusesSpec

-----------------------------------------------------------------------------
(* I2cLoopback: the test in progress and the byte it is at. *)
LoopbackInv ==
  /\ lb_at \in {"idle", "SB", "ADDR", "TXE", "BTF", "read_SB", "read_ADDR", "RXNE"}
  /\ lb_i \in Nat /\ lb_size \in Nat
  /\ lb_at \notin {"TXE", "RXNE"} => lb_i = 0
  /\ lb_at \in {"TXE", "RXNE"} => lb_i < lb_size
  /\ lb_at = "RXNE" /\ lb_i = lb_size - 1 => ~lb_open
  /\ lb_at # "idle" /\ lb_at # "RXNE" => lb_errors = {}
  /\ Loopback!BetweenTests

LEMMA LoopbackInit == Loopback!Init => LoopbackInv
BY SizeAssumption DEF Loopback!Init, LoopbackInv, Loopback!BetweenTests

LEMMA LoopbackNext == LoopbackInv /\ [Loopback!Next]_(Loopback!vars) => LoopbackInv'
<1> SUFFICES ASSUME LoopbackInv, [Loopback!Next]_(Loopback!vars) PROVE LoopbackInv'
  OBVIOUS
<1> USE SizeAssumption DEF LoopbackInv, Loopback!BetweenTests
<1>1. CASE Loopback!initialize
  BY <1>1 DEF Loopback!initialize
<1>2. CASE Loopback!disable
  BY <1>2 DEF Loopback!disable
<1>3. CASE Loopback!reset_statistics
  BY <1>3 DEF Loopback!reset_statistics
<1>4. CASE Loopback!test_pattern
  BY <1>4 DEF Loopback!test_pattern
<1>5. CASE Loopback!Started \/ Loopback!Addressed \/ Loopback!Written \/ Loopback!ReadStarted
  BY <1>5 DEF Loopback!Started, Loopback!Addressed, Loopback!Written, Loopback!ReadStarted
<1>6. CASE Loopback!ByteSent
  BY <1>6 DEF Loopback!ByteSent
<1>7. CASE Loopback!ReadAddressed
  BY <1>7 DEF Loopback!ReadAddressed, Loopback!BeforeByte
<1>12. CASE Loopback!ReadNothing
  BY <1>12 DEF Loopback!ReadNothing
<1>8. CASE Loopback!ByteRead
  BY <1>8 DEF Loopback!ByteRead, Loopback!BeforeByte
<1>9. CASE Loopback!Verified
  BY <1>9 DEF Loopback!Verified
<1>10. CASE Loopback!TimedOut
  <2>1. lb_at' = "idle" /\ lb_i' = 0 /\ lb_last' = "Timeout" /\ lb_errors' = {}
        /\ UNCHANGED <<lb_ack, lb_open, lb_size>>
    BY <1>10, Zenon DEF Loopback!TimedOut
  <2>. QED  BY <2>1
<1>11. CASE UNCHANGED Loopback!vars
  BY <1>11 DEF Loopback!vars
<1>. QED
  BY <1>1, <1>2, <1>3, <1>4, <1>5, <1>6, <1>7, <1>8, <1>9, <1>10, <1>11, <1>12
     DEF Loopback!Next

LEMMA LoopbackRuns == [BusesNext]_buses => [Loopback!Next]_(Loopback!vars)
BY DEF BusesNext, buses, Only, Loopback_vars, Loopback!vars

(* A loopback test of some bytes that ran to its end leaves the bus free    *)
(* and ACK on, for buffers of every size and any sequence of tests.         *)
THEOREM LoopbackBetweenTests == BusesSpec => []BetweenTests
<1>1. BusesInit => LoopbackInv
  BY LoopbackInit DEF BusesInit
<1>2. LoopbackInv /\ [BusesNext]_buses => LoopbackInv'
  BY LoopbackNext, LoopbackRuns
<1>3. LoopbackInv => BetweenTests
  BY DEF LoopbackInv, BetweenTests
<1>. QED
  BY <1>1, <1>2, <1>3, PTL DEF BusesSpec

-----------------------------------------------------------------------------
(* SpiTimeout: the fields of a transfer. *)
SpiType == [api : {"SpiDriver", "NonBlockingSpi"},
            method : {"none", "transmit", "receive_byte", "transfer", "with_retry"},
            at : {"Idle", "txe", "bsy", "rxne", "WaitingTxEmpty", "WaitingRxData",
                  "Complete", "TimedOut"},
            left : Nat, room : Nat, len : Nat, attempts : Nat]

TimeoutTypeOK ==
  /\ t_tx \in Nat /\ t_rx \in Nat /\ t_sent \in Nat /\ got \in Nat \X Nat
  /\ spi \in SpiType

(* The answer that waits in the receive register is that to the byte sent    *)
(* last, unless a transfer was given up before.                             *)
TimeoutInv ==
  /\ TimeoutTypeOK
  /\ spi.at \in {"txe", "bsy", "rxne", "WaitingRxData"} => spi.left > 0
  /\ spi.method # "none" => spi.len > 0
  /\ spi.api = "SpiDriver" => spi.at \in {"Idle", "txe", "bsy", "rxne"}
                              /\ (spi.at = "Idle" <=> spi.method = "none")
  /\ spi.api = "NonBlockingSpi" => spi.at \notin {"txe", "bsy", "rxne"}
  /\ clean /\ spi.at \in {"Idle", "txe", "WaitingTxEmpty", "Complete"} => t_tx = 0 /\ t_rx = 0
  /\ clean /\ spi.at \in {"rxne", "WaitingRxData"} =>
       \/ t_tx = t_sent /\ t_rx = 0
       \/ t_tx = 0 /\ t_rx = t_sent
  /\ Timeout!AnswersMatch

LEMMA TimeoutInit == Timeout!Init => TimeoutInv
BY DEF Timeout!Init, TimeoutInv, TimeoutTypeOK, SpiType, Timeout!AnswersMatch

LEMMA NextByteType ==
  ASSUME spi \in SpiType, Timeout!NextByte
  PROVE  /\ spi' \in SpiType
         /\ spi'.api = spi.api /\ spi'.len = spi.len
         /\ \/ spi'.at = "txe" /\ spi'.left > 0 /\ spi'.method = spi.method
            \/ spi'.at = "Idle" /\ spi'.method = "none"
<1>1. CASE spi.left > 1
  <2>1. spi' = [spi EXCEPT !.left = spi.left - 1, !.at = "txe"]
    BY <1>1 DEF Timeout!NextByte
  <2>2. PICK l \in Nat : l = spi.left - 1 /\ l > 0
    BY <1>1 DEF SpiType
  <2>3. spi' = [spi EXCEPT !.left = l, !.at = "txe"]
    BY <2>1, <2>2
  <2>. QED  BY <2>2, <2>3 DEF SpiType
<1>2. CASE ~(spi.left > 1)
  <2>1. spi' = [spi EXCEPT !.left = 0, !.at = "Idle", !.method = "none"]
    BY <1>2 DEF Timeout!NextByte
  <2>. QED  BY <2>1 DEF SpiType
<1>. QED  BY <1>1, <1>2

LEMMA TimeoutNext == TimeoutInv /\ [Timeout!Next]_(Timeout!vars) => TimeoutInv'
<1> SUFFICES ASSUME TimeoutInv, [Timeout!Next]_(Timeout!vars) PROVE TimeoutInv'
  OBVIOUS
<1> USE TimeoutAssumption DEF TimeoutInv, TimeoutTypeOK, Timeout!AnswersMatch, Timeout!Blocking
<1>1. CASE Timeout!Shift
  BY <1>1 DEF Timeout!Shift
<1>2. CASE Timeout!Call
  <2>1. PICK m \in {"transmit", "receive_byte", "transfer", "with_retry"}, k \in 1 .. t_Len :
          spi' = [spi EXCEPT !.method = m, !.at = "txe", !.left = k, !.len = k,
                             !.attempts = 0]
    BY <1>2, Zenon DEF Timeout!Call
  <2>2. spi.method = "none" /\ spi.api = "SpiDriver"
        /\ UNCHANGED <<t_tx, t_rx, t_sent, clean, got>>
    BY <1>2, Zenon DEF Timeout!Call
  <2>3. k \in Nat /\ k > 0
    OBVIOUS
  <2>4. spi' \in SpiType
    BY <2>1, <2>3 DEF SpiType
  <2>5. spi'.at = "txe" /\ spi'.left = k /\ spi'.len = k /\ spi'.method = m
        /\ spi'.api = "SpiDriver"
    BY <2>1, <2>2 DEF SpiType
  <2>. QED  BY <2>2, <2>3, <2>4, <2>5
<1>3. CASE Timeout!WriteByte
  BY <1>3 DEF Timeout!WriteByte, Timeout!Write, SpiType
<1>4. CASE Timeout!Transmitted
  <2>1. Timeout!NextByte /\ ~clean' /\ UNCHANGED <<t_tx, t_rx, t_sent, got>>
    BY <1>4 DEF Timeout!Transmitted
  <2>2. spi.api = "SpiDriver" /\ spi.at = "bsy"
    BY <1>4 DEF Timeout!Transmitted
  <2>. QED  BY <2>1, <2>2, NextByteType
<1>5. CASE Timeout!ReadByte
  <2>1. Timeout!NextByte /\ Timeout!Read /\ UNCHANGED <<t_tx, t_sent, clean>>
    BY <1>5 DEF Timeout!ReadByte
  <2>2. spi.api = "SpiDriver" /\ spi.at = "rxne"
    BY <1>5 DEF Timeout!ReadByte
  <2>. QED  BY <2>1, <2>2, NextByteType DEF Timeout!Read
<1>6. CASE Timeout!Timeout
  <2>1. ~clean' /\ UNCHANGED <<t_tx, t_rx, t_sent, got>> /\ spi.api = "SpiDriver"
        /\ spi.at # "Idle"
    BY <1>6 DEF Timeout!Timeout
  <2>2. CASE spi.method = "with_retry" /\ spi.attempts < t_retries
    <3>1. spi' = [spi EXCEPT !.attempts = @ + 1, !.at = "txe", !.left = spi.len]
      BY <1>6, <2>2 DEF Timeout!Timeout
    <3>2. spi' \in SpiType
      <4>1. PICK k \in Nat, l \in Nat : k = spi.attempts + 1 /\ l = spi.len
        BY DEF SpiType
      <4>2. spi' = [spi EXCEPT !.attempts = k, !.at = "txe", !.left = l]
        BY <3>1, <4>1
      <4>. QED  BY <4>2 DEF SpiType
    <3>3. spi'.at = "txe" /\ spi'.left = spi.len /\ spi'.len = spi.len
          /\ spi'.method = spi.method /\ spi'.api = spi.api
      BY <3>1 DEF SpiType
    <3>. QED  BY <2>1, <2>2, <3>2, <3>3
  <2>3. CASE ~(spi.method = "with_retry" /\ spi.attempts < t_retries)
    <3>1. spi' = [spi EXCEPT !.method = "none", !.at = "Idle", !.left = 0]
      BY <1>6, <2>3 DEF Timeout!Timeout
    <3>2. spi' \in SpiType
      BY <3>1 DEF SpiType
    <3>3. spi'.at = "Idle" /\ spi'.method = "none" /\ spi'.api = spi.api
      BY <3>1 DEF SpiType
    <3>. QED  BY <2>1, <3>2, <3>3
  <2>. QED  BY <2>2, <2>3
<1>7. CASE Timeout!start_transfer
  <2>1. PICK k \in 0 .. t_Len, r \in 0 .. t_Len :
          spi' = [spi EXCEPT !.at = "WaitingTxEmpty", !.left = k, !.room = r]
    BY <1>7, Zenon DEF Timeout!start_transfer
  <2>2. spi.at = "Idle" /\ spi.api # "SpiDriver"
        /\ UNCHANGED <<t_tx, t_rx, t_sent, clean, got>>
    BY <1>7 DEF Timeout!start_transfer
  <2>3. k \in Nat /\ r \in Nat
    OBVIOUS
  <2>4. spi' \in SpiType
    BY <2>1, <2>3 DEF SpiType
  <2>5. spi'.at = "WaitingTxEmpty" /\ spi'.left = k /\ spi'.len = spi.len
        /\ spi'.method = spi.method /\ spi'.api = spi.api
    BY <2>1, <2>2 DEF SpiType
  <2>. QED  BY <2>2, <2>3, <2>4, <2>5
<1>8. CASE Timeout!PollTimeout
  BY <1>8 DEF Timeout!PollTimeout, SpiType
<1>9. CASE Timeout!PollTx
  BY <1>9 DEF Timeout!PollTx, Timeout!Write, SpiType
<1>10. CASE Timeout!PollRx
  <2>1. Timeout!Read /\ UNCHANGED <<t_tx, t_sent, clean>>
    BY <1>10 DEF Timeout!PollRx
  <2>2. spi.at = "WaitingRxData" /\ spi.api # "SpiDriver" /\ spi.room > 0
    BY <1>10 DEF Timeout!PollRx
  <2>3. PICK a \in {"WaitingTxEmpty", "Complete"} :
          /\ spi' = [spi EXCEPT !.left = spi.left - 1, !.room = spi.room - 1, !.at = a]
          /\ a = "WaitingTxEmpty" => spi.left > 1
    BY <1>10 DEF Timeout!PollRx, SpiType
  <2>4. spi' \in SpiType
    <3>1. PICK l \in Nat, r \in Nat : l = spi.left - 1 /\ r = spi.room - 1
      BY <2>2 DEF SpiType
    <3>2. spi' = [spi EXCEPT !.left = l, !.room = r, !.at = a]
      BY <2>3, <3>1
    <3>. QED  BY <3>2 DEF SpiType
  <2>5. spi'.at = a /\ spi'.left = spi.left - 1 /\ spi'.len = spi.len
        /\ spi'.method = spi.method /\ spi'.api = spi.api
    BY <2>3 DEF SpiType
  <2>6. spi.left \in Nat
    BY DEF SpiType
  <2>. QED  BY <2>1, <2>2, <2>3, <2>4, <2>5, <2>6 DEF Timeout!Read
<1>11. CASE Timeout!reset
  <2>1. spi' = [spi EXCEPT !.at = "Idle", !.left = 0] /\ UNCHANGED <<t_tx, t_rx, t_sent, got>>
        /\ spi.api # "SpiDriver"
    BY <1>11 DEF Timeout!reset
  <2>2. clean' => clean /\ spi.at \in {"Idle", "Complete"}
    BY <1>11, Zenon DEF Timeout!reset
  <2>3. spi' \in SpiType
    BY <2>1 DEF SpiType
  <2>4. spi'.at = "Idle" /\ spi'.method = spi.method /\ spi'.len = spi.len
        /\ spi'.api = spi.api
    BY <2>1 DEF SpiType
  <2>. QED  BY <2>1, <2>2, <2>3, <2>4
<1>12. CASE UNCHANGED Timeout!vars
  BY <1>12 DEF Timeout!vars
<1>. QED
  BY <1>1, <1>2, <1>3, <1>4, <1>5, <1>6, <1>7, <1>8, <1>9, <1>10, <1>11, <1>12
     DEF Timeout!Next

LEMMA TimeoutRuns == [BusesNext]_buses => [Timeout!Next]_(Timeout!vars)
BY DEF BusesNext, buses, Only, Timeout_vars, Timeout!vars

(* A transfer of SpiDriver or NonBlockingSpi that returns Ok returns the     *)
(* answers to its own bytes, in order: retries and timeouts shift nothing   *)
(* as long as no earlier transfer was given up with a byte in flight.       *)
THEOREM AnswersAreOwn == BusesSpec => []AnswersMatch
<1>1. BusesInit => TimeoutInv
  BY TimeoutInit DEF BusesInit
<1>2. TimeoutInv /\ [BusesNext]_buses => TimeoutInv'
  BY TimeoutNext, TimeoutRuns
<1>3. TimeoutInv => AnswersMatch
  BY DEF TimeoutInv, AnswersMatch
<1>. QED
  BY <1>1, <1>2, <1>3, PTL DEF BusesSpec

-----------------------------------------------------------------------------
(* SpiDma: memory, cache and the two jobs. *)
DmaTypeOK ==
  /\ mem \in [Dma!Buffer -> Nat] /\ line \in [Dma!Buffer -> Nat]
  /\ dirty \in [Dma!Buffer -> BOOLEAN]
  /\ d_at \in {"idle", "copy", "clean", "invalidate", "start", "wait", "copy_out"}
  /\ method \in {"none", "transmit", "receive", "transfer"}
  /\ d_n \in Nat /\ tx_job \in Nat /\ rx_job \in Nat
  /\ received \in Nat \X Nat /\ d_sent \in Nat \X Nat

(* While the DMA writes, no line of the buffer is in the cache. *)
DmaRxInv ==
  /\ ~dirty["rx"]
  /\ rx_job # 0 => d_at = "wait" /\ rx_job = d_n
  /\ d_at = "wait" /\ rx_job = 0 => mem["rx"] = d_n
  /\ d_at = "copy_out" => mem["rx"] = d_n /\ line["rx"] \in {0, d_n}

(* While the DMA reads, memory holds what the caller wrote. *)
DmaTxInv ==
  /\ d_at # "idle" => d_n > 0 /\ method # "none"
  /\ d_at \in {"copy", "clean"} => method # "receive"
  /\ d_at \in {"wait", "copy_out"} => method # "transmit"
  /\ dirty["tx"] => line["tx"] # 0 /\ d_at = "clean"
  /\ d_at = "clean" => IF dirty["tx"] THEN line["tx"] = d_n ELSE mem["tx"] = d_n
  /\ d_at \in {"invalidate", "start"} /\ method # "receive" => mem["tx"] = d_n
  /\ ~overrun /\ tx_job # 0 => /\ mem["tx"] = tx_job /\ d_at # "clean"
                               /\ d_at \in {"invalidate", "start"} => method = "receive"

DmaInv == DmaTypeOK /\ DmaRxInv /\ DmaTxInv /\ Dma!Coherent

LEMMA DmaInit == Dma!Init => DmaInv
BY DEF Dma!Init, DmaInv, DmaTypeOK, DmaRxInv, DmaTxInv, Dma!Coherent, Dma!Buffer

LEMMA DmaNext == DmaInv /\ [Dma!Next]_(Dma!vars) => DmaInv'
<1> SUFFICES ASSUME DmaInv, [Dma!Next]_(Dma!vars) PROVE DmaInv'
  OBVIOUS
<1> USE DEF DmaInv, DmaTypeOK, DmaRxInv, DmaTxInv, Dma!Coherent, Dma!Buffer
<1>1. ASSUME NEW b \in Dma!Buffer, Dma!Load(b) PROVE DmaInv'
  BY <1>1 DEF Dma!Load
<1>2. ASSUME NEW b \in Dma!Buffer, Dma!Evict(b) PROVE DmaInv'
  BY <1>2 DEF Dma!Evict
<1>3. CASE Dma!DmaRead
  BY <1>3 DEF Dma!DmaRead
<1>4. CASE Dma!DmaWrite
  BY <1>4 DEF Dma!DmaWrite
<1>5. CASE Dma!Call
  BY <1>5 DEF Dma!Call
<1>6. CASE Dma!CopyIn
  <2>1. ~overrun' => ~overrun /\ tx_job = 0
    BY <1>6, Zenon DEF Dma!CopyIn
  <2>2. /\ d_at = "copy" /\ d_at' = "clean"
        /\ line' = [line EXCEPT !["tx"] = d_n] /\ dirty' = [dirty EXCEPT !["tx"] = TRUE]
        /\ UNCHANGED <<mem, method, d_n, tx_job, rx_job, d_sent, received>>
    BY <1>6, Zenon DEF Dma!CopyIn
  <2>. QED  BY <2>1, <2>2
<1>7. CASE Dma!CleanTx
  BY <1>7 DEF Dma!CleanTx, Dma!Clean
<1>8. CASE Dma!InvalidateRx
  BY <1>8 DEF Dma!InvalidateRx, Dma!Invalidate
<1>9. CASE Dma!StartDma
  BY <1>9 DEF Dma!StartDma
<1>10. CASE Dma!WaitDone
  BY <1>10 DEF Dma!WaitDone, Dma!Invalidate
<1>11. CASE Dma!CopyOut
  BY <1>11 DEF Dma!CopyOut
<1>12. CASE UNCHANGED Dma!vars
  BY <1>12 DEF Dma!vars
<1>. QED
  BY <1>1, <1>2, <1>3, <1>4, <1>5, <1>6, <1>7, <1>8, <1>9, <1>10, <1>11, <1>12
     DEF Dma!Next

LEMMA DmaRuns == [BusesNext]_buses => [Dma!Next]_(Dma!vars)
BY DEF BusesNext, buses, Only, Dma_vars, Dma!vars

(* The cache maintenance around a DMA transfer suffices: what the DMA sends  *)
(* is what the caller wrote, what the caller reads is what the DMA received.*)
THEOREM DmaCoherent == BusesSpec => []Coherent
<1>1. BusesInit => DmaInv
  BY DmaInit DEF BusesInit
<1>2. DmaInv /\ [BusesNext]_buses => DmaInv'
  BY DmaNext, DmaRuns
<1>3. DmaInv => Coherent
  BY DEF DmaInv, Coherent
<1>. QED
  BY <1>1, <1>2, <1>3, PTL DEF BusesSpec

-----------------------------------------------------------------------------
(* SpiMaster: the frames of a page write. *)
Wren == <<"WREN">>
PageProgram(v) == <<"PP", "addr", "addr", "addr", v>>

FlashByte == {"WREN", "PP", "addr", call.value}

(* The bytes since chip select fell are the first ones of t. *)
Begun(t) == /\ frame \in Seq(FlashByte) /\ Len(frame) <= Len(t)
            /\ \A k \in 1 .. Len(frame) : frame[k] = t[k]

(* How far the write of a page has come. *)
WriteStage ==
  \/ /\ program = <<Wren, PageProgram(call.value)>> /\ ~wip
     /\ m_cs => Begun(Wren)
  \/ /\ program = <<PageProgram(call.value)>> /\ ~wip /\ wel
     /\ m_cs => Begun(PageProgram(call.value))
  \/ program = << >> /\ page = call.value /\ ~wel

FlashInv ==
  /\ m_cs => program # << >>
  /\ call.op = "write" /\ call.ready => WriteStage

LEMMA FlashInit == Flash!Init => FlashInv
BY DEF Flash!Init, Flash!None, FlashInv

LEMMA Frames == Wren \in Seq(FlashByte) /\ PageProgram(call.value) \in Seq(FlashByte)
BY DEF Wren, PageProgram, FlashByte

LEMMA NextFlashByte ==
  ASSUME NEW S, NEW t \in Seq(S), NEW f \in Seq(S), Len(f) < Len(t),
         \A k \in 1 .. Len(f) : f[k] = t[k]
  PROVE  LET g == Append(f, t[Len(f) + 1]) IN
         g \in Seq(S) /\ Len(g) <= Len(t) /\ \A k \in 1 .. Len(g) : g[k] = t[k]
<1>1. t[Len(f) + 1] \in S
  BY ElementOfSeq
<1>. QED  BY <1>1, AppendProperties

LEMMA FlashNext == FlashInv /\ [Flash!Next]_(Flash!vars) => FlashInv'
<1> SUFFICES ASSUME FlashInv, [Flash!Next]_(Flash!vars) PROVE FlashInv'
  OBVIOUS
<1>1. ASSUME NEW v \in Value, call.op = "none", Flash!write(v) PROVE FlashInv'
  BY <1>1 DEF FlashInv, WriteStage, Flash!write, Flash!Begin, Wren, PageProgram
<1>2. CASE call.op = "none" /\ (Flash!read_id \/ Flash!read \/ Flash!wait_ready)
  BY <1>2 DEF FlashInv, Flash!read_id, Flash!read, Flash!wait_ready, Flash!Begin
<1>3. CASE Flash!transfer
  BY <1>3 DEF FlashInv, Flash!transfer, Flash!None
<1>4. CASE Flash!select
  BY <1>4 DEF FlashInv, WriteStage, Begun, Flash!select
<1>5. CASE Flash!transfer_byte
  <2> SUFFICES ASSUME call.op = "write", call.ready PROVE WriteStage'
    BY <1>5 DEF FlashInv, Flash!transfer_byte
  <2>1. UNCHANGED <<program, m_cs, call, wel, wip, page>>
    BY <1>5 DEF Flash!transfer_byte
  <2>2. ASSUME NEW t \in Seq(FlashByte), Head(program) = t, Begun(t) PROVE Begun(t)'
    <3>1. Len(frame) < Len(t) /\ frame' = Append(frame, t[Len(frame) + 1])
      BY <1>5, <2>2 DEF Flash!transfer_byte
    <3>2. FlashByte' = FlashByte
      BY <2>1 DEF FlashByte
    <3>3. frame \in Seq(FlashByte) /\ \A k \in 1 .. Len(frame) : frame[k] = t[k]
      BY <2>2 DEF Begun
    <3>4. /\ frame' \in Seq(FlashByte) /\ Len(frame') <= Len(t)
          /\ \A k \in 1 .. Len(frame') : frame'[k] = t[k]
      BY <2>2, <3>1, <3>3, NextFlashByte
    <3>. QED  BY <2>2, <3>2, <3>4 DEF Begun
  <2>3. CASE program = <<Wren, PageProgram(call.value)>>
    BY <1>5, <2>1, <2>2, <2>3, Frames DEF FlashInv, WriteStage, Flash!transfer_byte
  <2>4. CASE program = <<PageProgram(call.value)>>
    BY <1>5, <2>1, <2>2, <2>4, Frames DEF FlashInv, WriteStage, Flash!transfer_byte
  <2>. QED
    BY <1>5, <2>1, <2>3, <2>4 DEF FlashInv, WriteStage, Flash!transfer_byte
<1>6. CASE Flash!deselect
  <2>1. ~m_cs' /\ m_cs /\ UNCHANGED call
    BY <1>6 DEF Flash!deselect
  <2> SUFFICES ASSUME call.op = "write", call.ready PROVE WriteStage'
    BY <2>1 DEF FlashInv
  <2>2. program' = Tail(program)
    BY <1>6 DEF Flash!deselect, Flash!Poll
  <2>3. CASE program = <<Wren, PageProgram(call.value)>>
    <3>1. Begun(Wren) /\ ~wip /\ Len(frame) = Len(Wren)
      BY <1>6, <2>1, <2>3 DEF FlashInv, WriteStage, Flash!deselect
    <3>2. frame = Wren
      BY <3>1, Frames, SeqEqual DEF Begun
    <3>3. wel' /\ ~wip'
      BY <1>6, <3>1, <3>2 DEF Flash!deselect, Flash!Latch, Flash!Command, Wren
    <3>. QED
      BY <2>1, <2>2, <2>3, <3>3 DEF WriteStage
  <2>4. CASE program = <<PageProgram(call.value)>>
    <3>1. Begun(PageProgram(call.value)) /\ ~wip /\ wel
          /\ Len(frame) = Len(PageProgram(call.value))
      BY <1>6, <2>1, <2>4 DEF FlashInv, WriteStage, Flash!deselect
    <3>2. frame = PageProgram(call.value)
      BY <3>1, Frames, SeqEqual DEF Begun
    <3>3. page' = call.value /\ ~wel'
      <4>1. Len(frame) = 5 /\ frame[5] = call.value
        BY <3>2 DEF PageProgram
      <4>2. frame # << >> /\ frame # <<"WREN">> /\ Head(frame) = "PP"
        BY <3>2 DEF PageProgram
      <4>. QED  BY <1>6, <3>1, <4>1, <4>2 DEF Flash!deselect, Flash!Latch, Flash!Command
    <3>. QED
      BY <2>1, <2>2, <2>4, <3>3 DEF WriteStage
  <2>. QED
    BY <2>1, <2>3, <2>4 DEF FlashInv, WriteStage
<1>7. CASE Flash!Return
  BY <1>7 DEF FlashInv, Flash!Return, Flash!None
<1>8. CASE Flash!Programmed
  BY <1>8 DEF FlashInv, WriteStage, Flash!Programmed
<1>9. CASE UNCHANGED Flash!vars
  BY <1>9 DEF FlashInv, WriteStage, Begun, FlashByte, Flash!vars
<1>. QED
  BY <1>1, <1>2, <1>3, <1>4, <1>5, <1>6, <1>7, <1>8, <1>9 DEF Flash!Next

LEMMA FlashRuns == [BusesNext]_buses => [Flash!Next]_(Flash!vars)
BY DEF BusesNext, buses, Only, Flash_vars, Flash!vars

(* A page written to a flash that is ready is programmed: write enable and   *)
(* page program go in frames of their own, complete and in that order.      *)
THEOREM ReadyWriteTakesEffect == BusesSpec => []WriteTakesEffect
<1>1. BusesInit => FlashInv
  BY FlashInit DEF BusesInit
<1>2. FlashInv /\ [BusesNext]_buses => FlashInv'
  BY FlashNext, FlashRuns
<1>3. FlashInv => WriteTakesEffect
  BY DEF FlashInv, WriteStage, WriteTakesEffect, Flash!WriteTakesEffect
<1>. QED
  BY <1>1, <1>2, <1>3, PTL DEF BusesSpec

-----------------------------------------------------------------------------
(* SpiBatch: what a byte is, and the numbers of the bytes of a sequence. *)
BatchCmd == {"data", "sensor", "id", "read", "value", "write"}
BatchByte == [cmd : BatchCmd, n : Nat]
Nums(s) == {s[k].n : k \in 1 .. Len(s)}

(* m bytes were taken: w is on the wire, l lost, t still in the buffer. *)
Accounted(w, l, t, m) ==
  /\ w \in Seq(BatchByte) /\ l \in Seq(BatchByte) /\ t \in Seq(BatchByte) /\ m \in Nat
  /\ Len(w) + Len(l) + Len(t) = m
  /\ \A k \in 1 .. Len(t) : t[k].n = m - Len(t) + k
  /\ \A k \in 1 .. Len(w) - 1 : w[k].n < w[k + 1].n
  /\ \A k \in 1 .. Len(w) : w[k].n <= m - Len(t)
  /\ Nums(w) \cup Nums(l) = 1 .. (m - Len(t))

LEMMA NumsConcat ==
  ASSUME NEW a \in Seq(BatchByte), NEW b \in Seq(BatchByte)
  PROVE  Nums(a \o b) = Nums(a) \cup Nums(b)
<1>1. a \o b \in Seq(BatchByte) /\ Len(a \o b) = Len(a) + Len(b)
      /\ Len(a) \in Nat /\ Len(b) \in Nat
  BY ConcatProperties
<1>2. ASSUME NEW k \in 1 .. Len(a \o b) PROVE (a \o b)[k].n \in Nums(a) \cup Nums(b)
  <2>1. CASE k <= Len(a)
    BY <1>1, <2>1, ConcatProperties DEF Nums
  <2>2. CASE k > Len(a)
    <3>1. (a \o b)[k] = b[k - Len(a)] /\ k - Len(a) \in 1 .. Len(b)
      BY <1>1, <2>2, ConcatProperties
    <3>. QED  BY <3>1 DEF Nums
  <2>. QED  BY <1>1, <2>1, <2>2
<1>3. ASSUME NEW k \in 1 .. Len(a) PROVE a[k].n \in Nums(a \o b)
  <2>1. a[k] = (a \o b)[k] /\ k \in 1 .. Len(a \o b)
    BY <1>1, ConcatProperties
  <2>. QED  BY <2>1 DEF Nums
<1>4. ASSUME NEW k \in 1 .. Len(b) PROVE b[k].n \in Nums(a \o b)
  <2>1. b[k] = (a \o b)[Len(a) + k] /\ Len(a) + k \in 1 .. Len(a \o b)
    BY <1>1, ConcatProperties
  <2>. QED  BY <2>1 DEF Nums
<1>. QED  BY <1>2, <1>3, <1>4 DEF Nums

LEMMA NumsOfRun ==
  ASSUME NEW s \in Seq(BatchByte), NEW m \in Nat, \A k \in 1 .. Len(s) : s[k].n = m + k
  PROVE  Nums(s) = (m + 1) .. (m + Len(s))
<1>1. Len(s) \in Nat
  OBVIOUS
<1>2. ASSUME NEW x \in (m + 1) .. (m + Len(s)) PROVE x \in Nums(s)
  <2>1. x - m \in 1 .. Len(s) /\ s[x - m].n = m + (x - m)
    BY <1>1
  <2>2. s[x - m].n = x
    BY <1>1, <2>1
  <2>. QED  BY <2>1, <2>2 DEF Nums
<1>3. ASSUME NEW x \in Nums(s) PROVE x \in (m + 1) .. (m + Len(s))
  <2>1. PICK k \in 1 .. Len(s) : x = s[k].n
    BY DEF Nums
  <2>2. x = m + k
    BY <2>1
  <2>. QED  BY <1>1, <2>2
<1>. QED  BY <1>2, <1>3

LEMMA NumsAreNat == ASSUME NEW s \in Seq(BatchByte) PROVE \A k \in 1 .. Len(s) : s[k].n \in Nat
<1>1. \A k \in 1 .. Len(s) : s[k] \in BatchByte
  BY ElementOfSeq
<1>. QED  BY <1>1 DEF BatchByte

(* The buffer goes out. *)
LEMMA AccountedSent ==
  ASSUME NEW w, NEW l, NEW t, NEW m, Accounted(w, l, t, m)
  PROVE  Accounted(w \o t, l, << >>, m)
<1> USE DEF Accounted
<1>1. /\ w \o t \in Seq(BatchByte) /\ Len(w \o t) = Len(w) + Len(t)
      /\ Len(w) \in Nat /\ Len(t) \in Nat /\ Len(l) \in Nat
      /\ \A k \in 1 .. Len(w) : (w \o t)[k] = w[k]
      /\ \A k \in (Len(w) + 1) .. (Len(w) + Len(t)) : (w \o t)[k] = t[k - Len(w)]
  BY ConcatProperties
<1>2. /\ \A k \in 1 .. Len(w) : (w \o t)[k].n \in Nat /\ (w \o t)[k].n <= m - Len(t)
      /\ \A k \in 1 .. Len(t) : (w \o t)[Len(w) + k].n = m - Len(t) + k
  <2>1. \A k \in 1 .. Len(w) : w[k].n \in Nat
    BY NumsAreNat
  <2>2. \A k \in 1 .. Len(t) : (w \o t)[Len(w) + k] = t[k]
    BY <1>1
  <2>. QED  BY <1>1, <2>1, <2>2
<1>3. ASSUME NEW k \in 1 .. Len(w \o t)
      PROVE  (w \o t)[k].n <= m /\ (k < Len(w \o t) => (w \o t)[k].n < (w \o t)[k + 1].n)
  <2>1. CASE k < Len(w)
    <3>1. k \in 1 .. Len(w) /\ k + 1 \in 1 .. Len(w) /\ k \in 1 .. Len(w) - 1
      BY <1>1, <2>1
    <3>2. (w \o t)[k] = w[k] /\ (w \o t)[k + 1] = w[k + 1] /\ w[k].n < w[k + 1].n
      BY <1>1, <3>1
    <3>3. (w \o t)[k].n \in Nat /\ (w \o t)[k].n <= m - Len(t)
      BY <1>2, <3>1
    <3>4. m \in Nat
      OBVIOUS
    <3> HIDE DEF Accounted
    <3>5. \A x \in Nat : x <= m - Len(t) => x <= m
      BY <1>1, <3>4
    <3>. QED  BY <3>2, <3>3, <3>5
  <2>2. CASE k = Len(w)
    <3>1. k < Len(w \o t) => 1 \in 1 .. Len(t)
      BY <1>1, <2>2
    <3>. QED  BY <1>1, <1>2, <2>2, <3>1
  <2>3. CASE k > Len(w)
    <3>1. /\ k - Len(w) \in 1 .. Len(t) /\ k = Len(w) + (k - Len(w))
          /\ k + 1 = Len(w) + (k + 1 - Len(w))
          /\ k < Len(w \o t) => k + 1 - Len(w) \in 1 .. Len(t)
      BY <1>1, <2>3
    <3>2. (w \o t)[k].n = m - Len(t) + (k - Len(w))
      BY <1>2, <3>1
    <3>3. k < Len(w \o t) => (w \o t)[k + 1].n = m - Len(t) + (k + 1 - Len(w))
      BY <1>2, <3>1
    <3>. QED  BY <1>1, <3>1, <3>2, <3>3
  <2>. QED  BY <1>1, <2>1, <2>2, <2>3
<1>4. Nums(w \o t) \cup Nums(l) = 1 .. m
  <2>1. m - Len(t) \in Nat
    BY <1>1
  <2>2. Nums(t) = (m - Len(t) + 1) .. (m - Len(t) + Len(t))
    BY <2>1, NumsOfRun
  <2>3. Nums(t) = (m - Len(t) + 1) .. m
    BY <1>1, <2>2
  <2>4. Nums(w \o t) \cup Nums(l) = (1 .. (m - Len(t))) \cup ((m - Len(t) + 1) .. m)
    BY <2>3, NumsConcat
  <2>. QED  BY <1>1, <2>1, <2>4
<1>5. << >> \in Seq(BatchByte) /\ Len(<< >>) = 0 /\ m \in Nat /\ l \in Seq(BatchByte)
      /\ Len(w \o t) + Len(l) = m /\ m - 0 = m
  BY <1>1
<1> HIDE DEF Accounted
<1>6. ASSUME NEW k \in 1 .. Len(w \o t) - 1 PROVE (w \o t)[k].n < (w \o t)[k + 1].n
  <2>1. k \in 1 .. Len(w \o t) /\ k < Len(w \o t)
    BY <1>1
  <2>. QED  BY <1>3, <2>1
<1>7. \A k \in 1 .. Len(w \o t) : (w \o t)[k].n <= m - 0
  BY <1>3, <1>5
<1> DEFINE z == w \o t
           e == << >>
<1>8. /\ z \in Seq(BatchByte) /\ Len(z) \in Nat /\ e \in Seq(BatchByte) /\ Len(e) = 0
      /\ Len(l) \in Nat /\ Len(z) + Len(l) = m /\ Nums(z) \cup Nums(l) = 1 .. m
  BY <1>1, <1>4, <1>5
<1>9. /\ \A k \in 1 .. Len(z) : z[k].n <= m - 0
      /\ \A k \in 1 .. Len(z) - 1 : z[k].n < z[k + 1].n
  BY <1>6, <1>7
<1> HIDE DEF z, e
<1>10. m - Len(e) = m /\ m - 0 = m /\ Len(z) + Len(l) + Len(e) = m /\ 1 .. Len(e) = {}
  BY <1>5, <1>8
<1>11. Accounted(z, l, e, m)
  BY <1>5, <1>8, <1>9, <1>10 DEF Accounted
<1>. QED  BY <1>11 DEF z, e

(* The buffer is lost in a transfer that fails. *)
LEMMA AccountedLost ==
  ASSUME NEW w, NEW l, NEW t, NEW m, Accounted(w, l, t, m)
  PROVE  Accounted(w, l \o t, << >>, m)
<1> USE DEF Accounted
<1>1. /\ l \o t \in Seq(BatchByte) /\ Len(l \o t) = Len(l) + Len(t)
      /\ Len(w) \in Nat /\ Len(t) \in Nat /\ Len(l) \in Nat
  BY ConcatProperties
<1>2. Nums(w) \cup Nums(l \o t) = 1 .. m
  <2>1. m - Len(t) \in Nat
    BY <1>1
  <2>2. Nums(t) = (m - Len(t) + 1) .. (m - Len(t) + Len(t))
    BY <2>1, NumsOfRun
  <2>3. Nums(t) = (m - Len(t) + 1) .. m
    BY <1>1, <2>2
  <2>4. Nums(w) \cup Nums(l \o t) = (1 .. (m - Len(t))) \cup ((m - Len(t) + 1) .. m)
    BY <2>3, NumsConcat
  <2>. QED  BY <1>1, <2>1, <2>4
<1>3. \A k \in 1 .. Len(w) : w[k].n <= m
  <2>1. \A k \in 1 .. Len(w) : w[k].n \in Nat
    BY NumsAreNat
  <2>. QED  BY <1>1, <2>1
<1>. QED  BY <1>1, <1>2, <1>3

(* New bytes d join the buffer. *)
LEMMA AccountedTaken ==
  ASSUME NEW w, NEW l, NEW t, NEW m, Accounted(w, l, t, m),
         NEW d \in Seq(BatchByte), \A k \in 1 .. Len(d) : d[k].n = m + k
  PROVE  Accounted(w, l, t \o d, m + Len(d))
<1> USE DEF Accounted
<1>1. /\ t \o d \in Seq(BatchByte) /\ Len(t \o d) = Len(t) + Len(d)
      /\ Len(w) \in Nat /\ Len(t) \in Nat /\ Len(l) \in Nat /\ Len(d) \in Nat
      /\ \A k \in 1 .. Len(t) : (t \o d)[k] = t[k]
      /\ \A k \in (Len(t) + 1) .. (Len(t) + Len(d)) : (t \o d)[k] = d[k - Len(t)]
  BY ConcatProperties
<1>2. m + Len(d) - Len(t \o d) = m - Len(t)
  BY <1>1
<1>3. \A k \in 1 .. Len(t \o d) : (t \o d)[k].n = m + Len(d) - Len(t \o d) + k
  BY <1>1, <1>2
<1>4. m + Len(d) \in Nat /\ Len(w) + Len(l) + Len(t \o d) = m + Len(d)
  <2>1. m \in Nat /\ Len(w) + Len(l) + Len(t) = m
    OBVIOUS
  <2> HIDE DEF Accounted
  <2>. QED  BY <1>1, <2>1
<1>5. /\ \A k \in 1 .. Len(w) : w[k].n <= m + Len(d) - Len(t \o d)
      /\ Nums(w) \cup Nums(l) = 1 .. (m + Len(d) - Len(t \o d))
  BY <1>2
<1>. QED  BY <1>1, <1>3, <1>4, <1>5

(* All bytes are accounted for, and the queued reads stand where their       *)
(* addresses say.                                                           *)
BatchInv ==
  /\ Accounted(wire, lost, tx_buffer, n)
  /\ user \in {"manager", "registers", "chunked"}
  /\ cs => user = "chunked" /\ lost # << >>
  /\ read_addresses \in Seq(Nat)
  /\ user # "registers" => read_addresses = << >>
  /\ regular /\ user = "registers" =>
       /\ Len(tx_buffer) = 2 * Len(read_addresses)
       /\ \A k \in 1 .. Len(read_addresses) : tx_buffer[2 * k].n = read_addresses[k]
  /\ Batch!ReadsMatch

LEMMA BatchInit == Batch!Init => BatchInv
<1> SUFFICES ASSUME Batch!Init PROVE BatchInv
  OBVIOUS
<1>1. Nums(<< >>) = {}
  BY DEF Nums
<1>2. Accounted(wire, lost, tx_buffer, n)
  BY <1>1 DEF Batch!Init, Accounted
<1>. QED
  BY <1>2 DEF Batch!Init, BatchInv, Batch!ReadsMatch

LEMMA BytesRun ==
  ASSUME n \in Nat, NEW cmds \in Seq(BatchCmd)
  PROVE  /\ Batch!Bytes(cmds) \in Seq(BatchByte)
         /\ Len(Batch!Bytes(cmds)) = Len(cmds)
         /\ \A k \in 1 .. Len(cmds) : Batch!Bytes(cmds)[k].n = n + k
<1>1. \A k \in 1 .. Len(cmds) : [cmd |-> cmds[k], n |-> n + k] \in BatchByte
  BY DEF BatchByte
<1>2. Len(cmds) \in Nat
  OBVIOUS
<1>. QED  BY <1>1, <1>2 DEF Batch!Bytes

(* What the bytes d do when they are taken. *)
LEMMA Taken ==
  ASSUME BatchInv, NEW cmds \in Seq(BatchCmd), NEW w, NEW l, NEW t, Accounted(w, l, t, n)
  PROVE  /\ Batch!Bytes(cmds) \in Seq(BatchByte)
         /\ Len(Batch!Bytes(cmds)) = Len(cmds)
         /\ Accounted(w, l, t \o Batch!Bytes(cmds), n + Len(cmds))
<1>1. n \in Nat
  BY DEF Accounted
<1>2. /\ Batch!Bytes(cmds) \in Seq(BatchByte) /\ Len(Batch!Bytes(cmds)) = Len(cmds)
      /\ \A k \in 1 .. Len(cmds) : Batch!Bytes(cmds)[k].n = n + k
  BY <1>1, BytesRun
<1>3. Accounted(w, l, t \o Batch!Bytes(cmds), n + Len(Batch!Bytes(cmds)))
  BY <1>2, AccountedTaken
<1>. QED  BY <1>2, <1>3

LEMMA BatchNext == BatchInv /\ [Batch!Next]_(Batch!vars) => BatchInv'
<1> SUFFICES ASSUME BatchInv, [Batch!Next]_(Batch!vars) PROVE BatchInv'
  OBVIOUS
<1>11. <<"data">> \in Seq(BatchCmd) /\ <<"sensor", "id">> \in Seq(BatchCmd)
      /\ <<"read", "value">> \in Seq(BatchCmd) /\ <<"write", "data">> \in Seq(BatchCmd)
      /\ <<"read">> \in Seq(BatchCmd)
  BY DEF BatchCmd
<1>12. n \in Nat
  BY DEF BatchInv, Accounted
<1>1. CASE Batch!flush
  <2>1. Accounted(wire, lost, tx_buffer, n)'
    BY <1>1, AccountedSent, AccountedLost
       DEF Batch!flush, Batch!Transferred, Batch!TransferFailed, BatchInv
  <2>2. user = "manager" /\ UNCHANGED <<user, read_addresses, cs, results, regular>>
    BY <1>1 DEF Batch!flush
  <2>. QED  BY <2>1, <2>2 DEF BatchInv, Batch!ReadsMatch
<1>2. CASE Batch!add
  <2>1. user = "manager" /\ UNCHANGED <<user, read_addresses, cs, results, regular>>
    BY <1>2 DEF Batch!add
  <2>2. PICK cmds \in {<<"data">>, <<"sensor", "id">>} :
          \/ Batch!AddKept(Batch!Bytes(cmds)) \/ Batch!AddFlushed(Batch!Bytes(cmds))
          \/ Batch!AddFailed(Batch!Bytes(cmds))
    BY <1>2, Zenon DEF Batch!add
  <2>3. cmds \in Seq(BatchCmd)
    BY <1>11
  <2>4. CASE Batch!AddKept(Batch!Bytes(cmds))
    <3>1. /\ tx_buffer' = tx_buffer \o Batch!Bytes(cmds) /\ n' = n + Len(Batch!Bytes(cmds))
          /\ UNCHANGED <<wire, lost>>
      BY <2>4 DEF Batch!AddKept
    <3>. QED  BY <2>1, <2>3, <3>1, Taken DEF BatchInv, Batch!ReadsMatch
  <2>5. CASE Batch!AddFlushed(Batch!Bytes(cmds))
    <3>1. /\ tx_buffer' = Batch!Bytes(cmds) /\ n' = n + Len(Batch!Bytes(cmds))
          /\ wire' = wire \o tx_buffer /\ lost' = lost
      BY <2>5 DEF Batch!AddFlushed
    <3>2. Accounted(wire', lost', << >>, n)
      BY <3>1, AccountedSent DEF BatchInv
    <3>3. << >> \o Batch!Bytes(cmds) = Batch!Bytes(cmds)
      BY <1>12, <2>3, BytesRun, ConcatEmptySeq
    <3>4. Accounted(wire, lost, tx_buffer, n)'
      BY <2>3, <3>1, <3>2, <3>3, Taken
    <3>. QED  BY <2>1, <3>4 DEF BatchInv, Batch!ReadsMatch
  <2>6. CASE Batch!AddFailed(Batch!Bytes(cmds))
    BY <2>1, <2>6, AccountedLost
       DEF Batch!AddFailed, Batch!TransferFailed, BatchInv, Batch!ReadsMatch
  <2>. QED  BY <2>2, <2>4, <2>5, <2>6
<1>3. CASE Batch!queue_read
  <2>1. /\ user = "registers" /\ tx_buffer' = tx_buffer \o Batch!Bytes(<<"read", "value">>)
        /\ n' = n + 2 /\ read_addresses' = Append(read_addresses, n + 2)
        /\ UNCHANGED <<user, cs, wire, lost, results, regular>>
    BY <1>3 DEF Batch!queue_read, Batch!Queue
  <2>2. Accounted(wire, lost, tx_buffer, n)'
    BY <1>11, <2>1, Taken DEF BatchInv
  <2>3. ASSUME regular
        PROVE  /\ Len(tx_buffer') = 2 * Len(read_addresses')
               /\ \A k \in 1 .. Len(read_addresses') :
                    tx_buffer'[2 * k].n = read_addresses'[k]
    <3> DEFINE d == Batch!Bytes(<<"read", "value">>)
    <3>1. d \in Seq(BatchByte) /\ Len(d) = 2 /\ d[2].n = n + 2
      <4>1. Len(<<"read", "value">>) = 2 /\ 2 \in 1 .. 2
        OBVIOUS
      <4>2. /\ d \in Seq(BatchByte) /\ Len(d) = Len(<<"read", "value">>)
            /\ \A k \in 1 .. Len(<<"read", "value">>) : d[k].n = n + k
        BY <1>11, <1>12, BytesRun
      <4> HIDE DEF d
      <4>. QED  BY <4>1, <4>2
    <3> HIDE DEF d
    <3>2. tx_buffer \in Seq(BatchByte) /\ read_addresses \in Seq(Nat)
      BY DEF BatchInv, Accounted
    <3>3. /\ Len(tx_buffer') = Len(tx_buffer) + 2
          /\ \A k \in 1 .. Len(tx_buffer) : tx_buffer'[k] = tx_buffer[k]
          /\ tx_buffer'[Len(tx_buffer) + 2] = d[2]
      <4>1. tx_buffer' = tx_buffer \o d
        BY <2>1 DEF d
      <4>2. /\ Len(tx_buffer \o d) = Len(tx_buffer) + Len(d)
            /\ \A k \in 1 .. Len(tx_buffer) + Len(d) :
                 (tx_buffer \o d)[k] = IF k <= Len(tx_buffer) THEN tx_buffer[k]
                                       ELSE d[k - Len(tx_buffer)]
        BY <3>1, <3>2, ConcatProperties
      <4>3. Len(tx_buffer) \in Nat /\ Len(tx_buffer) + 2 - Len(tx_buffer) = 2
        BY <3>2
      <4>. QED  BY <3>1, <4>1, <4>2, <4>3
    <3>4. /\ Len(read_addresses') = Len(read_addresses) + 1
          /\ \A k \in 1 .. Len(read_addresses) : read_addresses'[k] = read_addresses[k]
          /\ read_addresses'[Len(read_addresses) + 1] = n + 2
      BY <1>12, <2>1, <3>2, AppendProperties
    <3>5. /\ Len(tx_buffer) = 2 * Len(read_addresses)
          /\ \A k \in 1 .. Len(read_addresses) : tx_buffer[2 * k].n = read_addresses[k]
      BY <2>1, <2>3 DEF BatchInv
    <3>6. ASSUME NEW k \in 1 .. Len(read_addresses')
          PROVE  tx_buffer'[2 * k].n = read_addresses'[k]
      <4>1. CASE k <= Len(read_addresses)
        <5>1. 2 * k \in 1 .. Len(tx_buffer) /\ k \in 1 .. Len(read_addresses)
          BY <3>2, <3>5, <4>1
        <5>. QED  BY <3>3, <3>4, <3>5, <5>1
      <4>2. CASE k = Len(read_addresses) + 1
        <5>1. 2 * k = Len(tx_buffer) + 2
          BY <3>2, <3>5, <4>2
        <5>. QED  BY <3>1, <3>3, <3>4, <4>2, <5>1
      <4>. QED  BY <3>2, <3>4, <4>1, <4>2
    <3>. QED  BY <3>2, <3>3, <3>4, <3>5, <3>6
  <2>4. read_addresses' \in Seq(Nat)
    BY <1>12, <2>1, AppendProperties DEF BatchInv
  <2>. QED  BY <2>1, <2>2, <2>3, <2>4 DEF BatchInv, Batch!ReadsMatch
<1>4. CASE Batch!queue_write
  <2>1. /\ user = "registers" /\ tx_buffer' = tx_buffer \o Batch!Bytes(<<"write", "data">>)
        /\ n' = n + 2 /\ ~regular'
        /\ UNCHANGED <<user, cs, wire, lost, read_addresses>>
    BY <1>4 DEF Batch!queue_write, Batch!Queue
  <2>2. Accounted(wire, lost, tx_buffer, n)'
    BY <1>11, <2>1, Taken DEF BatchInv
  <2>. QED  BY <2>1, <2>2 DEF BatchInv, Batch!ReadsMatch
<1>5. CASE Batch!HalfQueued
  <2>1. /\ user = "registers" /\ tx_buffer' = tx_buffer \o Batch!Bytes(<<"read">>)
        /\ n' = n + 1 /\ ~regular'
        /\ UNCHANGED <<user, cs, wire, lost, read_addresses>>
    BY <1>5 DEF Batch!HalfQueued
  <2>2. Accounted(wire, lost, tx_buffer, n)'
    BY <1>11, <2>1, Taken DEF BatchInv
  <2>. QED  BY <2>1, <2>2 DEF BatchInv, Batch!ReadsMatch
<1>6. CASE Batch!execute
  <2>1. /\ user = "registers" /\ results' = Batch!Results /\ read_addresses' = << >>
        /\ UNCHANGED <<user, cs, n, regular>>
    BY <1>6 DEF Batch!execute
  <2>2. Accounted(wire, lost, tx_buffer, n)' /\ lost' = lost
    BY <1>6, AccountedSent DEF Batch!execute, Batch!Transferred, BatchInv
  <2>3. tx_buffer' = << >>
    BY <1>6 DEF Batch!execute, Batch!Transferred
  <2>4. ASSUME regular, NEW k \in DOMAIN results' PROVE results'[k][1] = results'[k][2]
    <3>1. read_addresses \in Seq(Nat) /\ tx_buffer \in Seq(BatchByte)
      BY DEF BatchInv, Accounted
    <3>2. /\ k \in 1 .. Len(read_addresses)
          /\ results'[k] = <<read_addresses[k],
               IF Batch!Answer(k) \in DOMAIN rx_buffer' THEN rx_buffer'[Batch!Answer(k)].n ELSE 0>>
      BY <2>1, <2>4 DEF Batch!Results
    <3>3. Len(tx_buffer) = 2 * Len(read_addresses) /\ tx_buffer[2 * k].n = read_addresses[k]
      BY <2>1, <2>4, <3>2 DEF BatchInv
    <3>4. rx_buffer' = tx_buffer
      BY <1>6, <3>1, <3>2, <3>3 DEF Batch!execute, Batch!Transferred
    <3>5. Batch!Answer(k) = 2 * k /\ 2 * k \in DOMAIN tx_buffer
      BY <3>1, <3>2, <3>3 DEF Batch!Answer
    <3>. QED  BY <3>2, <3>3, <3>4, <3>5
  <2>. QED  BY <2>1, <2>2, <2>3, <2>4 DEF BatchInv, Batch!ReadsMatch
<1>7. CASE Batch!ExecuteFailed
  BY <1>7, AccountedLost
     DEF Batch!ExecuteFailed, Batch!TransferFailed, BatchInv, Batch!ReadsMatch
<1>8. CASE Batch!TakeByte
  <2> DEFINE chunk == tx_buffer \o Batch!Bytes(<<"data">>)
  <2>1. user = "chunked" /\ n' = n + 1 /\ UNCHANGED <<user, read_addresses, results, regular>>
    BY <1>8 DEF Batch!TakeByte
  <2>2. \/ tx_buffer' = chunk /\ UNCHANGED <<wire, lost, cs>>
        \/ Batch!Transferred(chunk) /\ cs' = FALSE
        \/ Len(chunk) >= chunk_size /\ Batch!TransferFailed(chunk) /\ cs' = TRUE
    BY <1>8, Zenon DEF Batch!TakeByte
  <2>3. Accounted(wire, lost, chunk, n + 1) /\ chunk # << >>
    <3>1. Accounted(wire, lost, chunk, n + 1)
      BY <1>11, Taken DEF BatchInv
    <3>. QED  BY <1>11, <1>12, <3>1, BytesRun, ConcatProperties DEF BatchInv, Accounted
  <2> HIDE DEF chunk
  <2>4. Accounted(wire, lost, tx_buffer, n)'
    BY <2>1, <2>2, <2>3, AccountedSent, AccountedLost
       DEF Batch!Transferred, Batch!TransferFailed
  <2>5. cs' => lost' # << >>
    <3>1. CASE Batch!TransferFailed(chunk)
      BY <2>3, <3>1, ConcatEqualIffEmpty DEF Batch!TransferFailed, Accounted
    <3>. QED  BY <2>2, <3>1 DEF BatchInv
  <2>. QED  BY <2>1, <2>4, <2>5 DEF BatchInv, Batch!ReadsMatch
<1>9. CASE Batch!LastChunk
  <2>1. /\ user = "chunked" /\ tx_buffer # << >>
        /\ UNCHANGED <<user, read_addresses, n, results, regular>>
        /\ \/ Batch!Transferred(tx_buffer) /\ cs' = FALSE
           \/ Batch!TransferFailed(tx_buffer) /\ cs' = TRUE
    BY <1>9 DEF Batch!LastChunk
  <2>2. Accounted(wire, lost, tx_buffer, n)'
    BY <2>1, AccountedSent, AccountedLost
       DEF Batch!Transferred, Batch!TransferFailed, BatchInv
  <2>3. cs' => lost' # << >>
    BY <2>1, ConcatEqualIffEmpty DEF Batch!TransferFailed, Accounted, BatchInv
  <2>. QED  BY <2>1, <2>2, <2>3 DEF BatchInv, Batch!ReadsMatch
<1>10. CASE UNCHANGED Batch!vars
  BY <1>10 DEF Batch!vars, BatchInv, Batch!ReadsMatch
<1>. QED
  BY <1>1, <1>2, <1>3, <1>4, <1>5, <1>6, <1>7, <1>8, <1>9, <1>10 DEF Batch!Next

LEMMA BatchRuns == [BusesNext]_buses => [Batch!Next]_(Batch!vars)
BY DEF BusesNext, buses, Only, Batch_vars, Batch!vars

LEMMA BatchInvFaithful == BatchInv => BatchFaithful
<1> SUFFICES ASSUME BatchInv PROVE Batch!EachByteOnce
  BY DEF BatchInv, BatchFaithful
<1> DEFINE s == wire \o lost
           u == s \o tx_buffer
<1>1. /\ wire \in Seq(BatchByte) /\ lost \in Seq(BatchByte) /\ tx_buffer \in Seq(BatchByte)
      /\ n \in Nat
  BY DEF BatchInv, Accounted
<1>2. s \in Seq(BatchByte) /\ Nums(s) = Nums(wire) \cup Nums(lost)
  BY <1>1, ConcatProperties, NumsConcat
<1>3. u \in Seq(BatchByte) /\ Nums(u) = Nums(s) \cup Nums(tx_buffer)
  BY <1>1, <1>2, ConcatProperties, NumsConcat
<1>4. Len(tx_buffer) \in Nat /\ n - Len(tx_buffer) \in Nat
  BY <1>1 DEF BatchInv, Accounted
<1>5. Nums(tx_buffer) = (n - Len(tx_buffer) + 1) .. (n - Len(tx_buffer) + Len(tx_buffer))
  BY <1>1, <1>4, NumsOfRun DEF BatchInv, Accounted
<1>6. Nums(u) = 1 .. n
  <2>1. Nums(u) = (1 .. (n - Len(tx_buffer))) \cup ((n - Len(tx_buffer) + 1) .. n)
    BY <1>1, <1>2, <1>3, <1>4, <1>5 DEF BatchInv, Accounted
  <2> HIDE DEF u
  <2>. QED  BY <1>1, <1>4, <2>1
<1>7. {b.n : b \in Batch!ToSet(u)} = Nums(u)
  <2>1. DOMAIN u = 1 .. Len(u)
    BY <1>3
  <2> HIDE DEF u
  <2>. QED  BY <2>1 DEF Batch!ToSet, Nums
<1>. QED
  BY <1>6, <1>7 DEF BatchInv, Accounted, Batch!EachByteOnce

(* Every byte taken by the three batching front ends is sent once and in     *)
(* order, is in the buffer or was lost in a failed transfer; and every      *)
(* register read gets the answer to its own byte.                           *)
THEOREM BatchIsFaithful == BusesSpec => []BatchFaithful
<1>1. BusesInit => BatchInv
  BY BatchInit DEF BusesInit
<1>2. BatchInv /\ [BusesNext]_buses => BatchInv'
  BY BatchNext, BatchRuns
<1>. QED
  BY <1>1, <1>2, BatchInvFaithful, PTL DEF BusesSpec

-----------------------------------------------------------------------------
(* I2cBitBang: where a call stands and what the pins are then. *)
Closed == ~sda /\ ~scl /\ bits = << >>

BitBangAt ==
  \/ /\ todo \in {<< >>, BitBang!start}
     /\ ~data /\ (IF meant THEN scl ELSE Closed)
  \/ /\ todo \in {<<"scl_high", "START", "scl_low">>, <<"START", "scl_low">>}
     /\ ~data /\ ~sda /\ (~meant => Closed)
  \/ /\ todo \in {<<"sda_high", "scl_high", "wait", "scl_low">>,
                  <<"sda_low", "scl_high", "wait", "scl_low">>, BitBang!read_bit}
     /\ ~data /\ scl /\ meant
  \/ /\ todo = BitBang!stop
     /\ ~data /\ scl /\ meant /\ bits = << >>
  \/ /\ todo = <<"scl_high", "wait_10_ms", "STOP">>
     /\ ~data /\ sda /\ meant /\ bits = << >>
  \/ /\ todo \in {<<"wait_10_ms", "STOP">>, <<"STOP">>}
     /\ ~data /\ sda /\ ~scl /\ meant /\ bits = << >>
  \/ /\ todo \in {<<"scl_high", "wait", "scl_low">>, <<"wait", "scl_low">>, <<"scl_low">>,
                  <<"scl_high", "wait", "sample", "scl_low">>,
                  <<"wait", "sample", "scl_low">>, <<"sample", "scl_low">>}
     /\ meant

(* The listener agrees with the master, wherever the call stands. *)
BitBangInv ==
  /\ sda \in BOOLEAN /\ scl \in BOOLEAN /\ data \in BOOLEAN /\ stretch \in BOOLEAN
  /\ meant \in BOOLEAN /\ heard \in BOOLEAN /\ late \in BOOLEAN
  /\ BitBangAt
  /\ BitBang!HeardAsMeant

LEMMA Tails ==
  /\ Tail(BitBang!start) = <<"scl_high", "START", "scl_low">>
  /\ Tail(<<"scl_high", "START", "scl_low">>) = <<"START", "scl_low">>
  /\ Tail(<<"START", "scl_low">>) = <<"scl_low">>
  /\ Tail(<<"scl_low">>) = << >>
  /\ Tail(BitBang!stop) = <<"scl_high", "wait_10_ms", "STOP">>
  /\ Tail(<<"scl_high", "wait_10_ms", "STOP">>) = <<"wait_10_ms", "STOP">>
  /\ Tail(<<"wait_10_ms", "STOP">>) = <<"STOP">>
  /\ Tail(<<"STOP">>) = << >>
  /\ Tail(BitBang!read_bit) = <<"scl_high", "wait", "sample", "scl_low">>
  /\ Tail(<<"scl_high", "wait", "sample", "scl_low">>) = <<"wait", "sample", "scl_low">>
  /\ Tail(<<"wait", "sample", "scl_low">>) = <<"sample", "scl_low">>
  /\ Tail(<<"sample", "scl_low">>) = <<"scl_low">>
  /\ Tail(<<"sda_high", "scl_high", "wait", "scl_low">>) = <<"scl_high", "wait", "scl_low">>
  /\ Tail(<<"scl_high", "wait", "scl_low">>) = <<"wait", "scl_low">>
  /\ Tail(<<"wait", "scl_low">>) = <<"scl_low">>
  /\ Tail(<<"sda_low", "scl_high", "wait", "scl_low">>) = <<"scl_high", "wait", "scl_low">>
BY DEF BitBang!start, BitBang!stop, BitBang!read_bit

(* Where a call stands when it does op. *)
LEMMA Does ==
  ASSUME BitBangInv, NEW op, BitBang!Does(op)
  PROVE  /\ todo' = Tail(todo)
         /\ op = "sda_high" =>
              todo \in {BitBang!start, <<"sda_high", "scl_high", "wait", "scl_low">>}
         /\ op = "sda_low" =>
              todo \in {BitBang!stop, <<"sda_low", "scl_high", "wait", "scl_low">>}
         /\ op = "sda_release" => todo = BitBang!read_bit
         /\ op = "scl_high" =>
              todo \in {<<"scl_high", "START", "scl_low">>,
                        <<"scl_high", "wait_10_ms", "STOP">>,
                        <<"scl_high", "wait", "scl_low">>,
                        <<"scl_high", "wait", "sample", "scl_low">>}
         /\ op = "START" => todo = <<"START", "scl_low">>
         /\ op = "STOP" => todo = <<"STOP">>
         /\ op = "wait" => todo \in {<<"wait", "scl_low">>, <<"wait", "sample", "scl_low">>}
         /\ op = "wait_10_ms" => todo = <<"wait_10_ms", "STOP">>
         /\ op = "sample" => todo = <<"sample", "scl_low">>
         /\ op = "scl_low" => todo = <<"scl_low">>
BY DEF BitBang!Does, BitBangInv, BitBangAt, BitBang!start, BitBang!stop, BitBang!read_bit

LEMMA BitBangInit == BitBang!Init => BitBangInv
<1> SUFFICES ASSUME BitBang!Init PROVE BitBangInv
  OBVIOUS
<1>. QED  BY DEF BitBang!Init, BitBangInv, BitBangAt, Closed, BitBang!HeardAsMeant, BitBang!stop

LEMMA BitBangNext == BitBangInv /\ [BitBang!Next]_(BitBang!vars) => BitBangInv'
<1> SUFFICES ASSUME BitBangInv, [BitBang!Next]_(BitBang!vars) PROVE BitBangInv'
  OBVIOUS
<1>1. CASE BitBang!Call
  <2>1. UNCHANGED <<sda, scl, data, stretch, meant, heard, late>>
    BY <1>1 DEF BitBang!Call
  <2>2. BitBangAt'
    BY <1>1, <2>1
       DEF BitBang!Call, BitBangInv, BitBangAt, Closed, BitBang!start, BitBang!stop, BitBang!read_bit
  <2>. QED BY <2>1, <2>2 DEF BitBangInv, BitBang!HeardAsMeant
<1>2. CASE BitBang!Bit
  <2>1. UNCHANGED <<sda, scl, data, stretch, meant, heard, late>>
    BY <1>2 DEF BitBang!Bit
  <2>2. BitBangAt'
    BY <1>2, <2>1
       DEF BitBang!Bit, BitBangInv, BitBangAt, Closed, BitBang!start, BitBang!stop,
           BitBang!read_bit, BitBang!write_bit
  <2>. QED BY <2>1, <2>2 DEF BitBangInv, BitBang!HeardAsMeant
<1>3. CASE BitBang!SetSda
  <2>1. /\ UNCHANGED <<bits, scl, data, stretch, meant, late>> /\ BitBang!Listen
        /\ \/ BitBang!Does("sda_high") /\ sda' = FALSE
           \/ BitBang!Does("sda_low") /\ sda' = TRUE
    BY <1>3 DEF BitBang!SetSda, BitBang!Does
  <2>2. \/ /\ todo = BitBang!start /\ todo' = <<"scl_high", "START", "scl_low">>
           /\ sda' = FALSE
        \/ /\ todo = <<"sda_high", "scl_high", "wait", "scl_low">>
           /\ todo' = <<"scl_high", "wait", "scl_low">> /\ sda' = FALSE
        \/ /\ todo = BitBang!stop /\ todo' = <<"scl_high", "wait_10_ms", "STOP">>
           /\ sda' = TRUE
        \/ /\ todo = <<"sda_low", "scl_high", "wait", "scl_low">>
           /\ todo' = <<"scl_high", "wait", "scl_low">> /\ sda' = TRUE
    BY <2>1, Does, Tails DEF BitBang!start, BitBang!stop, BitBang!read_bit
  <2>3. sda' \in BOOLEAN /\ (scl \/ sda' = sda)
    <3>1. todo = BitBang!start => scl \/ sda = FALSE
      BY DEF BitBangInv, BitBangAt, Closed, BitBang!start, BitBang!stop, BitBang!read_bit
    <3>2. todo = BitBang!stop => scl
      BY DEF BitBangInv, BitBangAt, Closed, BitBang!start, BitBang!stop, BitBang!read_bit
    <3>3. todo \in {<<"sda_high", "scl_high", "wait", "scl_low">>,
                   <<"sda_low", "scl_high", "wait", "scl_low">>} => scl
      BY DEF BitBangInv, BitBangAt, Closed, BitBang!start, BitBang!stop, BitBang!read_bit
    <3>. QED  BY <2>2, <3>1, <3>2, <3>3
  <2>4. BitBangAt'
    BY <2>1, <2>2
       DEF BitBangInv, BitBangAt, Closed,
            BitBang!start, BitBang!stop, BitBang!read_bit
  <2>5. heard' = heard
    BY <2>1, <2>3 DEF BitBang!Listen, BitBang!SCL, BitBang!SDA
  <2>. QED  BY <2>1, <2>3, <2>4, <2>5 DEF BitBangInv, BitBang!HeardAsMeant
<1>4. CASE BitBang!Release
  <2>1. /\ UNCHANGED <<bits, scl, stretch, meant, late>> /\ BitBang!Listen
        /\ BitBang!Does("sda_release") /\ sda' = FALSE /\ data' \in BOOLEAN
    BY <1>4 DEF BitBang!Release, BitBang!Does
  <2>2. todo = BitBang!read_bit /\ todo' = <<"scl_high", "wait", "sample", "scl_low">>
    BY <2>1, Does, Tails DEF BitBang!start, BitBang!stop, BitBang!read_bit
  <2>3. BitBangAt' /\ scl
    BY <2>1, <2>2
       DEF BitBangInv, BitBangAt, Closed,
            BitBang!start, BitBang!stop, BitBang!read_bit
  <2>4. heard' = heard
    BY <2>1, <2>3 DEF BitBang!Listen, BitBang!SCL
  <2>. QED  BY <2>1, <2>3, <2>4 DEF BitBangInv, BitBang!HeardAsMeant
<1>5. CASE BitBang!SclHigh
  <2>1. /\ UNCHANGED <<bits, sda, data, stretch, meant, late>> /\ BitBang!Listen
        /\ BitBang!Does("scl_high") /\ scl' = FALSE
    BY <1>5 DEF BitBang!SclHigh, BitBang!Does
  <2>2. \/ /\ todo = <<"scl_high", "START", "scl_low">> /\ todo' = <<"START", "scl_low">>
        \/ /\ todo = <<"scl_high", "wait_10_ms", "STOP">> /\ todo' = <<"wait_10_ms", "STOP">>
        \/ /\ todo = <<"scl_high", "wait", "scl_low">> /\ todo' = <<"wait", "scl_low">>
        \/ /\ todo = <<"scl_high", "wait", "sample", "scl_low">>
           /\ todo' = <<"wait", "sample", "scl_low">>
    BY <2>1, Does, Tails DEF BitBang!start, BitBang!stop, BitBang!read_bit
  <2>3. BitBangAt'
    BY <2>1, <2>2
       DEF BitBangInv, BitBangAt, Closed,
            BitBang!start, BitBang!stop, BitBang!read_bit
  <2>4. heard' = heard
    BY <2>1 DEF BitBang!Listen, BitBang!SDA
  <2>. QED  BY <2>1, <2>3, <2>4 DEF BitBangInv, BitBang!HeardAsMeant
<1>6. CASE BitBang!SclLow
  <2>1. /\ UNCHANGED <<bits, sda, meant, late>> /\ BitBang!Listen
        /\ BitBang!Does("scl_low") /\ scl' = TRUE /\ data' = FALSE /\ stretch' \in BOOLEAN
    BY <1>6 DEF BitBang!SclLow, BitBang!Does
  <2>2. todo = <<"scl_low">> /\ todo' = << >>
    BY <2>1, Does, Tails DEF BitBang!start, BitBang!stop, BitBang!read_bit
  <2>3. BitBangAt'
    BY <2>1, <2>2
       DEF BitBangInv, BitBangAt, Closed,
            BitBang!start, BitBang!stop, BitBang!read_bit
  <2>4. heard' = heard
    BY <2>1 DEF BitBang!Listen, BitBang!SCL
  <2>. QED  BY <2>1, <2>3, <2>4 DEF BitBangInv, BitBang!HeardAsMeant
<1>7. CASE BitBang!Wait
  <2>1. /\ UNCHANGED <<bits, sda, scl, data, stretch, meant>> /\ BitBang!Listen
        /\ \/ BitBang!Does("wait") /\ UNCHANGED late
           \/ BitBang!Does("wait_10_ms") /\ late' \in BOOLEAN /\ (late => late')
    BY <1>7 DEF BitBang!Wait, BitBang!Does
  <2>2. \/ todo = <<"wait", "scl_low">> /\ todo' = <<"scl_low">>
        \/ todo = <<"wait", "sample", "scl_low">> /\ todo' = <<"sample", "scl_low">>
        \/ todo = <<"wait_10_ms", "STOP">> /\ todo' = <<"STOP">>
    BY <2>1, Does, Tails DEF BitBang!start, BitBang!stop, BitBang!read_bit
  <2>3. BitBangAt'
    BY <2>1, <2>2
       DEF BitBangInv, BitBangAt, Closed,
            BitBang!start, BitBang!stop, BitBang!read_bit
  <2>4. heard' = heard
    BY <2>1 DEF BitBang!Listen, BitBang!SDA
  <2>. QED  BY <2>1, <2>3, <2>4 DEF BitBangInv, BitBang!HeardAsMeant
<1>8. CASE BitBang!Sample
  <2>1. /\ UNCHANGED <<bits, sda, scl, data, stretch, meant, late>> /\ BitBang!Listen
        /\ BitBang!Does("sample")
    BY <1>8 DEF BitBang!Sample, BitBang!Does
  <2>2. todo = <<"sample", "scl_low">> /\ todo' = <<"scl_low">>
    BY <2>1, Does, Tails DEF BitBang!start, BitBang!stop, BitBang!read_bit
  <2>3. BitBangAt'
    BY <2>1, <2>2
       DEF BitBangInv, BitBangAt, Closed,
            BitBang!start, BitBang!stop, BitBang!read_bit
  <2>4. heard' = heard
    BY <2>1 DEF BitBang!Listen, BitBang!SDA
  <2>. QED  BY <2>1, <2>3, <2>4 DEF BitBangInv, BitBang!HeardAsMeant
<1>9. CASE BitBang!Edge
  <2>1. /\ UNCHANGED <<bits, scl, data, stretch>> /\ BitBang!Listen
        /\ late' \in BOOLEAN /\ (late => late') /\ (~late' => BitBang!SCL)
    BY <1>9 DEF BitBang!Edge, BitBang!Does
  <2>2. CASE BitBang!Does("START") /\ sda' = TRUE /\ meant' = TRUE
    <3>1. todo = <<"START", "scl_low">> /\ todo' = <<"scl_low">>
      BY <2>2, Does, Tails
    <3>2. BitBangAt' /\ ~data /\ ~sda
      BY <2>1, <2>2, <3>1
         DEF BitBangInv, BitBangAt, Closed,
            BitBang!start, BitBang!stop, BitBang!read_bit
    <3>3. heard' \in BOOLEAN /\ (~late' => heard')
      BY <2>1, <2>2, <3>2
         DEF BitBang!Listen, BitBang!SCL, BitBang!SDA, BitBangInv
    <3>. QED  BY <2>1, <2>2, <3>2, <3>3 DEF BitBangInv, BitBang!HeardAsMeant
  <2>3. CASE BitBang!Does("STOP") /\ sda' = FALSE /\ meant' = FALSE
    <3>1. todo = <<"STOP">> /\ todo' = << >>
      BY <2>3, Does, Tails
    <3>2. BitBangAt' /\ ~data /\ sda
      BY <2>1, <2>3, <3>1
         DEF BitBangInv, BitBangAt, Closed,
            BitBang!start, BitBang!stop, BitBang!read_bit
    <3>3. heard' \in BOOLEAN /\ (~late' => ~heard')
      BY <2>1, <2>3, <3>2
         DEF BitBang!Listen, BitBang!SCL, BitBang!SDA, BitBangInv
    <3>. QED  BY <2>1, <2>3, <3>2, <3>3 DEF BitBangInv, BitBang!HeardAsMeant
  <2>. QED  BY <1>9, <2>2, <2>3 DEF BitBang!Edge
<1>10. CASE BitBang!EndStretch
  <2>1. /\ UNCHANGED <<todo, bits, sda, scl, data, meant, late>> /\ stretch' = FALSE
    BY <1>10 DEF BitBang!EndStretch
  <2>2. heard' = heard
    BY <1>10, <2>1 DEF BitBang!EndStretch, BitBang!Listen, BitBang!SDA
  <2>. QED BY <2>1, <2>2 DEF BitBangInv, BitBang!HeardAsMeant, BitBangAt, Closed
<1>11. CASE UNCHANGED BitBang!vars
  BY <1>11 DEF BitBang!vars, BitBangInv, BitBangAt, Closed, BitBang!HeardAsMeant
<1>. QED
  BY <1>1, <1>2, <1>3, <1>4, <1>5, <1>6, <1>7, <1>8, <1>9, <1>10, <1>11 DEF BitBang!Next

LEMMA BitBangRuns == [BusesNext]_buses => [BitBang!Next]_(BitBang!vars)
BY DEF BusesNext, buses, Only, BitBang_vars, BitBang!vars

(* Bytes of any number of bits, repeated starts and stretched clocks: the    *)
(* listeners hear a START and a STOP where I2CBus makes them and nowhere    *)
(* else, unless start() or stop() went on with the clock held low.          *)
THEOREM BitsAreHeardAsMeant == BusesSpec => []HeardAsMeant
<1>1. BusesInit => BitBangInv
  BY BitBangInit DEF BusesInit
<1>2. BitBangInv /\ [BusesNext]_buses => BitBangInv'
  BY BitBangNext, BitBangRuns
<1>3. BitBangInv => HeardAsMeant
  BY DEF BitBangInv, HeardAsMeant
<1>. QED
  BY <1>1, <1>2, <1>3, PTL DEF BusesSpec

-----------------------------------------------------------------------------
(* CanScheduler: while transmit_queue() runs, every message still queued is *)
(* at most as urgent as the one sent last.                                  *)
SchedulerInv ==
  /\ queued \in [Scheduler!Id -> Nat] /\ s_last \in Nat
  /\ s_at \in {"process", "transmit"}
  /\ s_at = "process" => s_last = 0
  /\ \A i \in Scheduler!Id : queued[i] > 0 => s_last <= i

LEMMA SchedulerInit == Scheduler!Init => SchedulerInv
BY SchedulerAssumption DEF Scheduler!Init, SchedulerInv, Scheduler!Id

(* A step keeps the invariant, and what it sends is no more urgent than what *)
(* was sent before.                                                          *)
LEMMA SchedulerNext ==
  SchedulerInv /\ [Scheduler!Next]_(Scheduler!vars) =>
    SchedulerInv' /\ (s_last' # s_last /\ s_last' # 0 => s_last <= s_last')
<1> SUFFICES ASSUME SchedulerInv, [Scheduler!Next]_(Scheduler!vars)
             PROVE  SchedulerInv' /\ (s_last' # s_last /\ s_last' # 0 => s_last <= s_last')
  OBVIOUS
<1>1. ASSUME NEW S, Scheduler!Prepare(S), s_at = "process",
             s_at' \in {"process", "transmit"}, s_last' = 0
      PROVE  SchedulerInv'
  <2>1. queued' \in [Scheduler!Id -> Nat]
    BY <1>1 DEF Scheduler!Prepare, SchedulerInv
  <2>2. \A i \in Scheduler!Id : 0 <= i
    BY SchedulerAssumption DEF Scheduler!Id
  <2>. QED  BY <1>1, <2>1, <2>2 DEF SchedulerInv
<1>2. ASSUME Scheduler!Transmit, s_at = "transmit"
      PROVE  SchedulerInv' /\ s_last <= s_last'
  <2>1. PICK i \in Scheduler!Id :
          /\ queued[i] > 0 /\ \A j \in Scheduler!Id : queued[j] > 0 => i <= j
          /\ queued' = [queued EXCEPT ![i] = @ - 1]
          /\ s_last' = i /\ UNCHANGED s_at
    BY <1>2 DEF Scheduler!Transmit, Scheduler!Outranks
  <2>2. queued' \in [Scheduler!Id -> Nat] /\ i \in Nat
        /\ \A j \in Scheduler!Id : queued'[j] > 0 => queued[j] > 0
    BY <2>1, SchedulerAssumption DEF SchedulerInv, Scheduler!Id
  <2>. QED  BY <1>2, <2>1, <2>2 DEF SchedulerInv
<1>3. ASSUME Scheduler!Drained, UNCHANGED queued, s_at' = "process", s_last' = 0
      PROVE  SchedulerInv'
  BY <1>3 DEF SchedulerInv, Scheduler!Drained
<1>4. CASE Scheduler!Tick \/ Scheduler!Press
  BY <1>4 DEF Scheduler!Tick, Scheduler!Press, SchedulerInv
<1>5. CASE Scheduler!MainProcess
  BY <1>1, <1>5 DEF Scheduler!MainProcess, Scheduler!process_hybrid
<1>6. CASE Scheduler!MainTransmit
  BY <1>2, <1>6 DEF Scheduler!MainTransmit
<1>7. CASE Scheduler!MainSleep
  BY <1>3, <1>7 DEF Scheduler!MainSleep
<1>8. CASE Scheduler!ApiProcess
  BY <1>1, <1>8
     DEF Scheduler!ApiProcess, Scheduler!process_time_triggered,
         Scheduler!process_event_triggered, Scheduler!process_hybrid, SchedulerInv
<1>9. CASE Scheduler!ApiTransmit
  <2>1. CASE s_at = "process"
    BY <1>9, <2>1 DEF Scheduler!ApiTransmit, SchedulerInv
  <2>2. CASE s_at = "transmit"
    BY <1>2, <1>3, <1>9, <2>2 DEF Scheduler!ApiTransmit
  <2>. QED  BY <1>9, <2>1, <2>2 DEF SchedulerInv
<1>10. CASE UNCHANGED Scheduler!vars
  BY <1>10 DEF Scheduler!vars, SchedulerInv
<1>. QED
  BY <1>4, <1>5, <1>6, <1>7, <1>8, <1>9, <1>10 DEF Scheduler!Next, Scheduler!Main

LEMMA SchedulerRuns == [BusesNext]_buses => [Scheduler!Next]_(Scheduler!vars)
BY DEF BusesNext, buses, Only, Scheduler_vars, Scheduler!vars

(* Within one transmit_queue() a smaller identifier never waits behind a     *)
(* larger one, whatever was prepared and however many copies of it.          *)
THEOREM UrgentLeavesFirst == BusesSpec => Scheduler!UrgentFirst
<1>1. BusesInit => SchedulerInv
  BY SchedulerInit DEF BusesInit
<1>2. SchedulerInv /\ [BusesNext]_buses => SchedulerInv'
  BY SchedulerNext, SchedulerRuns
<1>3. SchedulerInv /\ [BusesNext]_buses
        => [s_last' # s_last /\ s_last' # 0 => s_last <= s_last']_(Scheduler!vars)
  BY SchedulerNext, SchedulerRuns
<1>. QED
  BY <1>1, <1>2, <1>3, PTL DEF BusesSpec, Scheduler!UrgentFirst
-----------------------------------------------------------------------------
(* I2cMultiMaster: where a master is sure to let a line be high. *)
MasterField == {"sda", "scl", "at", "op", "bits", "bytes", "arb_state", "is_master",
                "retry_count", "result"}

LetsScl == {"idle", "retry", "sda?", "scl?", "wait", "sent", "stop3"}
LetsSda == {"start2", "sda?", "scl?", "retry"}

MasterInv(r) ==
  /\ DOMAIN r = MasterField
  /\ r.at \in LetsScl => r.scl
  /\ r.at \in LetsSda => r.sda
  /\ r.at = "idle" => r.sda \/ r.result = "Timeout"

MastersInv ==
  /\ DOMAIN master = Master
  /\ \A m \in Master : MasterInv(master[m])

LEMMA MastersInit == Arbitration!Init => MastersInv
BY DEF Arbitration!Init, MastersInv, MasterInv, MasterField, LetsScl, LetsSda

(* A step of master m changes the given fields of its record only. *)
LEMMA MasterDoes ==
  ASSUME MastersInv, NEW m \in Master, NEW from, NEW fields,
         DOMAIN fields \subseteq MasterField, Arbitration!Does(m, from, fields)
  PROVE  /\ MasterInv(master[m]) /\ master[m].at = from
         /\ DOMAIN master'[m] = MasterField
         /\ \A f \in MasterField :
              master'[m][f] = IF f \in DOMAIN fields THEN fields[f] ELSE master[m][f]
         /\ MasterInv(master'[m]) => MastersInv'
<1> DEFINE new == Arbitration!Over(fields, master[m])
<1>1. MasterInv(master[m]) /\ DOMAIN master[m] = MasterField
  BY DEF MastersInv, MasterInv
<1>2. master[m].at = from /\ master' = [master EXCEPT ![m] = new]
  BY DEF Arbitration!Does
<1>3. DOMAIN new = MasterField
      /\ \A f \in MasterField :
           new[f] = IF f \in DOMAIN fields THEN fields[f] ELSE master[m][f]
  BY <1>1 DEF Arbitration!Over
<1> HIDE DEF new
<1>4. master'[m] = new /\ DOMAIN master' = Master
      /\ \A o \in Master : o # m => master'[o] = master[o]
  BY <1>2 DEF MastersInv
<1>5. MasterInv(master'[m]) => MastersInv'
  BY <1>4 DEF MastersInv
<1> QED BY <1>1, <1>2, <1>3, <1>4, <1>5

LEMMA DrivesAt ==
  /\ Arbitration!Drives["start1"] = <<"sda", TRUE, "start2">>
  /\ Arbitration!Drives["start2"] = <<"scl", TRUE, "sda?">>
  /\ Arbitration!Drives["start4"] = <<"sda", FALSE, "start5">>
  /\ Arbitration!Drives["bit1"] = <<"scl", TRUE, "wait">>
  /\ Arbitration!Drives["ack1"] = <<"scl", TRUE, "ack2">>
  /\ Arbitration!Drives["ack2"] = <<"sda", TRUE, "ack?">>
  /\ Arbitration!Drives["read0"] = <<"sda", TRUE, "read1">>
  /\ Arbitration!Drives["read1"] = <<"scl", TRUE, "read?">>
  /\ Arbitration!Drives["rack2"] = <<"scl", TRUE, "rack3">>
  /\ Arbitration!Drives["stop1"] = <<"sda", FALSE, "stop2">>
  /\ Arbitration!Drives["stop2"] = <<"scl", TRUE, "stop3">>
BY DEF Arbitration!Drives

LEMMA MastersNext == MastersInv /\ [Arbitration!Next]_(Arbitration!vars) => MastersInv'
<1> SUFFICES ASSUME MastersInv, [Arbitration!Next]_(Arbitration!vars) PROVE MastersInv'
  OBVIOUS
<1>u. CASE UNCHANGED Arbitration!vars
  BY <1>u DEF Arbitration!vars, MastersInv
<1>m. SUFFICES ASSUME NEW m \in Master, Arbitration!Call(m) \/ Arbitration!Step(m)
               PROVE  MastersInv'
  BY <1>u DEF Arbitration!Next
(* What is to be shown of a step from one place that changes some fields. *)
<1> DEFINE Good(from, fields) ==
      /\ DOMAIN fields \subseteq MasterField
      /\ \A r : /\ DOMAIN r = MasterField
                /\ \A f \in MasterField :
                     r[f] = IF f \in DOMAIN fields THEN fields[f] ELSE master[m][f]
                /\ MasterInv(master[m]) /\ master[m].at = from
                => MasterInv(r)
<1>d. ASSUME NEW from, NEW fields, Good(from, fields), Arbitration!Does(m, from, fields)
      PROVE  MastersInv'
  BY <1>d, MasterDoes
<1> USE DEF MasterField, LetsScl, LetsSda, MasterInv
<1>1. CASE Arbitration!Drive(m)
  <2> DEFINE d == Arbitration!Drives[master[m].at]
             fields == Arbitration!Over([l \in {d[1]} |-> d[2]], [at |-> d[3]])
  <2>1. Arbitration!Does(m, master[m].at, fields)
    BY <1>1 DEF Arbitration!Drive
  <2>2. /\ d[1] \in {"sda", "scl"}
        /\ d[3] \in LetsSda \cup LetsScl => d[2]
        /\ d[3] \in {"sda?"} => d[1] = "scl" /\ master[m].at = "start2"
        /\ d[3] \in LetsScl \ {"sda?"} => d[1] = "scl"
        /\ d[3] \in {"start2"} => d[1] = "sda"
        /\ d[3] \notin {"idle", "retry", "scl?"}
    <3>1. master[m].at \in {"start1", "start2", "start4", "bit1", "ack1", "ack2", "read0",
                            "read1", "rack2", "stop1", "stop2"}
      BY <1>1 DEF Arbitration!Drive, Arbitration!Drives
    <3>2. ASSUME NEW l \in {"sda", "scl"}, NEW v \in BOOLEAN, NEW then,
                 d = <<l, v, then>>
          PROVE  d[1] = l /\ (d[2] <=> v) /\ d[3] = then
      BY <3>2
    <3>3. CASE master[m].at = "start1"
      <4>1. d = <<"sda", TRUE, "start2">>
        BY <3>3, DrivesAt
      <4> QED BY <3>2, <3>3, <4>1
    <3>4. CASE master[m].at = "start2"
      <4>1. d = <<"scl", TRUE, "sda?">>
        BY <3>4, DrivesAt
      <4> QED BY <3>2, <3>4, <4>1
    <3>5. CASE master[m].at = "start4"
      <4>1. d = <<"sda", FALSE, "start5">>
        BY <3>5, DrivesAt
      <4> QED BY <3>2, <3>5, <4>1
    <3>6. CASE master[m].at = "bit1"
      <4>1. d = <<"scl", TRUE, "wait">>
        BY <3>6, DrivesAt
      <4> QED BY <3>2, <3>6, <4>1
    <3>7. CASE master[m].at = "ack1"
      <4>1. d = <<"scl", TRUE, "ack2">>
        BY <3>7, DrivesAt
      <4> QED BY <3>2, <3>7, <4>1
    <3>8. CASE master[m].at = "ack2"
      <4>1. d = <<"sda", TRUE, "ack?">>
        BY <3>8, DrivesAt
      <4> QED BY <3>2, <3>8, <4>1
    <3>9. CASE master[m].at = "read0"
      <4>1. d = <<"sda", TRUE, "read1">>
        BY <3>9, DrivesAt
      <4> QED BY <3>2, <3>9, <4>1
    <3>10. CASE master[m].at = "read1"
      <4>1. d = <<"scl", TRUE, "read?">>
        BY <3>10, DrivesAt
      <4> QED BY <3>2, <3>10, <4>1
    <3>11. CASE master[m].at = "rack2"
      <4>1. d = <<"scl", TRUE, "rack3">>
        BY <3>11, DrivesAt
      <4> QED BY <3>2, <3>11, <4>1
    <3>12. CASE master[m].at = "stop1"
      <4>1. d = <<"sda", FALSE, "stop2">>
        BY <3>12, DrivesAt
      <4> QED BY <3>2, <3>12, <4>1
    <3>13. CASE master[m].at = "stop2"
      <4>1. d = <<"scl", TRUE, "stop3">>
        BY <3>13, DrivesAt
      <4> QED BY <3>2, <3>13, <4>1
    <3> QED BY <3>1, <3>3, <3>4, <3>5, <3>6, <3>7, <3>8, <3>9, <3>10, <3>11, <3>12, <3>13
  <2> HIDE DEF d
  <2>3. /\ DOMAIN fields = {d[1], "at"}
        /\ fields[d[1]] = d[2] /\ fields["at"] = d[3]
    BY <2>2 DEF Arbitration!Over
  <2> HIDE DEF fields
  <2>4. Good(master[m].at, fields)
    BY <2>2, <2>3
  <2> QED BY <1>d, <2>1, <2>4
<1>2. CASE Arbitration!StartBusy(m)
  <2> DEFINE fields == Arbitration!Error("BusBusy")
  <2>1. DOMAIN fields = {"result", "at"} /\ fields.at = "retry"
    BY DEF Arbitration!Error
  <2> HIDE DEF fields
  <2>2. Good("sda?", fields) /\ Good("scl?", fields)
    BY <2>1
  <2>3. Arbitration!Does(m, "sda?", fields) \/ Arbitration!Does(m, "scl?", fields)
    BY <1>2 DEF Arbitration!StartBusy, fields
  <2> HIDE DEF Good
  <2> QED BY <1>d, <2>2, <2>3
<1>3. CASE Arbitration!StartFree(m)
  <2>1. Good("sda?", [at |-> "scl?"]) /\ Good("scl?", [at |-> "start4"])
    OBVIOUS
  <2> HIDE DEF Good
  <2> QED BY <1>3, <1>d, <2>1 DEF Arbitration!StartFree
<1>4. CASE Arbitration!Started(m)
  <2> DEFINE fields == [scl |-> FALSE, arb_state |-> "InProgress", bits |-> a_Bits,
                        bytes |-> a_Bytes, at |-> "bit1"]
  <2>1. Good("start5", fields)
    OBVIOUS
  <2>2. Arbitration!Does(m, "start5", fields)
    BY <1>4 DEF Arbitration!Started
  <2> HIDE DEF Good, fields
  <2> QED BY <1>d, <2>1, <2>2
<1>5. CASE Arbitration!SclTimeout(m)
  <2> DEFINE fields == Arbitration!Error("Timeout")
  <2>1. fields = [result |-> "Timeout", at |-> "idle"]
    BY DEF Arbitration!Error
  <2>2. Good("wait", fields)
    BY <2>1
  <2>3. Arbitration!Does(m, "wait", fields)
    BY <1>5 DEF Arbitration!SclTimeout
  <2> HIDE DEF Good, fields
  <2> QED BY <1>d, <2>2, <2>3
<1>6. CASE Arbitration!SendBit(m)
  <2>1. PICK bit \in BOOLEAN : Arbitration!Does(m, "wait", [sda |-> bit, at |-> "sent"])
    BY <1>6 DEF Arbitration!SendBit
  <2>2. Good("wait", [sda |-> bit, at |-> "sent"])
    OBVIOUS
  <2> HIDE DEF Good
  <2> QED BY <1>d, <2>1, <2>2
<1>7. CASE Arbitration!ArbitrationLost(m)
  <2> DEFINE fields == Arbitration!Over(Arbitration!Error("ArbitrationLost"),
                                        [arb_state |-> "Lost", is_master |-> FALSE])
  <2>1. /\ DOMAIN fields = {"result", "at", "arb_state", "is_master"}
        /\ fields.at = "retry"
    BY DEF Arbitration!Error, Arbitration!Over
  <2> HIDE DEF fields
  <2>2. Arbitration!Does(m, "sent", fields) /\ master[m].sda
    BY <1>7 DEF Arbitration!ArbitrationLost, fields
  <2>3. Good("sent", fields)
    BY <2>1, <2>2
  <2> HIDE DEF Good
  <2> QED BY <1>d, <2>2, <2>3
<1>8. CASE Arbitration!BitKept(m)
  <2>1. Good("sent", [at |-> "kept"])
    OBVIOUS
  <2> HIDE DEF Good
  <2> QED BY <1>d, <1>8, <2>1 DEF Arbitration!BitKept
(* The step after a bit pulls SCL low and goes to a place that allows it. *)
<1>9. ASSUME NEW again \in {"bit1", "read1"}, NEW then \in {"ack1", "rack1"}, NEW from,
             Arbitration!Does(m, from, Arbitration!Over(Arbitration!NextBit(m, again, then),
                                                        [scl |-> FALSE]))
      PROVE  MastersInv'
  <2> DEFINE fields == Arbitration!Over(Arbitration!NextBit(m, again, then), [scl |-> FALSE])
  <2>1. DOMAIN fields = {"bits", "at", "scl"} /\ fields.at \in {again, then}
    BY DEF Arbitration!NextBit, Arbitration!Over
  <2>2. Arbitration!Does(m, from, fields)
    BY <1>9
  <2> HIDE DEF fields
  <2>3. Good(from, fields)
    BY <2>1
  <2> HIDE DEF Good
  <2> QED BY <1>d, <2>2, <2>3
<1>10. CASE Arbitration!BitDone(m)
  BY <1>9, <1>10 DEF Arbitration!BitDone
<1>11. CASE Arbitration!ReadBit(m)
  BY <1>9, <1>11 DEF Arbitration!ReadBit
<1>12. CASE Arbitration!AckRead(m)
  <2>1. Good("ack?", [at |-> "ack"]) /\ Good("ack?", [at |-> "nack"])
    OBVIOUS
  <2> HIDE DEF Good
  <2> QED BY <1>d, <1>12, <2>1 DEF Arbitration!AckRead
<1>13. CASE Arbitration!Ack(m)
  <2> DEFINE b == master[m].bytes
             go == CASE b = 0 -> [at |-> "stop1", result |-> "Ok"]
                     [] b > 0 /\ master[m].op = "read" -> [at |-> "read0"]
                     [] OTHER -> [at |-> "bit1", bytes |-> b - 1]
             fields == Arbitration!Over(go, [scl |-> FALSE, arb_state |-> "Won"])
  <2>1. Arbitration!Does(m, "ack", fields)
    BY <1>13 DEF Arbitration!Ack
  <2>3. DOMAIN go \subseteq MasterField /\ "at" \in DOMAIN go
        /\ go.at \in {"stop1", "read0", "bit1"}
    OBVIOUS
  <2> HIDE DEF go
  <2>4. /\ DOMAIN fields \subseteq MasterField /\ "at" \in DOMAIN fields
        /\ fields.at \in {"stop1", "read0", "bit1"}
    BY <2>3 DEF Arbitration!Over
  <2> HIDE DEF fields
  <2>5. Good("ack", fields)
    BY <2>4
  <2> HIDE DEF Good
  <2> QED BY <1>d, <2>1, <2>5
<1>14. CASE Arbitration!Nack(m)
  <2>1. Good("nack", [scl |-> FALSE, result |-> "Nack", at |-> "stop1"])
    OBVIOUS
  <2> HIDE DEF Good
  <2> QED BY <1>d, <1>14, <2>1 DEF Arbitration!Nack
<1>15. CASE Arbitration!ReadAck(m)
  <2> DEFINE fields == [sda |-> master[m].bytes = 1, at |-> "rack2"]
  <2>1. Good("rack1", fields)
    OBVIOUS
  <2>2. Arbitration!Does(m, "rack1", fields)
    BY <1>15 DEF Arbitration!ReadAck
  <2> HIDE DEF Good, fields
  <2> QED BY <1>d, <2>1, <2>2
<1>16. CASE Arbitration!ByteRead(m)
  <2> DEFINE final == master[m].bytes = 1
             fields == [scl |-> FALSE, bytes |-> master[m].bytes - 1,
                        result |-> IF final THEN "Ok" ELSE master[m].result,
                        at |-> IF final THEN "stop1" ELSE "read0"]
  <2>1. Arbitration!Does(m, "rack3", fields)
    BY <1>16 DEF Arbitration!ByteRead
  <2>2. DOMAIN fields = {"scl", "bytes", "result", "at"} /\ fields.at \in {"stop1", "read0"}
    OBVIOUS
  <2> HIDE DEF fields
  <2>3. Good("rack3", fields)
    BY <2>2
  <2> HIDE DEF Good
  <2> QED BY <1>d, <2>1, <2>3
<1>17. CASE Arbitration!Stopped(m)
  <2>1. Good("stop3", [sda |-> TRUE, is_master |-> TRUE, at |-> "idle"])
    OBVIOUS
  <2> HIDE DEF Good
  <2> QED BY <1>d, <1>17, <2>1 DEF Arbitration!Stopped
<1>18. CASE Arbitration!Call(m)
  <2>1. PICK o \in {"write", "read"} :
          Arbitration!Does(m, "idle", [op |-> o, retry_count |-> 0, result |-> "called",
                                       at |-> "start1"])
    BY <1>18 DEF Arbitration!Call
  <2>2. Good("idle", [op |-> o, retry_count |-> 0, result |-> "called", at |-> "start1"])
    OBVIOUS
  <2> HIDE DEF Good
  <2> QED BY <1>d, <2>1, <2>2
<1>19. CASE Arbitration!Retry(m)
  <2> DEFINE fields == Arbitration!Again(master[m].retry_count + 1)
  <2>1. Arbitration!Does(m, "retry", fields)
    BY <1>19 DEF Arbitration!Retry
  <2>2. DOMAIN fields = {"retry_count", "result", "at"} /\ fields.at \in {"start1", "idle"}
    BY DEF Arbitration!Again
  <2> HIDE DEF fields
  <2>3. Good("retry", fields)
    BY <2>2
  <2> HIDE DEF Good
  <2> QED BY <1>d, <2>1, <2>3
<1> HIDE DEF Good
<1> QED
  BY <1>m, <1>1, <1>2, <1>3, <1>4, <1>5, <1>6, <1>7, <1>8, <1>10, <1>11, <1>12, <1>13, <1>14,
     <1>15, <1>16, <1>17, <1>18, <1>19 DEF Arbitration!Step

LEMMA MastersRun == [BusesNext]_buses => [Arbitration!Next]_(Arbitration!vars)
BY DEF BusesNext, buses, Only, Arbitration_vars, Arbitration!vars

(* Any number of masters, interleaved access by access: a master that has    *)
(* returned, or has lost and is about to try again, holds neither line low,  *)
(* except for SDA after a Timeout (the safety half of MastersShare).         *)
THEOREM MastersLetGo == BusesSpec => []Arbitration!LetsGo
<1>1. BusesInit => MastersInv
  BY MastersInit DEF BusesInit
<1>2. MastersInv /\ [BusesNext]_buses => MastersInv'
  BY MastersNext, MastersRun
<1>3. MastersInv => Arbitration!LetsGo
  BY DEF MastersInv, MasterInv, Arbitration!LetsGo, LetsScl, LetsSda
<1>. QED
  BY <1>1, <1>2, <1>3, PTL DEF BusesSpec
=============================================================================
