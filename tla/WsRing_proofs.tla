---------------------------- MODULE WsRing_proofs ----------------------------
(* Proofs about LockFreeRingBuffer for every capacity C and message set. *)
EXTENDS WsRing, Sequences, TLAPS

(* The code's (i + 1) % C is the neighbouring slot. *)
LEMMA SuccIsSlot ==
  ASSUME NEW i \in Slots
  PROVE  Succ(i) = Slot(i, 1) /\ Succ(i) \in Slots
BY CAssumption DEF Succ, Slot, Slots

(* Walking round the ring: k places, and one more at either end. *)
LEMMA SlotStep ==
  ASSUME NEW i \in Slots, NEW k \in 0 .. (C - 1)
  PROVE  /\ Slot(i, k) \in Slots
         /\ Slot(i, 0) = i
         /\ Slot(Slot(i, 1), k) = Slot(i, k + 1)
         /\ Slot(i, C) = i
BY CAssumption DEF Slot, Slots

(* Different distances below C are different slots. *)
LEMMA SlotInjective ==
  ASSUME NEW i \in Slots, NEW j \in 0 .. (C - 1), NEW k \in 0 .. (C - 1),
         Slot(i, j) = Slot(i, k)
  PROVE  j = k
BY CAssumption DEF Slot, Slots

(* len() is the distance from read_pos to write_pos, below the capacity.   *)
LEMMA LenIsDistance ==
  ASSUME read_pos \in Slots, write_pos \in Slots
  PROVE  /\ len \in 0 .. (C - 1)
         /\ write_pos = Slot(read_pos, len)
         /\ len = 0 <=> write_pos = read_pos
         /\ Succ(write_pos) # read_pos => len + 1 < C
BY CAssumption DEF len, Slot, Slots, Succ

LEMMA InitInv == Init => IInv
<1> SUFFICES ASSUME Init PROVE IInv
  OBVIOUS
<1>1. 0 \in Slots
  BY CAssumption DEF Slots
<1>2. TypeOK
  BY <1>1 DEF Init, TypeOK
<1>3. len = 0
  BY DEF Init, len
<1>4. ContentInv
  BY <1>2, <1>3, SlotStep, NoMsgAssumption DEF Init, ContentInv, TypeOK
<1>. QED
  BY <1>2, <1>4 DEF Init, IInv, ProducerInv, ConsumerInv

LEMMA NextInv == IInv /\ [Next]_vars => IInv'
<1> SUFFICES ASSUME IInv, [Next]_vars PROVE IInv'
  OBVIOUS
<1> USE CAssumption, NoMsgAssumption DEF IInv, TypeOK
<1>1. CASE PushFull \/ PopEmpty \/ UNCHANGED vars
  BY <1>1 DEF PushFull, PopEmpty, vars, producer, consumer, ProducerInv,
     ConsumerInv, ContentInv, len
<1>2. ASSUME NEW m \in Msg, PushCheck(m) PROVE IInv'
  <2>1. len + 1 < C /\ len' = len
    BY <1>2, LenIsDistance DEF PushCheck, len
  <2>2. ContentInv'
    BY <1>2, <2>1 DEF PushCheck, consumer, ContentInv
  <2>. QED
    BY <1>2, <2>1, <2>2 DEF PushCheck, consumer, ProducerInv, ConsumerInv
<1>3. CASE PushWrite
  <2>1. /\ len' = len /\ len \in 0 .. (C - 1) /\ read_pos' = read_pos
        /\ w = Slot(read_pos, len) /\ message \in Msg /\ w \in Slots
    BY <1>3, LenIsDistance DEF PushWrite, len, ProducerInv
  <2>2. \A k \in 0 .. (C - 1) : Slot(read_pos, k) \in Slots
    BY SlotStep
  <2>3. \A k \in 0 .. (C - 1) : k # len => Slot(read_pos, k) # w
    BY <2>1, SlotInjective
  <2>4. TypeOK'
    BY <1>3, <2>1 DEF PushWrite, consumer
  <2>5. ContentInv'
    <3> SUFFICES ASSUME NEW k \in 0 .. (C - 1)
                 PROVE  (buffer'[Slot(read_pos, k)] \in Msg) <=>
                          \/ k < len /\ ~ (k = 0 /\ cpc = "store")
                          \/ k = len
      BY <1>3, <2>1 DEF ContentInv, PushWrite, consumer
    <3>1. CASE k = len
      BY <1>3, <2>1, <3>1 DEF PushWrite
    <3>2. CASE k # len
      <4>1. buffer'[Slot(read_pos, k)] = buffer[Slot(read_pos, k)]
        BY <1>3, <2>2, <2>3, <3>2 DEF PushWrite
      <4>. QED
        BY <1>3, <3>2, <4>1 DEF ContentInv, PushWrite
    <3>. QED  BY <3>1, <3>2
  <2>6. ProducerInv'
    BY <1>3, <2>1 DEF PushWrite, ProducerInv
  <2>7. ConsumerInv'
    BY <1>3, <2>1 DEF PushWrite, consumer, ConsumerInv
  <2>. QED  BY <2>4, <2>5, <2>6, <2>7
<1>4. CASE PushStore
  <2>1. /\ write_pos' = Succ(write_pos) /\ len + 1 < C
        /\ len \in 0 .. (C - 1)
    BY <1>4, LenIsDistance DEF PushStore, ProducerInv
  <2>2. len' = len + 1
    <3>1. read_pos \in Slots /\ write_pos \in Slots /\ read_pos' = read_pos
      BY <1>4 DEF PushStore
    <3>. QED
      BY <2>1, <3>1 DEF len, Succ, Slots
  <2>3. TypeOK'
    BY <1>4, <2>1, SuccIsSlot DEF PushStore, consumer
  <2>4. ContentInv'
    <3>1. ppc = "store" /\ ppc' = "idle" /\ cpc' = cpc
          /\ buffer' = buffer /\ read_pos' = read_pos
      BY <1>4 DEF PushStore, consumer
    <3> SUFFICES ASSUME NEW k \in 0 .. (C - 1)
                 PROVE  (buffer[Slot(read_pos, k)] \in Msg) <=>
                          k < len + 1 /\ ~ (k = 0 /\ cpc = "store")
      BY <2>2, <3>1 DEF ContentInv, Slot
    <3>2. cpc = "store" => len > 0
      BY DEF ConsumerInv
    <3>. QED
      BY <2>1, <3>1, <3>2 DEF ContentInv
  <2>5. ProducerInv' /\ ConsumerInv'
    BY <1>4, <2>1, <2>2 DEF PushStore, consumer, ProducerInv, ConsumerInv
  <2>. QED  BY <2>3, <2>4, <2>5
<1>5. CASE PopCheck
  <2>1. len > 0 /\ len' = len
    BY <1>5, LenIsDistance DEF PopCheck, len
  <2>2. ContentInv'
    BY <1>5, <2>1 DEF PopCheck, producer, ContentInv
  <2>. QED
    BY <1>5, <2>1, <2>2 DEF PopCheck, producer, ProducerInv, ConsumerInv
<1>6. CASE PopTake
  <2>1. /\ len' = len /\ len \in 0 .. (C - 1) /\ len > 0
        /\ read_pos' = read_pos /\ r = read_pos /\ Slot(read_pos, 0) = r
    BY <1>6, LenIsDistance, SlotStep DEF PopTake, len, ConsumerInv
  <2>2. buffer[r] \in Msg
    BY <1>6, <2>1 DEF ContentInv, PopTake
  <2>3. \A k \in 0 .. (C - 1) : Slot(read_pos, k) \in Slots
    BY SlotStep
  <2>4. \A k \in 0 .. (C - 1) : k # 0 => Slot(read_pos, k) # r
    BY <2>1, SlotInjective
  <2>5. TypeOK'
    BY <1>6, <2>2 DEF PopTake, producer
  <2>6. ContentInv'
    <3> SUFFICES ASSUME NEW k \in 0 .. (C - 1)
                 PROVE  (buffer'[Slot(read_pos, k)] \in Msg) <=>
                          \/ k < len /\ k # 0
                          \/ k = len /\ ppc = "store"
      BY <1>6, <2>1 DEF ContentInv, PopTake, producer
    <3>1. CASE k = 0
      BY <1>6, <2>1, <3>1 DEF PopTake
    <3>2. CASE k # 0
      <4>1. buffer'[Slot(read_pos, k)] = buffer[Slot(read_pos, k)]
        BY <1>6, <2>3, <2>4, <3>2 DEF PopTake
      <4>. QED
        BY <1>6, <3>2, <4>1 DEF ContentInv, PopTake
    <3>. QED  BY <3>1, <3>2
  <2>7. ProducerInv'
    <3>1. ASSUME ppc = "store" PROVE buffer'[w] = buffer[w]
      <4>1. w = Slot(read_pos, len)
        BY <3>1, LenIsDistance DEF ProducerInv
      <4>. QED  BY <1>6, <2>1, <2>4, <4>1 DEF PopTake
    <3>. QED
      BY <1>6, <2>1, <3>1 DEF PopTake, producer, ProducerInv
  <2>8. ConsumerInv'
    BY <1>6, <2>1, <2>2 DEF PopTake, ConsumerInv
  <2>. QED  BY <2>5, <2>6, <2>7, <2>8
<1>7. CASE PopStore
  <2>1. /\ read_pos' = Succ(read_pos) /\ len > 0 /\ len \in 0 .. (C - 1)
        /\ read_pos' = Slot(read_pos, 1)
    BY <1>7, LenIsDistance, SuccIsSlot DEF PopStore, ConsumerInv
  <2>2. len' = len - 1
    <3>1. read_pos \in Slots /\ write_pos \in Slots /\ write_pos' = write_pos
      BY <1>7 DEF PopStore
    <3>. QED
      BY <2>1, <3>1 DEF len, Succ, Slots
  <2>3. TypeOK'
    BY <1>7, <2>1, SuccIsSlot DEF PopStore, producer
  <2>4. ContentInv'
    <3> SUFFICES ASSUME NEW k \in 0 .. (C - 1)
                 PROVE  (buffer[Slot(read_pos, k + 1)] \in Msg) <=>
                          \/ k < len - 1
                          \/ k = len - 1 /\ ppc = "store"
      BY <1>7, <2>1, <2>2, SlotStep DEF ContentInv, PopStore, producer
    <3>1. CASE k + 1 \in 0 .. (C - 1)
      BY <1>7, <2>1, <3>1 DEF ContentInv, PopStore
    <3>2. CASE k + 1 = C
      <4>1. buffer[Slot(read_pos, k + 1)] = buffer[Slot(read_pos, 0)]
        BY <3>2, SlotStep
      <4>2. buffer[Slot(read_pos, 0)] \notin Msg
        BY <1>7, <2>1 DEF ContentInv, PopStore
      <4>3. ppc = "store" => len + 1 < C
        BY DEF ProducerInv
      <4>. QED  BY <2>1, <3>2, <4>1, <4>2, <4>3
    <3>. QED  BY <3>1, <3>2
  <2>5. ProducerInv' /\ ConsumerInv'
    BY <1>7, <2>1, <2>2 DEF PopStore, producer, ProducerInv, ConsumerInv
  <2>. QED  BY <2>3, <2>4, <2>5
<1>. QED
  BY <1>1, <1>2, <1>3, <1>4, <1>5, <1>6, <1>7 DEF Next, Push, Pop

(* The invariant holds for every capacity, with no counter to rely on. *)
THEOREM RingInvariant == Spec => []IInv
BY InitInv, NextInv, PTL DEF Spec

(* push and pop never hold the same slot: the claim of their comments. *)
THEOREM SlotsExclusive == Spec => []ExclusiveSlot
<1>1. IInv => ExclusiveSlot
  <2> SUFFICES ASSUME IInv, ppc = "write", cpc = "take" PROVE w # r
    BY DEF ExclusiveSlot
  <2>. QED  BY LenIsDistance DEF IInv, TypeOK, ProducerInv, ConsumerInv
<1>. QED  BY <1>1, RingInvariant, PTL

(* Entry i of the queue: the message pop has in hand, or a live slot. *)
Entry(i) == IF i = 1 /\ cpc = "store" THEN taken
            ELSE buffer[Slot(read_pos, i - 1)]

(* Under the invariant the queue is a sequence of len messages. *)
QueueOK ==
  /\ Contents \in Seq(Msg) /\ Len(Contents) = len
  /\ \A i \in 1 .. len : Contents[i] = Entry(i)

LEMMA ContentsSeq == IInv => QueueOK
<1> SUFFICES ASSUME IInv PROVE QueueOK
  OBVIOUS
<1>1. len \in 0 .. (C - 1) /\ len \in Nat
  BY CAssumption, LenIsDistance DEF IInv, TypeOK
<1>2. ASSUME NEW i \in 1 .. len PROVE Entry(i) \in Msg
  <2>1. i - 1 \in 0 .. (C - 1) /\ i - 1 < len /\ (i - 1 = 0 => i = 1)
    BY <1>1, CAssumption
  <2>. QED
    BY <2>1 DEF Entry, IInv, ContentInv, ConsumerInv
<1>3. Contents = [i \in 1 .. len |-> Entry(i)]
  BY DEF Contents, Entry
<1>. QED  BY <1>1, <1>2, <1>3 DEF QueueOK

(* A step that changes neither the length nor an entry leaves the queue. *)
LEMMA SameContents ==
  ASSUME len' = len, \A i \in 1 .. len : Entry(i)' = Entry(i)
  PROVE  Contents' = Contents
BY DEF Contents, Entry

(***************************************************************************)
(* The ring implements the FIFO queue of C - 1 messages: a push takes      *)
(* effect at its store of write_pos, a pop at its store of read_pos.       *)
(***************************************************************************)
THEOREM RingRefinesFifo == Spec => RefinesFifo
<1>1. Init => Fifo!Init
  <2> SUFFICES ASSUME Init PROVE Fifo!Init
    OBVIOUS
  <2>1. len = 0
    BY DEF Init, len
  <2>2. Contents = << >>
    BY <2>1 DEF Contents
  <2>. QED  BY <2>2 DEF Init, Fifo!Init
<1>2. IInv /\ IInv' /\ [Next]_vars => [Fifo!Next]_(Fifo!vars)
  <2> SUFFICES ASSUME IInv, IInv', [Next]_vars
               PROVE  Fifo!Next \/ UNCHANGED Fifo!vars
    OBVIOUS
  <2> USE CAssumption
  <2>1. /\ Contents \in Seq(Msg) /\ Len(Contents) = len
        /\ \A i \in 1 .. len : Contents[i] = Entry(i)
    BY ContentsSeq DEF QueueOK
  <2>2. /\ Contents' \in Seq(Msg) /\ Len(Contents') = len'
        /\ \A i \in 1 .. len' : Contents'[i] = Entry(i)'
    <3>1. QueueOK'
      BY ContentsSeq, PTL
    <3>. QED  BY <3>1 DEF QueueOK
  <2>3. /\ read_pos \in Slots /\ write_pos \in Slots
        /\ len \in 0 .. (C - 1) /\ write_pos = Slot(read_pos, len)
    BY LenIsDistance DEF IInv, TypeOK
  <2>4. CASE PushStore
    <3>1. /\ ppc = "store" /\ w = write_pos /\ len + 1 < C /\ message \in Msg
          /\ write_pos' = Succ(write_pos) /\ read_pos' = read_pos
          /\ buffer' = buffer /\ cpc' = cpc /\ taken' = taken
          /\ popped' = popped /\ buffer[write_pos] = message
      BY <2>4 DEF PushStore, consumer, IInv, ProducerInv
    <3>2. len' = len + 1
      BY <2>3, <3>1 DEF len, Succ, Slots
    <3>3. \A i \in 1 .. len' : Entry(i)' = Entry(i)
      BY <3>1 DEF Entry
    <3>4. Entry(len + 1) = message
      <4>1. cpc = "store" => len > 0
        BY DEF IInv, ConsumerInv
      <4>. QED  BY <2>3, <3>1, <4>1 DEF Entry
    <3>5. Contents' = Append(Contents, message)
      <4>1. Append(Contents, message) \in Seq(Msg)
            /\ Len(Append(Contents, message)) = len + 1
        BY <2>1, <3>1
      <4>2. \A i \in 1 .. (len + 1) : Contents'[i] = Append(Contents, message)[i]
        BY <2>1, <2>2, <2>3, <3>1, <3>2, <3>3, <3>4
      <4>. QED  BY <2>2, <3>2, <4>1, <4>2
    <3>6. Fifo!Put(message)
      BY <2>1, <2>3, <3>1, <3>5 DEF Fifo!Put
    <3>. QED  BY <3>1, <3>6 DEF Fifo!Next
  <2>5. CASE PopStore
    <3>1. /\ cpc = "store" /\ cpc' = "idle" /\ len > 0 /\ popped' = taken
          /\ read_pos' = Succ(read_pos) /\ read_pos' = Slot(read_pos, 1)
          /\ write_pos' = write_pos /\ buffer' = buffer
      BY <2>3, <2>5, SuccIsSlot DEF PopStore, IInv, ConsumerInv
    <3>2. len' = len - 1
      BY <2>3, <3>1 DEF len, Succ, Slots
    <3>3. ASSUME NEW i \in 1 .. (len - 1) PROVE Entry(i)' = Entry(i + 1)
      <4>1. i - 1 \in 0 .. (C - 1) /\ i # 0 /\ (i + 1) - 1 = i
            /\ (i - 1) + 1 = i
        BY <2>3
      <4>2. Slot(Slot(read_pos, 1), i - 1) = Slot(read_pos, i)
        BY <2>3, <4>1, SlotStep
      <4>3. Entry(i)' = buffer[Slot(Slot(read_pos, 1), i - 1)]
        BY <3>1 DEF Entry, Slot
      <4>4. Entry(i + 1) = buffer[Slot(read_pos, i)]
        BY <4>1 DEF Entry
      <4>. QED  BY <4>2, <4>3, <4>4
    <3>4. Contents' = Tail(Contents)
      <4>1. Tail(Contents) \in Seq(Msg) /\ Len(Tail(Contents)) = len - 1
        BY <2>1, <2>3, <3>1
      <4>2. ASSUME NEW i \in 1 .. (len - 1)
            PROVE  Contents'[i] = Tail(Contents)[i]
        <5>1. Tail(Contents)[i] = Contents[i + 1] /\ i + 1 \in 1 .. len
          BY <2>1, <2>3, <3>1
        <5>. QED  BY <2>1, <2>2, <3>2, <3>3, <5>1
      <4>. QED  BY <2>2, <3>2, <4>1, <4>2
    <3>5. Head(Contents) = taken /\ Contents # << >>
      <4>1. Contents[1] = taken
        BY <2>1, <2>3, <3>1 DEF Entry
      <4>. QED  BY <2>1, <2>3, <3>1, <4>1
    <3>. QED  BY <3>1, <3>4, <3>5 DEF Fifo!Next, Fifo!Get
  <2>6. CASE PushWrite
    <3>1. /\ len' = len /\ popped' = popped /\ read_pos' = read_pos
          /\ cpc' = cpc /\ taken' = taken /\ w = Slot(read_pos, len)
          /\ buffer' = [buffer EXCEPT ![w] = message]
          /\ buffer \in [Slots -> Msg \cup {NoMsg}]
      BY <2>3, <2>6 DEF PushWrite, consumer, len, IInv, TypeOK, ProducerInv
    <3>2. ASSUME NEW i \in 1 .. len PROVE Entry(i)' = Entry(i)
      <4>1. i - 1 \in 0 .. (C - 1) /\ i - 1 # len
        BY <2>3
      <4>2. Slot(read_pos, i - 1) \in Slots /\ Slot(read_pos, i - 1) # w
        BY <2>3, <3>1, <4>1, SlotStep, SlotInjective
      <4>3. buffer'[Slot(read_pos, i - 1)] = buffer[Slot(read_pos, i - 1)]
        BY <3>1, <4>2
      <4>. QED  BY <3>1, <4>3 DEF Entry, Slot
    <3>. QED  BY <3>1, <3>2, SameContents DEF Fifo!vars
  <2>7. CASE PopTake
    <3>1. /\ len' = len /\ popped' = popped /\ read_pos' = read_pos
          /\ cpc = "take" /\ cpc' = "store" /\ r = read_pos
          /\ taken' = buffer[r]
          /\ buffer' = [buffer EXCEPT ![r] = NoMsg]
          /\ buffer \in [Slots -> Msg \cup {NoMsg}]
      BY <2>7 DEF PopTake, producer, len, IInv, TypeOK, ConsumerInv
    <3>2. ASSUME NEW i \in 1 .. len PROVE Entry(i)' = Entry(i)
      <4>1. i - 1 \in 0 .. (C - 1) /\ (i - 1 = 0 <=> i = 1)
            /\ 0 \in 0 .. (C - 1)
        BY <2>3
      <4>2. Slot(read_pos, 0) = read_pos
        BY <2>3, <4>1, SlotStep
      <4>3. CASE i = 1
        BY <3>1, <4>1, <4>2, <4>3 DEF Entry
      <4>4. CASE i # 1
        <5>1. Slot(read_pos, i - 1) \in Slots /\ Slot(read_pos, i - 1) # r
          BY <2>3, <3>1, <4>1, <4>2, <4>4, SlotStep, SlotInjective
        <5>2. buffer'[Slot(read_pos, i - 1)] = buffer[Slot(read_pos, i - 1)]
          BY <3>1, <5>1
        <5>. QED  BY <3>1, <4>4, <5>2 DEF Entry, Slot
      <4>. QED  BY <4>3, <4>4
    <3>. QED  BY <3>1, <3>2, SameContents DEF Fifo!vars
  <2>8. CASE PushFull \/ (\E m \in Msg : PushCheck(m)) \/ PopEmpty \/ PopCheck
             \/ UNCHANGED vars
    <3>1. /\ write_pos' = write_pos /\ read_pos' = read_pos
          /\ buffer' = buffer /\ popped' = popped /\ taken' = taken
          /\ (cpc' = "store" <=> cpc = "store")
      BY <2>8 DEF PushFull, PushCheck, PopEmpty, PopCheck, vars, producer,
         consumer
    <3>. QED  BY <3>1 DEF Contents, len, Slot, Fifo!vars
  <2>. QED
    BY <2>4, <2>5, <2>6, <2>7, <2>8 DEF Next, Push, Pop
<1>. QED
  BY <1>1, <1>2, RingInvariant, PTL DEF Spec, RefinesFifo, Fifo!Spec
=============================================================================
