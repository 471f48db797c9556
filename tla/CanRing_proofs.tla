--------------------------- MODULE CanRing_proofs ---------------------------
(* Proofs about the CAN ring buffer for every capacity N and message set.  *)
EXTENDS CanRing, Sequences, TLAPS

(* The code's (i + 1) % N is the neighbouring slot, wrapping after N - 1.  *)
LEMMA SuccIsSlot ==
  ASSUME NEW i \in Slots
  PROVE  /\ Succ(i) = Slot(i, 1)
         /\ Succ(i) \in Slots
BY NAssumption DEF Succ, Slot, Slots

(* The slots are a ring: walking k places, for k < N, and on by one more.  *)
LEMMA SlotStep ==
  ASSUME NEW i \in Slots, NEW k \in 0 .. (N - 1)
  PROVE  /\ Slot(i, k) \in Slots
         /\ Slot(i, 0) = i
         /\ Slot(Slot(i, k), 1) = Slot(i, k + 1)
         /\ Slot(Slot(i, 1), k) = Slot(i, k + 1)
         /\ k # 0 => Slot(i, k) # i
BY NAssumption DEF Slot, Slots

(* Every reachable state satisfies the inductive invariant: each operation *)
(* works on a slot the other side keeps away from, and count bounds them.  *)
THEOREM RingInvariant == Spec => []IInv
<1>1. Init => IInv
  BY NAssumption DEF Init, IInv, TypeOK, IndexInv, ProducerInv, ConsumerInv,
     ContentInv, Oldest, FirstFree, Slot, Slots
<1>2. IInv /\ [Next]_vars => IInv'
  <2> SUFFICES ASSUME IInv, [Next]_vars
               PROVE  IInv'
    OBVIOUS
  <2> USE NAssumption DEF IInv, TypeOK
  <2>1. CASE PushFull
    BY <2>1 DEF PushFull, vars, producer, consumer, IndexInv, ProducerInv, ConsumerInv,
       ContentInv, Oldest, FirstFree
  <2>2. ASSUME NEW m \in Msg, PushCheck(m)
        PROVE  IInv'
    BY <2>2 DEF PushCheck, is_full, consumer, IndexInv, ProducerInv, ConsumerInv,
       ContentInv, Oldest, FirstFree
  <2>3. CASE PushLoad
    BY <2>3 DEF PushLoad, consumer, IndexInv, ProducerInv, ConsumerInv,
       ContentInv, Oldest, FirstFree
  <2>4. CASE PushWrite
    BY <2>4 DEF PushWrite, consumer, IndexInv, ProducerInv, ConsumerInv,
       ContentInv, Oldest, FirstFree, Slot, Slots
  <2>5. CASE PushStore
    BY <2>5, SuccIsSlot DEF PushStore, consumer, IndexInv, ProducerInv, ConsumerInv,
       ContentInv, Oldest, FirstFree
  <2>6. CASE PushAdd
    <3>1. /\ Oldest' = Oldest /\ Oldest \in Slots
          /\ FirstFree' = head /\ FirstFree = phead
      BY <2>6 DEF PushAdd, consumer, Oldest, FirstFree
    <3>2. count \in 0 .. (N - 1) /\ count' = count + 1
      BY <2>6 DEF PushAdd, IndexInv
    <3>3. TypeOK'
      BY <2>6, <3>2 DEF PushAdd, consumer
    <3>4. IndexInv'
      <4>1. head = Slot(phead, 1) /\ phead = Slot(Oldest, count)
        BY <2>6, <3>1, SuccIsSlot DEF PushAdd, ProducerInv, IndexInv
      <4>2. FirstFree' = Slot(Oldest', count')
        BY <3>1, <3>2, <4>1, SlotStep
      <4> QED
        BY <2>6, <3>2, <4>2 DEF PushAdd, consumer, IndexInv
    <3>5. ProducerInv' /\ ConsumerInv'
      BY <2>6 DEF PushAdd, consumer, ProducerInv, ConsumerInv
    <3>6. ContentInv'
      <4>1. buffer' = buffer /\ peeked' = peeked
        BY <2>6 DEF PushAdd, consumer
      <4>2. buffer[Slot(Oldest, count)] \in Msg
        BY <2>6, <3>1 DEF PushAdd, IndexInv, ProducerInv
      <4> QED
        BY <3>1, <3>2, <4>1, <4>2 DEF ContentInv
    <3> QED
      BY <3>3, <3>4, <3>5, <3>6
  <2>7. CASE PopEmpty
    BY <2>7 DEF PopEmpty, vars, producer, consumer, IndexInv, ProducerInv, ConsumerInv,
       ContentInv, Oldest, FirstFree
  <2>8. CASE PopCheck
    BY <2>8 DEF PopCheck, is_empty, producer, IndexInv, ProducerInv, ConsumerInv,
       ContentInv, Oldest, FirstFree
  <2>9. CASE PopLoad
    BY <2>9 DEF PopLoad, producer, IndexInv, ProducerInv, ConsumerInv,
       ContentInv, Oldest, FirstFree
  <2>10. CASE PopRead
    BY <2>10 DEF PopRead, producer, IndexInv, ProducerInv, ConsumerInv,
       ContentInv, Oldest, FirstFree
  <2>11. CASE PopStore
    BY <2>11, SuccIsSlot DEF PopStore, producer, IndexInv, ProducerInv, ConsumerInv,
       ContentInv, Oldest, FirstFree
  <2>12. CASE PopSub
    <3>1. /\ Oldest' = tail /\ Oldest = ctail
          /\ FirstFree' = FirstFree
      BY <2>12 DEF PopSub, producer, Oldest, FirstFree
    <3>2. count - 1 \in 0 .. (N - 1) /\ count' = count - 1 /\ ctail \in Slots
      BY <2>12 DEF PopSub, IndexInv
    <3>3. tail = Slot(ctail, 1)
      BY <2>12, SuccIsSlot DEF PopSub, ConsumerInv
    <3>4. \A k \in 0 .. (N - 1) : Slot(tail, k) = Slot(ctail, k + 1)
      BY <3>2, <3>3, SlotStep
    <3>5. TypeOK'
      BY <2>12, <3>2 DEF PopSub, producer
    <3>6. IndexInv'
      <4>1. FirstFree = Slot(ctail, count)
        BY <3>1 DEF IndexInv
      <4>2. Slot(tail, count') = Slot(ctail, count)
        BY <3>2, <3>4
      <4>3. /\ ppc' = ppc /\ cpc' = "idle"
            /\ ppc # "idle" => count < N
        BY <2>12 DEF PopSub, producer, IndexInv
      <4> QED
        BY <3>1, <3>2, <4>1, <4>2, <4>3 DEF IndexInv
    <3>7. ProducerInv' /\ ConsumerInv'
      BY <2>12 DEF PopSub, producer, ProducerInv, ConsumerInv
    <3>8. ContentInv'
      <4>1. buffer' = buffer /\ peeked' = NoMsg
        BY <2>12 DEF PopSub
      <4>2. ASSUME NEW k \in 0 .. (N - 1), k < count'
            PROVE  buffer[Slot(tail, k)] \in Msg
        <5>1. k + 1 \in 0 .. (N - 1) /\ k + 1 < count
          BY <3>2, <4>2
        <5> QED
          BY <3>1, <3>4, <5>1 DEF ContentInv
      <4> QED
        BY <3>1, <4>1, <4>2 DEF ContentInv
    <3> QED
      BY <3>5, <3>6, <3>7, <3>8
  <2>13. CASE PeekCheck
    BY <2>13 DEF PeekCheck, is_empty, producer, IndexInv, ProducerInv, ConsumerInv,
       ContentInv, Oldest, FirstFree
  <2>14. CASE PeekLoad
    BY <2>14 DEF PeekLoad, producer, IndexInv, ProducerInv, ConsumerInv,
       ContentInv, Oldest, FirstFree
  <2>15. CASE PeekRead
    BY <2>15 DEF PeekRead, producer, IndexInv, ProducerInv, ConsumerInv,
       ContentInv, Oldest, FirstFree, Slot, Slots
  <2>16. CASE UNCHANGED vars
    BY <2>16 DEF vars, producer, consumer, IndexInv, ProducerInv, ConsumerInv,
       ContentInv, Oldest, FirstFree
  <2> QED
    BY <2>1, <2>2, <2>3, <2>4, <2>5, <2>6, <2>7, <2>8, <2>9, <2>10, <2>11,
       <2>12, <2>13, <2>14, <2>15, <2>16 DEF Next, Producer, Pop, Peek
<1> QED
  BY <1>1, <1>2, PTL DEF Spec

(* Producer and consumer never touch the same slot at once: the exclusive  *)
(* access that the SAFETY comments of push, pop and peek rely on.          *)
THEOREM RaceFreedom == Spec => []NoSlotRace
<1>1. IInv => NoSlotRace
  <2> SUFFICES ASSUME IInv, ppc = "write", cpc \in {"read", "peekread"}
               PROVE  phead # ctail
    BY DEF NoSlotRace
  <2>1. phead = Slot(tail, count) /\ ctail = tail /\ tail \in Slots
    BY DEF IInv, TypeOK, IndexInv, ProducerInv, ConsumerInv, Oldest, FirstFree
  <2>2. count \in 0 .. (N - 1) /\ count # 0
    BY NAssumption DEF IInv, TypeOK, IndexInv
  <2> QED
    BY <2>1, <2>2, SlotStep
<1> QED
  BY <1>1, RingInvariant, PTL

(* What peek showed is what the next pop returns. *)
THEOREM PeekAgrees == Spec => []PeekIsNext
<1>1. IInv => PeekIsNext
  BY DEF IInv, PeekIsNext, ConsumerInv, ContentInv, Oldest
<1> QED
  BY <1>1, RingInvariant, PTL

(* The ring implements the bounded FIFO queue, for every capacity: a push  *)
(* appends at its fetch_add, a pop removes at its fetch_sub, and no other  *)
(* step changes the queue.                                                 *)
THEOREM RingRefinesFifo == Spec => RefinesFifo
<1>1. Init => Fifo!Init
  <2> SUFFICES ASSUME Init
               PROVE  Fifo!Init
    OBVIOUS
  <2>1. Contents = << >>
    BY DEF Init, Contents
  <2> QED
    BY <2>1 DEF Init, Fifo!Init
<1>2. IInv /\ IInv' /\ [Next]_vars => [Fifo!Next]_(Fifo!vars)
  <2> SUFFICES ASSUME IInv, IInv', [Next]_vars
               PROVE  Fifo!Next \/ UNCHANGED Fifo!vars
    OBVIOUS
  <2> USE NAssumption
  <2>1. /\ Contents \in Seq(Msg) /\ Len(Contents) = count
        /\ Contents' \in Seq(Msg) /\ Len(Contents') = count'
    <3>1. \A i \in 1 .. count : buffer[Slot(Oldest, i - 1)] \in Msg
      BY DEF IInv, TypeOK, ContentInv
    <3>2. \A i \in 1 .. count' : (buffer[Slot(Oldest, i - 1)])' \in Msg
      BY DEF IInv, TypeOK, ContentInv
    <3>3. count \in Nat /\ count' \in Nat
      BY DEF IInv, TypeOK
    <3> QED
      BY <3>1, <3>2, <3>3 DEF Contents
  <2>2. CASE PushAdd
    <3>1. /\ count \in 0 .. (N - 1) /\ count' = count + 1
          /\ buffer' = buffer /\ Oldest' = Oldest /\ popped' = popped
      BY <2>2 DEF PushAdd, consumer, IInv, TypeOK, IndexInv, Oldest
    <3>2. buffer[Slot(Oldest, count)] = item /\ item \in Msg
      BY <2>2 DEF PushAdd, IInv, IndexInv, ProducerInv, FirstFree
    <3>3. Contents' = [i \in 1 .. (count + 1) |-> buffer[Slot(Oldest, i - 1)]]
      BY <3>1 DEF Contents
    <3>4. Contents' = Append(Contents, item)
      BY <2>1, <3>1, <3>2, <3>3 DEF Contents
    <3>5. Fifo!Put(item)
      BY <2>1, <3>1, <3>4 DEF Fifo!Put
    <3> QED
      BY <3>2, <3>5 DEF Fifo!Next
  <2>3. CASE PopSub
    <3>1. /\ count \in 1 .. N /\ count' = count - 1
          /\ buffer' = buffer /\ popped' = got
          /\ Oldest = ctail /\ Oldest' = tail
          /\ ctail \in Slots /\ tail = Slot(ctail, 1) /\ got = buffer[ctail]
      BY <2>3, SuccIsSlot
         DEF PopSub, IInv, TypeOK, IndexInv, ConsumerInv, Oldest
    <3>2. \A k \in 0 .. (N - 1) : Slot(tail, k) = Slot(ctail, k + 1)
      BY <3>1, SlotStep
    <3>3. Contents = [i \in 1 .. count |-> buffer[Slot(ctail, i - 1)]]
      BY <3>1 DEF Contents
    <3>4. Contents' = [i \in 1 .. (count - 1) |-> buffer[Slot(ctail, i)]]
      <4>1. Contents' = [i \in 1 .. (count - 1) |-> buffer[Slot(tail, i - 1)]]
        BY <3>1 DEF Contents
      <4>2. ASSUME NEW i \in 1 .. (count - 1)
            PROVE  Slot(tail, i - 1) = Slot(ctail, i)
        <5>1. i - 1 \in 0 .. (N - 1) /\ (i - 1) + 1 = i
          BY <3>1
        <5> QED
          BY <3>2, <5>1
      <4> QED
        BY <4>1, <4>2
    <3>5. Contents' = Tail(Contents)
      <4> HIDE DEF Contents, Slot
      <4>1. Len(Contents') = count - 1 /\ Len(Tail(Contents)) = count - 1
        BY <2>1, <3>1, <3>4
      <4>2. \A i \in 1 .. (count - 1) : Contents'[i] = Tail(Contents)[i]
        <5> TAKE i \in 1 .. (count - 1)
        <5>1. Tail(Contents)[i] = Contents[i + 1] /\ i + 1 \in 1 .. count
          BY <2>1, <3>1
        <5>2. Contents[i + 1] = buffer[Slot(ctail, i)]
          BY <3>1, <3>3, <5>1
        <5> QED
          BY <3>4, <5>1, <5>2
      <4>3. Tail(Contents) \in Seq(Msg)
        BY <2>1, <3>1
      <4> QED
        BY <2>1, <4>1, <4>2, <4>3
    <3>6. Head(Contents) = got /\ Contents # << >>
      <4>1. Slot(ctail, 0) = ctail
        BY <3>1, SlotStep
      <4>2. Contents[1] = buffer[Slot(ctail, 0)]
        BY <3>1, <3>3
      <4> QED
        BY <2>1, <3>1, <4>1, <4>2
    <3> QED
      BY <3>1, <3>5, <3>6 DEF Fifo!Next, Fifo!Get
  <2>4. CASE PushWrite
    <3>1. /\ count \in 0 .. (N - 1) /\ count' = count
          /\ Oldest' = Oldest /\ Oldest \in Slots /\ popped' = popped
          /\ phead = Slot(Oldest, count)
          /\ buffer' = [buffer EXCEPT ![phead] = item]
          /\ buffer \in [Slots -> Msg \cup {NoMsg}]
      BY <2>4 DEF PushWrite, consumer, IInv, TypeOK, IndexInv,
         ProducerInv, Oldest, FirstFree
    <3>2. \A k \in 0 .. (N - 1) :
            k < count => Slot(Oldest, k) # Slot(Oldest, count)
      BY <3>1 DEF Slot, Slots
    <3>3. \A k \in 0 .. (N - 1) : Slot(Oldest, k) \in Slots
      BY <3>1, SlotStep
    <3>4. \A i \in 1 .. count :
            buffer'[Slot(Oldest, i - 1)] = buffer[Slot(Oldest, i - 1)]
      <4> TAKE i \in 1 .. count
      <4>1. i - 1 \in 0 .. (N - 1) /\ i - 1 < count
        BY <3>1
      <4> QED
        BY <3>1, <3>2, <3>3, <4>1
    <3>5. Contents' = Contents
      BY <3>1, <3>4 DEF Contents
    <3> QED
      BY <3>1, <3>5 DEF Fifo!vars
  <2>5. CASE PushFull \/ (\E m \in Msg : PushCheck(m)) \/ PushLoad \/ PushStore
             \/ PopEmpty \/ PopCheck \/ PopLoad \/ PopRead \/ PopStore \/ Peek
             \/ UNCHANGED vars
    <3>1. count' = count /\ buffer' = buffer /\ popped' = popped
      BY <2>5 DEF PushFull, PushCheck, PushLoad, PushStore, PopEmpty, PopCheck,
         PopLoad, PopRead, PopStore, Peek, PeekCheck, PeekLoad, PeekRead,
         vars, producer, consumer
    <3>2. Oldest' = Oldest
      BY <2>5 DEF PushFull, PushCheck, PushLoad, PushStore, PopEmpty, PopCheck,
         PopLoad, PopRead, PopStore, Peek, PeekCheck, PeekLoad, PeekRead,
         vars, producer, consumer, Oldest, IInv, ConsumerInv
    <3> QED
      BY <3>1, <3>2 DEF Contents, Fifo!vars
  <2> QED
    BY <2>2, <2>3, <2>4, <2>5 DEF Next, Producer, Pop
<1> QED
  BY <1>1, <1>2, RingInvariant, PTL DEF Spec, RefinesFifo, Fifo!Spec

=============================================================================
