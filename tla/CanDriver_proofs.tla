-------------------------- MODULE CanDriver_proofs --------------------------
(* Proofs about CanDriver, for every capacity of the two rings. *)
EXTENDS CanDriver, Integers, TLAPS

(***************************************************************************)
(* The invariant: the application is about to take a received message only *)
(* when there is one (only it takes them, so the receive interrupt cannot  *)
(* falsify this), and the snapshot lies between what was reported and what *)
(* was counted.                                                            *)
(***************************************************************************)
DriverInv ==
  /\ TypeOK
  /\ NoLostKick
  /\ EachDropReportedOnce
  /\ pc \in {"receive_tail", "receive_count"} => count["rx"] > 0
  /\ \A r \in Ring : last[r] <= overflows[r]
  /\ pc = "report" =>
       \A r \in Ring : last[r] <= stats[r] /\ stats[r] <= overflows[r]

LEMMA CapFacts == Cap["tx"] \in Nat \ {0} /\ Cap["rx"] \in Nat \ {0}
BY CapAssumption DEF Ring

LEMMA InitInv == Init => DriverInv
<1> SUFFICES ASSUME Init PROVE DriverInv
  OBVIOUS
<1>1. \A r \in Ring : Zero[r] = 0
  BY DEF Zero
<1>2. Zero \in [Ring -> Nat] /\ Zero \in [Ring -> 0 .. MaxDrops]
  BY MaxDropsAssumption DEF Zero
<1>3. TypeOK
  BY <1>2 DEF Init, TypeOK
<1>4. NoLostKick /\ EachDropReportedOnce
  BY <1>1, <1>2 DEF Init, NoLostKick, EachDropReportedOnce, Ring
<1>. QED
  BY <1>1, <1>3, <1>4 DEF Init, DriverInv

(* The wrapped index is a number again. *)
LEMMA SuccNat == \A r \in Ring, i \in Nat : Succ(r, i) \in Nat
BY CapAssumption DEF Succ

(* A refused message, on whichever ring. *)
Refusal(r) == Refuse(r) /\ UNCHANGED <<txie, pc, diag>>

LEMMA RefusalInv ==
  ASSUME NEW r \in Ring, DriverInv, Refusal(r) PROVE DriverInv'
<1> USE MaxDropsAssumption DEF Refusal, Refuse, rings, diag
<1>1. TypeOK'
  <2>1. overflows' \in [Ring -> Nat]
    BY DEF DriverInv, TypeOK
  <2>2. dropped' \in [Ring -> 0 .. MaxDrops]
    <3>1. dropped[r] + 1 \in 0 .. MaxDrops
      BY DEF DriverInv, TypeOK
    <3>. QED  BY <3>1 DEF DriverInv, TypeOK
  <2>. QED  BY <2>1, <2>2 DEF DriverInv, TypeOK
<1>2. NoLostKick'
  BY DEF DriverInv, NoLostKick
<1>3. EachDropReportedOnce'
  BY DEF DriverInv, TypeOK, EachDropReportedOnce
<1>4. \A s \in Ring : overflows[s] <= overflows'[s]
  BY DEF DriverInv, TypeOK
<1>5. \A s \in Ring : last'[s] <= overflows'[s]
  BY <1>4 DEF DriverInv, TypeOK
<1>6. pc' = "report" =>
        \A s \in Ring : last'[s] <= stats'[s] /\ stats'[s] <= overflows'[s]
  <2> SUFFICES ASSUME pc = "report", NEW s \in Ring
               PROVE last[s] <= stats[s] /\ stats[s] <= overflows'[s]
    OBVIOUS
  <2>1. last[s] <= stats[s] /\ stats[s] <= overflows[s]
    BY DEF DriverInv
  <2>2. stats[s] \in Nat /\ overflows[s] \in Nat /\ overflows'[s] \in Nat
    BY <1>1 DEF DriverInv, TypeOK
  <2>. QED  BY <1>4, <2>1, <2>2
<1>7. pc' \in {"receive_tail", "receive_count"} => count'["rx"] > 0
  BY DEF DriverInv
<1>. QED  BY <1>1, <1>2, <1>3, <1>5, <1>6, <1>7 DEF DriverInv

LEMMA NextInv == DriverInv /\ [Next]_vars => DriverInv'
<1> SUFFICES ASSUME DriverInv, [Next]_vars PROVE DriverInv'
  OBVIOUS
<1> USE CapFacts, SuccNat, MaxDropsAssumption
    DEF DriverInv, TypeOK, NoLostKick, EachDropReportedOnce, Ring, rings, diag
<1>1. CASE SendFull
  <2>1. Refusal("tx")
    BY <1>1 DEF SendFull, Refuse, Refusal
  <2>. QED
    BY <1>1, <2>1, RefusalInv DEF SendFull, DriverInv
<1>2. CASE SendCheck
  BY <1>2 DEF SendCheck
<1>3. CASE SendHead
  BY <1>3 DEF SendHead
<1>4. CASE SendCount
  BY <1>4 DEF SendCount
<1>5. CASE SendEnable
  BY <1>5 DEF SendEnable
<1>6. CASE ReceiveCheck
  BY <1>6 DEF ReceiveCheck
<1>7. CASE ReceiveTail
  BY <1>7 DEF ReceiveTail
<1>8. CASE ReceiveCount
  BY <1>8 DEF ReceiveCount
<1>9. CASE CheckStats
  BY <1>9 DEF CheckStats
<1>10. CASE CheckReport
  BY <1>10 DEF CheckReport
<1>11. CASE TxIrqLoad
  BY <1>11 DEF TxIrqLoad
<1>12. CASE TxIrqDisable
  <2>1. UNCHANGED <<rings, overflows, pc, diag, dropped>> /\ count["tx"] = 0
    BY <1>12 DEF TxIrqDisable
  <2>2. txie' \in BOOLEAN
    BY <1>12 DEF TxIrqDisable
  <2>3. TypeOK'
    BY <2>1, <2>2
  <2>4. NoLostKick' /\ EachDropReportedOnce'
    BY <2>1
  <2>. QED
    BY <2>1, <2>3, <2>4
<1>13. CASE RxIrqQueue
  BY <1>13 DEF RxIrqQueue
<1>14. CASE RxIrqFull
  <2>1. Refusal("rx")
    BY <1>14 DEF RxIrqFull, Refuse, Refusal
  <2>. QED
    BY <1>14, <2>1, RefusalInv DEF RxIrqFull, DriverInv
<1>15. CASE UNCHANGED vars
  BY <1>15 DEF vars
<1>. QED
  BY <1>1, <1>2, <1>3, <1>4, <1>5, <1>6, <1>7, <1>8, <1>9, <1>10, <1>11,
     <1>12, <1>13, <1>14, <1>15
     DEF Next, Send, Receive, Diagnose, TxIrq, RxIrq

(* The types of the driver's state, for every capacity. *)
THEOREM DriverTypes == Spec => []TypeOK
<1>1. DriverInv => TypeOK  BY DEF DriverInv
<1>. QED  BY InitInv, NextInv, <1>1, PTL DEF Spec

(***************************************************************************)
(* No queued message waits with the transmit interrupt disabled, however   *)
(* the handler interleaves with send_can_message.                          *)
(***************************************************************************)
THEOREM NeverLostKick == Spec => []NoLostKick
<1>1. DriverInv => NoLostKick  BY DEF DriverInv
<1>. QED  BY InitInv, NextInv, <1>1, PTL DEF Spec

(***************************************************************************)
(* periodic_check logs every refused message exactly once, also the ones   *)
(* the receive interrupt refuses while the check is running.               *)
(***************************************************************************)
THEOREM DropsReportedOnce == Spec => []EachDropReportedOnce
<1>1. DriverInv => EachDropReportedOnce  BY DEF DriverInv
<1>. QED  BY InitInv, NextInv, <1>1, PTL DEF Spec

-----------------------------------------------------------------------------
(* k places after slot i of a ring of c slots, without the remainder. *)
Place(i, k, c) == IF i + k < c THEN i + k ELSE i + k - c

LEMMA PlaceIsRemainder ==
  ASSUME NEW c \in Nat \ {0}, NEW i \in 0 .. (c - 1), NEW k \in 0 .. c
  PROVE  (i + k) % c = Place(i, k, c) /\ Place(i, k, c) \in 0 .. (c - 1)
<1>1. CASE i + k < c
  BY <1>1 DEF Place
<1>2. CASE i + k >= c
  <2>1. i + k - c \in 0 .. (c - 1)
    BY <1>2
  <2>2. (i + k - c) % c = i + k - c
    BY <2>1
  <2>3. (i + k - c + c) % c = (i + k - c) % c
    BY <2>1
  <2>4. i + k - c + c = i + k
    OBVIOUS
  <2>. QED  BY <1>2, <2>1, <2>2, <2>3, <2>4 DEF Place
<1>. QED  BY <1>1, <1>2

(* Walking k places and one more, from either end. *)
LEMMA PlaceStep ==
  ASSUME NEW c \in Nat \ {0}, NEW i \in 0 .. (c - 1), NEW k \in 0 .. (c - 1)
  PROVE  /\ (Place(i, k, c) + 1) % c = Place(i, k + 1, c)
         /\ Place((i + 1) % c, k, c) = Place(i, k + 1, c)
         /\ (i + 1) % c \in 0 .. (c - 1)
<1>1. Place(i, k, c) \in 0 .. (c - 1) /\ 1 \in 0 .. c
  BY PlaceIsRemainder
<1>2. (Place(i, k, c) + 1) % c = Place(Place(i, k, c), 1, c)
  BY <1>1, PlaceIsRemainder
<1>3. (i + 1) % c = Place(i, 1, c) /\ Place(i, 1, c) \in 0 .. (c - 1)
  BY <1>1, PlaceIsRemainder
<1>. QED  BY <1>2, <1>3 DEF Place

(***************************************************************************)
(* Where the indices are while the application is in the middle of a push  *)
(* or a pop: the pushed message is already before head and not yet in      *)
(* count, the popped one already behind tail and still in count.           *)
(***************************************************************************)
IndexInv ==
  /\ \A r \in Ring : count[r] <= Cap[r] /\ tail[r] \in 0 .. (Cap[r] - 1)
  /\ pc \in {"send_head", "send_count"} => count["tx"] < Cap["tx"]
  /\ head["tx"] = Place(tail["tx"],
                        IF pc = "send_count" THEN count["tx"] + 1 ELSE count["tx"], Cap["tx"])
  /\ head["rx"] = Place(tail["rx"],
                        IF pc = "receive_count" THEN count["rx"] - 1 ELSE count["rx"],
                        Cap["rx"])

LEMMA IndexInit == Init => IndexInv
BY CapFacts DEF Init, Zero, IndexInv, Ring, Place

(* Each step moves at most one end of one ring. *)
LEMMA IndexNext == DriverInv /\ IndexInv /\ [Next]_vars => IndexInv'
<1> SUFFICES ASSUME DriverInv, IndexInv, [Next]_vars PROVE IndexInv'
  OBVIOUS
<1>1. /\ \A r \in Ring : /\ count[r] \in Nat /\ count[r] <= Cap[r]
                         /\ tail[r] \in 0 .. (Cap[r] - 1)
                         /\ Cap[r] \in Nat \ {0}
      /\ head \in [Ring -> Nat] /\ tail \in [Ring -> Nat] /\ count \in [Ring -> Nat]
      /\ "tx" \in Ring /\ "rx" \in Ring
  BY CapAssumption DEF DriverInv, TypeOK, IndexInv, Ring
<1>2. ASSUME UNCHANGED rings, pc' \notin {"send_head", "send_count", "receive_count"},
             pc \notin {"send_count", "receive_count"}
      PROVE  IndexInv'
  BY <1>2 DEF IndexInv, rings
<1>3. CASE SendFull \/ RxIrqFull
  BY <1>3 DEF SendFull, RxIrqFull, Refuse, IndexInv, rings
<1>4. CASE SendCheck
  BY <1>4 DEF SendCheck, IndexInv, rings
<1>5. CASE SendHead
  <2>1. (Place(tail["tx"], count["tx"], Cap["tx"]) + 1) % Cap["tx"]
          = Place(tail["tx"], count["tx"] + 1, Cap["tx"])
    BY <1>1, <1>5, PlaceStep DEF SendHead, IndexInv
  <2>. QED  BY <1>1, <1>5, <2>1 DEF SendHead, IndexInv, Succ
<1>6. CASE SendCount
  <2>1. /\ pc = "send_count" /\ pc' = "send_enable" /\ UNCHANGED <<head, tail>>
        /\ count' = [count EXCEPT !["tx"] = count["tx"] + 1]
    BY <1>6 DEF SendCount
  <2>2. /\ count'["tx"] = count["tx"] + 1 /\ count'["rx"] = count["rx"]
        /\ count["tx"] < Cap["tx"]
    BY <1>1, <2>1 DEF IndexInv
  <2>. QED  BY <1>1, <2>1, <2>2 DEF IndexInv, Ring
<1>7. CASE SendEnable \/ CheckStats \/ CheckReport \/ ReceiveCheck
  BY <1>2, <1>7 DEF SendEnable, CheckStats, CheckReport, ReceiveCheck
<1>8. CASE ReceiveTail
  <2>1. /\ pc = "receive_tail" /\ pc' = "receive_count" /\ UNCHANGED <<head, count>>
        /\ tail' = [tail EXCEPT !["rx"] = (tail["rx"] + 1) % Cap["rx"]]
        /\ count["rx"] > 0
    BY <1>8 DEF ReceiveTail, Succ, DriverInv
  <2>2. count["rx"] - 1 \in 0 .. (Cap["rx"] - 1) /\ count["rx"] - 1 + 1 = count["rx"]
    BY <1>1, <2>1
  <2>3. /\ Place((tail["rx"] + 1) % Cap["rx"], count["rx"] - 1, Cap["rx"])
             = Place(tail["rx"], count["rx"], Cap["rx"])
        /\ (tail["rx"] + 1) % Cap["rx"] \in 0 .. (Cap["rx"] - 1)
    BY <1>1, <2>2, PlaceStep
  <2>4. tail'["rx"] = (tail["rx"] + 1) % Cap["rx"] /\ tail'["tx"] = tail["tx"]
    BY <1>1, <2>1
  <2>. QED  BY <1>1, <2>1, <2>3, <2>4 DEF IndexInv, Ring
<1>9. CASE ReceiveCount
  <2>1. /\ pc = "receive_count" /\ pc' = "idle" /\ UNCHANGED <<head, tail>>
        /\ count' = [count EXCEPT !["rx"] = count["rx"] - 1]
    BY <1>9 DEF ReceiveCount
  <2>2. count'["rx"] = count["rx"] - 1 /\ count'["tx"] = count["tx"]
    BY <1>1, <2>1
  <2>. QED  BY <1>1, <2>1, <2>2 DEF IndexInv, Ring
<1>10. CASE TxIrqLoad
  <2>1. /\ count["tx"] > 0 /\ UNCHANGED <<head, pc>>
        /\ tail' = [tail EXCEPT !["tx"] = (tail["tx"] + 1) % Cap["tx"]]
        /\ count' = [count EXCEPT !["tx"] = count["tx"] - 1]
    BY <1>10 DEF TxIrqLoad, Succ
  <2>2. /\ tail'["tx"] = (tail["tx"] + 1) % Cap["tx"] /\ tail'["rx"] = tail["rx"]
        /\ count'["tx"] = count["tx"] - 1 /\ count'["rx"] = count["rx"]
    BY <1>1, <2>1
  <2> DEFINE k == IF pc = "send_count" THEN count["tx"] ELSE count["tx"] - 1
  <2>3. k \in 0 .. (Cap["tx"] - 1)
        /\ k + 1 = (IF pc = "send_count" THEN count["tx"] + 1 ELSE count["tx"])
        /\ k = (IF pc' = "send_count" THEN count'["tx"] + 1 ELSE count'["tx"])
    BY <1>1, <2>1, <2>2 DEF IndexInv
  <2> HIDE DEF k
  <2>4. /\ Place((tail["tx"] + 1) % Cap["tx"], k, Cap["tx"])
             = Place(tail["tx"], k + 1, Cap["tx"])
        /\ (tail["tx"] + 1) % Cap["tx"] \in 0 .. (Cap["tx"] - 1)
    BY <1>1, <2>3, PlaceStep
  <2>. QED  BY <1>1, <2>1, <2>2, <2>3, <2>4 DEF IndexInv, Ring
<1>11. CASE RxIrqQueue
  <2>1. /\ count["rx"] < Cap["rx"] /\ UNCHANGED <<tail, pc>>
        /\ head' = [head EXCEPT !["rx"] = (head["rx"] + 1) % Cap["rx"]]
        /\ count' = [count EXCEPT !["rx"] = count["rx"] + 1]
    BY <1>11 DEF RxIrqQueue, Succ
  <2>2. /\ head'["rx"] = (head["rx"] + 1) % Cap["rx"] /\ head'["tx"] = head["tx"]
        /\ count'["rx"] = count["rx"] + 1 /\ count'["tx"] = count["tx"]
    BY <1>1, <2>1
  <2> DEFINE k == IF pc = "receive_count" THEN count["rx"] - 1 ELSE count["rx"]
  <2>3. k \in 0 .. (Cap["rx"] - 1)
        /\ k + 1 = (IF pc' = "receive_count" THEN count'["rx"] - 1 ELSE count'["rx"])
    BY <1>1, <2>1, <2>2 DEF DriverInv
  <2>4. head["rx"] = Place(tail["rx"], k, Cap["rx"])
    BY DEF IndexInv
  <2> HIDE DEF k
  <2>5. (Place(tail["rx"], k, Cap["rx"]) + 1) % Cap["rx"] = Place(tail["rx"], k + 1, Cap["rx"])
    BY <1>1, <2>3, PlaceStep
  <2>. QED  BY <1>1, <2>1, <2>2, <2>3, <2>4, <2>5 DEF IndexInv, Ring
<1>12. CASE TxIrqDisable
  BY <1>12 DEF TxIrqDisable, IndexInv, rings
<1>13. CASE UNCHANGED vars
  BY <1>13 DEF vars, IndexInv, rings
<1>. QED
  BY <1>3, <1>4, <1>5, <1>6, <1>7, <1>8, <1>9, <1>10, <1>11, <1>12, <1>13
     DEF Next, Send, Receive, Diagnose, TxIrq, RxIrq

(***************************************************************************)
(* Between the operations of the application both rings are consistent,    *)
(* however the interrupt handlers fell between their loads and stores.     *)
(***************************************************************************)
THEOREM RingsStayConsistent == Spec => []RingConsistent
<1>1. DriverInv /\ IndexInv /\ [Next]_vars => (DriverInv /\ IndexInv)'
  BY NextInv, IndexNext
<1>2. DriverInv /\ IndexInv => RingConsistent
  <2> SUFFICES ASSUME DriverInv, IndexInv, pc = "idle", NEW r \in Ring
               PROVE  count[r] <= Cap[r] /\ head[r] = (tail[r] + count[r]) % Cap[r]
    BY DEF RingConsistent
  <2>1. count[r] \in 0 .. Cap[r] /\ Cap[r] \in Nat \ {0} /\ tail[r] \in 0 .. (Cap[r] - 1)
    BY CapAssumption DEF DriverInv, TypeOK, IndexInv
  <2>2. head[r] = Place(tail[r], count[r], Cap[r])
    BY DEF IndexInv, Ring
  <2>3. (tail[r] + count[r]) % Cap[r] = Place(tail[r], count[r], Cap[r])
    BY <2>1, PlaceIsRemainder
  <2>. QED  BY <2>1, <2>2, <2>3
<1>. QED  BY InitInv, IndexInit, <1>1, <1>2, PTL DEF Spec
=============================================================================
