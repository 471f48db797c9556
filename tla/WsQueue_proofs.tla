--------------------------- MODULE WsQueue_proofs ---------------------------
(***************************************************************************)
(* Proofs about the linked queue of WebSocket/src/20.                      *)
(*                                                                         *)
(* The invariant speaks of two logs that no variable holds: the nodes that *)
(* were ever linked, the dummy first, and the messages in them.  They only *)
(* grow, when enqueue links a node; the queue proper is their part from    *)
(* position H on, and dequeue moves H.                                     *)
(***************************************************************************)
EXTENDS WsQueue, TLAPS, SequenceTheorems, FiniteSetTheorems, WellFoundedInduction

-----------------------------------------------------------------------------
(* The invariant. *)

(* One thread alone sends. *)
Sole == \A p, q \in Producer : p = q

(* The position of head: one message was received for each node before it. *)
H == Len(received) + 1

(* enqueue holds a node that is not linked yet. *)
Unlinked == {"load", "next", "check", "link", "help"}

InQueue(c, x) == \E i \in H .. Len(c) : c[i] = x

(* The old head, between the moment head moves on and the free. *)
Retired(x) == cpc \in {"sub", "free"} /\ x = chead

(* A place tail once pointed to: still queued, about to be freed, or freed. *)
Known(c, x) == InQueue(c, x) \/ Retired(x) \/ (x \in freed /\ x \notin allocated)

(* If x is still queued, y stands behind it. *)
Follows(c, x, y) ==
  \A i \in H .. Len(c) : c[i] = x => i < Len(c) /\ c[i + 1] = y

LinkInv(c) ==
  /\ c \in Seq(Node) /\ H \in 1 .. Len(c) /\ head = c[H]
  /\ \A i \in H .. Len(c) : c[i] \in allocated
  /\ \A i \in H .. (Len(c) - 1) : next[c[i]] = c[i + 1]
  /\ next[c[Len(c)]] = Null
  /\ \A i, j \in H .. Len(c) : c[i] = c[j] => i = j

PrivateInv(c) ==
  \A p \in Producer :
    pc[p] \in Unlinked =>
      /\ node[p] \in allocated /\ ~InQueue(c, node[p]) /\ ~Retired(node[p])
      /\ next[node[p]] = Null
      /\ sent[p] >= 1 /\ message[node[p]] = <<p, sent[p]>>

(* A stale copy tells nothing: no exchange through it has succeeded yet. *)
PointerInv(c) ==
  \A p \in Producer :
    /\ pc[p] = "help" => pnext[p] # Null
    /\ p \notin stale =>
         /\ pc[p] \in {"next", "check", "link", "help", "swing"} => Known(c, ptail[p])
         /\ pc[p] \in {"check", "help"} /\ pnext[p] # Null =>
              Follows(c, ptail[p], pnext[p])
         /\ pc[p] = "swing" => Follows(c, ptail[p], node[p])

(* tail does not go back: it is no nearer to head than when dequeue read it. *)
ConsumerInv(c) ==
  /\ InQueue(c, tail)
  /\ cpc \in {"next", "check", "help", "take"} =>
       /\ chead = head
       /\ \E i, j \in H .. Len(c) : i <= j /\ c[i] = ctail /\ c[j] = tail
  /\ cpc = "check" => (cnext = Null /\ ctail = chead)
                      \/ (H < Len(c) /\ cnext = c[H + 1])
  /\ cpc \in {"help", "take"} => H < Len(c) /\ cnext = c[H + 1]
  /\ cpc = "help" => ctail = chead
  /\ cpc = "take" => ctail # chead
  /\ cpc \in {"sub", "free"} =>
       chead \in allocated /\ ~InQueue(c, chead) /\ next[chead] # Null

HeapInv(c) ==
  \A x \in allocated :
    InQueue(c, x) \/ Retired(x)
      \/ \E p \in Producer : pc[p] \in Unlinked /\ node[p] = x

LogInv(c, m) ==
  /\ m \in Seq(Msg) /\ Len(m) = Len(c) - 1
  /\ \A k \in 1 .. Len(received) : m[k] = received[k]
  /\ \A k \in H .. Len(m) : m[k] = message[c[k + 1]]
  /\ \A p \in Producer : InOrder(m, p, Linked(p))

(* Linked, not yet counted. *)
Uncounted == {p \in Producer : pc[p] \in {"swing", "add"}}

(* The messages that count should tell of. *)
Balance(c) ==
  Len(c) - H + (IF cpc = "sub" THEN 1 ELSE 0) - Cardinality(Uncounted)

CountInv(c) == \E k \in Int : count = Balance(c) + k * CountMod

QInv(c, m) ==
  /\ LinkInv(c) /\ PrivateInv(c) /\ PointerInv(c) /\ ConsumerInv(c)
  /\ HeapInv(c) /\ LogInv(c, m) /\ CountInv(c)

(* After the drop nobody is using the queue. *)
DroppedInv ==
  allocated = {} /\ \A p \in Producer : pc[p] = "idle" /\ sent[p] = MaxSend

ListInv ==
  ~aba =>
    /\ TypeOK
    /\ cpc = "dropped" => DroppedInv
    /\ cpc # "dropped" => \E c, m : QInv(c, m)

(* With a sole producer tail lags only from its link to its swing. *)
SoleInv ==
  /\ ~undefined /\ stale = {} /\ ~aba
  /\ \A p \in Producer :
       /\ pc[p] # "swing" => next[tail] = Null
       /\ pc[p] \in {"next", "check", "link"} => ptail[p] = tail
       /\ pc[p] = "check" => pnext[p] = Null
       /\ pc[p] # "help"
       /\ pc[p] = "swing" =>
            next[node[p]] = Null /\ (tail = ptail[p] \/ tail = node[p])

-----------------------------------------------------------------------------
(* The list that Chain follows is the log from head on. *)

(* A set of numbers that is not empty has a least one. *)
LEMMA LeastNumber ==
  ASSUME NEW T, T \subseteq Nat, T # {}
  PROVE  \E x \in T : \A y \in T : ~ (y < x)
<1> DEFINE R == OpToRel(<, Nat)
<1>0. IsWellFoundedOn(R, Nat)
  BY NatLessThanWellFounded, Zenon
<1>1. \E x \in T : \A y \in T : ~ (<<y, x>> \in R)
  <2> HIDE DEF R
  <2> QED BY <1>0, WFMin
<1>2. \A x, y \in Nat : <<y, x>> \in R <=> y < x
  BY SMT DEF OpToRel
<1> HIDE DEF R
<1> QED BY <1>1, <1>2

(* The recursion of Chain: f follows the pointers succ from first on. *)
Walks(f, N, first, succ) ==
  \A k \in 0 .. N :
    f[k] = IF k = 0 THEN first
           ELSE IF f[k - 1] = Null THEN Null ELSE succ[f[k - 1]]

(* Only one function does. *)
LEMMA ChainUnique ==
  ASSUME NEW N \in Nat, NEW first, NEW succ, NEW f, NEW g,
         Walks(f, N, first, succ), Walks(g, N, first, succ)
  PROVE  \A k \in 0 .. N : f[k] = g[k]
<1> DEFINE T == {k \in 0 .. N : f[k] # g[k]}
<1>1. SUFFICES ASSUME T # {} PROVE FALSE
  OBVIOUS
<1>2. PICK x \in T : \A y \in T : ~ (y < x)
  <2>1. T \subseteq Nat
    OBVIOUS
  <2> HIDE DEF T
  <2> QED BY <1>1, <2>1, LeastNumber
<1>3. x \in 0 .. N /\ f[x] # g[x]
  OBVIOUS
<1>4. f[0] = first /\ g[0] = first
  BY DEF Walks
<1>5. x # 0
  BY <1>3, <1>4
<1>6. x - 1 \in 0 .. N /\ x - 1 < x
  BY <1>3, <1>5
<1>7. f[x - 1] = g[x - 1]
  BY <1>2, <1>6
<1>8. f[x] = (IF f[x - 1] = Null THEN Null ELSE succ[f[x - 1]])
  BY <1>3, <1>5 DEF Walks
<1>9. g[x] = (IF g[x - 1] = Null THEN Null ELSE succ[g[x - 1]])
  BY <1>3, <1>5 DEF Walks
<1> QED BY <1>3, <1>7, <1>8, <1>9

(* The queue has no more nodes than there are addresses. *)
LEMMA LogFits ==
  ASSUME NEW c, LinkInv(c), received \in Seq(Msg)
  PROVE  /\ Cardinality(Node) \in Nat /\ Len(c) \in Nat /\ H \in Nat
         /\ 0 <= Len(c) - H /\ Len(c) - H < Cardinality(Node)
<1>1. c \in Seq(Node) /\ H \in 1 .. Len(c) /\ Len(c) \in Nat /\ H \in Nat
  BY LenProperties DEF LinkInv, H
<1> DEFINE D == Len(c) - H + 1
           f == [k \in 1 .. D |-> c[H + k - 1]]
<1>2. D \in Nat /\ D >= 1
  BY <1>1
<1>3. \A k \in 1 .. D : H + k - 1 \in H .. Len(c) /\ H + k - 1 \in 1 .. Len(c)
  BY <1>1
<1>4. \A k \in 1 .. D : c[H + k - 1] \in Node
  BY <1>1, <1>3, ElementOfSeq
<1>5. \A i, j \in H .. Len(c) : c[i] = c[j] => i = j
  BY DEF LinkInv
<1>6. \A k, l \in 1 .. D : c[H + k - 1] = c[H + l - 1] => k = l
  BY <1>1, <1>3, <1>5
<1>7. f \in Injection(1 .. D, Node)
  BY <1>4, <1>6 DEF Injection, IsInjective
<1>8. Cardinality(1 .. D) <= Cardinality(Node)
  BY <1>7, FS_Injection, QueueAssumption
<1>9. Cardinality(1 .. D) = D
  BY <1>2, FS_Interval
<1>10. Cardinality(Node) \in Nat
  BY FS_CardinalityType, QueueAssumption
<1> QED BY <1>1, <1>8, <1>9, <1>10

LEMMA ChainIsLog ==
  ASSUME NEW c, LinkInv(c), received \in Seq(Msg)
  PROVE  Chain = [k \in 1 .. (Len(c) - H) |-> c[H + k]]
<1> DEFINE N == Cardinality(Node)
           D == Len(c) - H
           h == head
           s == next
           g == [k \in 0 .. N |-> IF k <= D THEN c[H + k] ELSE Null]
           step == CHOOSE step : step = [k \in 0 .. N |->
                     IF k = 0 THEN h
                     ELSE IF step[k - 1] = Null THEN Null ELSE s[step[k - 1]]]
<1>1. N \in Nat /\ D \in Nat /\ D < N /\ Len(c) = H + D /\ H \in Nat \ {0}
  BY LogFits DEF H
<1>2. Chain = [k \in 1 .. Cardinality({k \in 1 .. N : step[k] # Null}) |-> step[k]]
  BY DEF Chain
<1>3. g = [k \in 0 .. N |-> IF k = 0 THEN h
             ELSE IF g[k - 1] = Null THEN Null ELSE s[g[k - 1]]]
  <2>1. c[H] = h /\ s[c[H + D]] = Null
    BY <1>1 DEF LinkInv
  <2>2. \A k \in 0 .. D : c[H + k] \in Node /\ c[H + k] # Null
    BY <1>1, QueueAssumption, ElementOfSeq DEF LinkInv
  <2>3. \A k \in 1 .. D : s[c[H + (k - 1)]] = c[H + k]
    <3> TAKE k \in 1 .. D
    <3>1. H + (k - 1) \in H .. (Len(c) - 1) /\ (H + (k - 1)) + 1 = H + k
      BY <1>1
    <3> QED BY <3>1 DEF LinkInv
  <2> HIDE DEF h, s, D, N
  <2>4. ASSUME NEW k \in 0 .. N
        PROVE  g[k] = IF k = 0 THEN h
                      ELSE IF g[k - 1] = Null THEN Null ELSE s[g[k - 1]]
    <3>1. CASE k = 0
      BY <3>1, <2>1, <1>1
    <3>2. CASE k \in 1 .. D
      <4>1. k - 1 \in 0 .. D /\ k - 1 \in 0 .. N
        BY <3>2, <1>1
      <4>2. g[k] = c[H + k] /\ g[k - 1] = c[H + (k - 1)]
        BY <3>2, <4>1, <1>1
      <4> QED BY <3>2, <4>1, <4>2, <2>2, <2>3
    <3>3. CASE k = D + 1
      <4>1. D \in 0 .. D /\ k - 1 = D /\ D \in 0 .. N /\ k # 0 /\ ~(k <= D)
        BY <3>3, <1>1
      <4>2. g[k] = Null /\ g[k - 1] = c[H + D]
        BY <4>1
      <4> QED BY <4>1, <4>2, <2>1, <2>2
    <3>4. CASE k > D + 1
      <4>1. k - 1 \in 0 .. N /\ ~(k <= D) /\ ~(k - 1 <= D) /\ k # 0
        BY <3>4, <1>1
      <4>2. g[k] = Null /\ g[k - 1] = Null
        BY <4>1
      <4> QED BY <4>1, <4>2
    <3> QED BY <1>1, <3>1, <3>2, <3>3, <3>4
  <2> QED BY <2>4
<1>4. step = [k \in 0 .. N |-> IF k = 0 THEN h
             ELSE IF step[k - 1] = Null THEN Null ELSE s[step[k - 1]]]
  <2> HIDE DEF g, N, h, s
  <2> QED BY <1>3
<1>5. \A k \in 0 .. N : step[k] = g[k]
  <2>1. Walks(g, N, h, s)
    <3> HIDE DEF g, N, h, s
    <3> QED BY <1>3 DEF Walks
  <2>2. Walks(step, N, h, s)
    <3> HIDE DEF step, N, h, s
    <3> QED BY <1>4 DEF Walks
  <2>3. N \in Nat
    BY <1>1
  <2> HIDE DEF g, N, h, s, step
  <2> QED BY <2>1, <2>2, <2>3, ChainUnique
<1>6. \A k \in 0 .. D : c[H + k] # Null
  BY <1>1, QueueAssumption, ElementOfSeq DEF LinkInv
<1>7. {k \in 1 .. N : step[k] # Null} = 1 .. D
  <2> HIDE DEF N, step, D
  <2>1. \A k \in 1 .. N : step[k] # Null <=> k <= D
    BY <1>1, <1>5, <1>6
  <2> QED BY <2>1, <1>1
<1>8. Cardinality(1 .. D) = D
  BY <1>1, FS_Interval
<1>9. Chain = [k \in 1 .. D |-> step[k]]
  BY <1>2, <1>7, <1>8
<1>10. \A k \in 1 .. D : step[k] = c[H + k]
  <2> HIDE DEF N, step, D
  <2> QED BY <1>1, <1>5
<1> QED
  <2> HIDE DEF N, step, D
  <2>1. Chain = [k \in 1 .. D |-> c[H + k]]
    BY <1>9, <1>10
  <2> QED BY <2>1 DEF D

-----------------------------------------------------------------------------
(* What leaves a part of the invariant alone. *)

LEMMA LinkFrame ==
  ASSUME NEW c, LinkInv(c), UNCHANGED <<received, head, allocated, next>>
  PROVE  LinkInv(c)'
BY DEF LinkInv, H

LEMMA PrivateFrame ==
  ASSUME NEW c, PrivateInv(c),
         \A q \in Producer : pc'[q] \in Unlinked => pc[q] \in Unlinked,
         UNCHANGED <<node, allocated, next, sent, message, received, cpc, chead>>
  PROVE  PrivateInv(c)'
BY DEF PrivateInv, InQueue, Retired, H

(* The pointers of a producer q that a step of another leaves alone. *)
PointersOf(c, q) ==
  /\ pc[q] = "help" => pnext[q] # Null
  /\ q \notin stale =>
       /\ pc[q] \in {"next", "check", "link", "help", "swing"} => Known(c, ptail[q])
       /\ pc[q] \in {"check", "help"} /\ pnext[q] # Null =>
            Follows(c, ptail[q], pnext[q])
       /\ pc[q] = "swing" => Follows(c, ptail[q], node[q])

LEMMA PointersFrame ==
  ASSUME NEW c, NEW q, PointersOf(c, q),
         pc'[q] = pc[q], ptail'[q] = ptail[q], pnext'[q] = pnext[q],
         node'[q] = node[q], q \in stale => q \in stale',
         UNCHANGED <<received, cpc, chead, freed, allocated>>
  PROVE  PointersOf(c, q)'
BY DEF PointersOf, Known, Follows, InQueue, Retired, H

LEMMA ConsumerFrame ==
  ASSUME NEW c, ConsumerInv(c),
         UNCHANGED <<received, tail, head, cpc, chead, ctail, cnext, allocated, next>>
  PROVE  ConsumerInv(c)'
BY DEF ConsumerInv, InQueue, H

LEMMA HeapFrame ==
  ASSUME NEW c, HeapInv(c),
         \A q \in Producer : pc[q] \in Unlinked => pc'[q] \in Unlinked,
         UNCHANGED <<node, allocated, freed, received, cpc, chead>>
  PROVE  HeapInv(c)'
BY DEF HeapInv, InQueue, Retired, H

LEMMA LogFrame ==
  ASSUME NEW c, NEW m, LogInv(c, m),
         \A q \in Producer : Linked(q)' = Linked(q),
         UNCHANGED <<received, message>>
  PROVE  LogInv(c, m)'
BY DEF LogInv, H, InOrder

LEMMA CountFrame ==
  ASSUME NEW c, CountInv(c), Uncounted' = Uncounted,
         cpc' = "sub" <=> cpc = "sub", UNCHANGED <<received, count>>
  PROVE  CountInv(c)'
<1>1. Balance(c)' = Balance(c)
  BY DEF Balance, H
<1> QED BY <1>1 DEF CountInv

-----------------------------------------------------------------------------
(* enqueue, up to the link: the steps that read and retry, and the help *)
(* that moves tail.                                                      *)

Others(p) ==
  \A q \in Producer \ {p} :
    /\ pc'[q] = pc[q] /\ ptail'[q] = ptail[q] /\ pnext'[q] = pnext[q] /\ node'[q] = node[q]
    /\ q \in stale => q \in stale'

LEMMA PointersSplit == ASSUME NEW c PROVE PointerInv(c) <=> \A q \in Producer : PointersOf(c, q)
BY DEF PointerInv, PointersOf

LEMMA PointersStep ==
  ASSUME NEW c, PointerInv(c), NEW p \in Producer, Others(p), PointersOf(c, p)',
         UNCHANGED <<received, cpc, chead, freed, allocated>>
  PROVE  PointerInv(c)'
<1>1. \A q \in Producer \ {p} : PointersOf(c, q)'
  BY PointersSplit, PointersFrame DEF Others
<1>2. \A q \in Producer : PointersOf(c, q)'
  BY <1>1
<1> QED BY <1>2 DEF PointerInv, PointersOf

LEMMA ReadStep ==
  ASSUME NEW c, NEW m, QInv(c, m), NEW p \in Producer, Others(p),
         pc[p] \in Unlinked, pc'[p] \in Unlinked,
         PointersOf(c, p)', ConsumerInv(c)',
         UNCHANGED <<node, sent, received, head, allocated, next, freed, message,
                     cpc, chead, count>>
  PROVE  QInv(c, m)'
<1>1. \A q \in Producer : pc[q] \in Unlinked <=> pc'[q] \in Unlinked
  BY DEF Others
<1>2. LinkInv(c)'
  BY LinkFrame DEF QInv
<1>3. PrivateInv(c)'
  BY <1>1, PrivateFrame DEF QInv
<1>4. PointerInv(c)'
  BY PointersStep DEF QInv
<1>5. HeapInv(c)'
  BY <1>1, HeapFrame DEF QInv
<1>6. \A q \in Producer : Linked(q)' = Linked(q)
  BY <1>1 DEF Linked, Unlinked
<1>7. LogInv(c, m)'
  BY <1>6, LogFrame DEF QInv
<1>8. \A q \in Producer : pc'[q] \in {"swing", "add"} <=> pc[q] \in {"swing", "add"}
  BY DEF Others, Unlinked
<1>9. CountInv(c)'
  BY <1>8, CountFrame DEF QInv, Uncounted
<1> QED BY <1>2, <1>3, <1>4, <1>5, <1>7, <1>9 DEF QInv

LEMMA LoadTailStep ==
  ASSUME NEW c, NEW m, TypeOK, QInv(c, m), NEW p \in Producer, LoadTail(p)
  PROVE  TypeOK' /\ QInv(c, m)'
<1> USE DEF LoadTail, Goto, heap, consumer
<1>1. TypeOK'
  BY DEF TypeOK
<1>2. Others(p) /\ pc'[p] = "next" /\ ptail'[p] = tail
  BY DEF Others, TypeOK
<1>3. PointersOf(c, p)'
  BY <1>2 DEF PointersOf, Known, QInv, ConsumerInv, InQueue, H
<1>4. ConsumerInv(c)'
  BY ConsumerFrame DEF QInv
<1> QED BY <1>1, <1>2, <1>3, <1>4, ReadStep DEF Unlinked

LEMMA LoadNextStep ==
  ASSUME NEW c, NEW m, TypeOK, QInv(c, m), NEW p \in Producer, LoadNext(p)
  PROVE  TypeOK' /\ QInv(c, m)'
<1> USE DEF LoadNext, Goto, heap, consumer, history
<1>1. (p \notin stale => Known(c, ptail[p])) /\ pc[p] = "next"
  BY DEF QInv, PointerInv
<1>2. TypeOK'
  BY DEF TypeOK, Deref
<1>3. Others(p) /\ pc'[p] = "check" /\ ptail' = ptail
  BY DEF Others, TypeOK, Deref
<1>4. ASSUME NEW i \in H .. Len(c), c[i] = ptail[p], pnext'[p] # Null
      PROVE  i < Len(c) /\ c[i + 1] = pnext'[p]
  <2>1. ptail[p] \in allocated
    BY <1>4 DEF QInv, LinkInv
  <2>2. pnext'[p] = next[c[i]]
    BY <2>1, <1>4 DEF Deref, TypeOK
  <2>3. Len(c) \in Nat /\ H \in Nat
    BY LenProperties DEF QInv, LinkInv, H, TypeOK
  <2>4. i # Len(c)
    BY <1>4, <2>2 DEF QInv, LinkInv
  <2> QED BY <2>2, <2>3, <2>4 DEF QInv, LinkInv
<1>5. PointersOf(c, p)'
  BY <1>1, <1>3, <1>4 DEF PointersOf, Known, Follows, InQueue, H, Retired
<1>6. ConsumerInv(c)'
  BY ConsumerFrame DEF QInv
<1> QED BY <1>1, <1>2, <1>3, <1>5, <1>6, ReadStep DEF Unlinked

LEMMA CheckTailStep ==
  ASSUME NEW c, NEW m, TypeOK, QInv(c, m), NEW p \in Producer, CheckTail(p)
  PROVE  TypeOK' /\ QInv(c, m)'
<1> USE DEF CheckTail, Goto, heap, consumer, history
<1>1. TypeOK'
  BY DEF TypeOK
<1>2. pc[p] = "check" /\ Others(p) /\ UNCHANGED <<ptail, pnext, node>>
  BY DEF Others, TypeOK
<1>3. \/ pc'[p] = "load"
      \/ pc'[p] = "link"
      \/ pc'[p] = "help" /\ pnext[p] # Null
  BY DEF TypeOK
<1>4. PointersOf(c, p)
  BY PointersSplit DEF QInv
<1>5. PointersOf(c, p)'
  BY <1>2, <1>3, <1>4 DEF PointersOf, Known, Follows, InQueue, H, Retired
<1>6. ConsumerInv(c)'
  BY ConsumerFrame DEF QInv
<1> QED BY <1>1, <1>2, <1>3, <1>5, <1>6, ReadStep DEF Unlinked

(* tail moves to the node behind it, whoever moves it. *)
LEMMA TailMoves ==
  ASSUME NEW c, LinkInv(c), ConsumerInv(c), received \in Seq(Msg),
         NEW y, Follows(c, tail, y), tail' = y,
         UNCHANGED <<received, head, cpc, chead, ctail, cnext, allocated, next>>
  PROVE  ConsumerInv(c)' /\ tail' \in Node
<1>1. Len(c) \in Nat /\ H \in Nat \ {0} /\ c \in Seq(Node)
  BY LenProperties DEF LinkInv, H
<1>2. InQueue(c, tail)' /\ tail' \in Node
  <2>1. PICK i \in H .. Len(c) : c[i] = tail
    BY DEF ConsumerInv, InQueue
  <2>2. i < Len(c) /\ c[i + 1] = y
    BY <2>1 DEF Follows
  <2>3. i + 1 \in H .. Len(c) /\ i + 1 \in 1 .. Len(c)
    BY <2>2, <1>1
  <2>4. c[i + 1] \in Node
    BY <2>3, <1>1, ElementOfSeq
  <2> QED BY <2>2, <2>3, <2>4 DEF InQueue, H
<1>3. ASSUME NEW i \in H .. Len(c), NEW j \in H .. Len(c), i <= j, c[i] = ctail, c[j] = tail
      PROVE  \E k, l \in H .. Len(c) : k <= l /\ c[k] = ctail /\ c[l] = tail'
  <2>1. j < Len(c) /\ c[j + 1] = y
    BY <1>3 DEF Follows
  <2>2. j + 1 \in H .. Len(c) /\ i <= j + 1
    BY <1>1, <1>3, <2>1
  <2> QED BY <1>3, <2>1, <2>2
<1> QED BY <1>2, <1>3 DEF ConsumerInv, InQueue, H

LEMMA HelpStep ==
  ASSUME NEW c, NEW m, TypeOK, QInv(c, m), NEW p \in Producer, Help(p), ~aba'
  PROVE  TypeOK' /\ QInv(c, m)'
<1> USE DEF Help, Goto, heap, consumer, Exchanged
<1>1. pc[p] = "help" /\ pc'[p] = "load" /\ Others(p)
  BY DEF Others, TypeOK
<1>2. PointersOf(c, p)'
  BY <1>1 DEF PointersOf
<1>3. tail = ptail[p] => Follows(c, ptail[p], pnext[p])
  BY <1>1 DEF QInv, PointerInv
<1>4. ConsumerInv(c)' /\ tail' \in Node
  <2>1. CASE tail = ptail[p]
    BY <2>1, <1>3, TailMoves DEF QInv, TypeOK
  <2>2. CASE tail # ptail[p]
    BY <2>2, ConsumerFrame DEF QInv, TypeOK
  <2> QED BY <2>1, <2>2
<1>5. TypeOK'
  BY <1>4 DEF TypeOK
<1> QED BY <1>1, <1>2, <1>4, <1>5, ReadStep DEF Unlinked

-----------------------------------------------------------------------------
(* enqueue, after the link: swing tail, and count. *)

LEMMA SwingStep ==
  ASSUME NEW c, NEW m, TypeOK, QInv(c, m), NEW p \in Producer, Swing(p), ~aba'
  PROVE  TypeOK' /\ QInv(c, m)'
<1> USE DEF Swing, Goto, heap, consumer, Exchanged
<1>1. pc[p] = "swing" /\ pc'[p] = "add" /\ Others(p)
  BY DEF Others, TypeOK
<1>2. PointerInv(c)'
  BY <1>1, PointersStep DEF PointersOf, QInv
<1>3. tail = ptail[p] => Follows(c, ptail[p], node[p])
  BY <1>1 DEF QInv, PointerInv
<1>4. ConsumerInv(c)' /\ tail' \in Node
  <2>1. CASE tail = ptail[p]
    BY <2>1, <1>3, TailMoves DEF QInv, TypeOK
  <2>2. CASE tail # ptail[p]
    BY <2>2, ConsumerFrame DEF QInv, TypeOK
  <2> QED BY <2>1, <2>2
<1>5. TypeOK'
  BY <1>4 DEF TypeOK
<1>6. \A q \in Producer : pc[q] \in Unlinked <=> pc'[q] \in Unlinked
  BY <1>1 DEF Others, Unlinked
<1>7. LinkInv(c)'
  BY LinkFrame DEF QInv
<1>8. PrivateInv(c)' /\ HeapInv(c)'
  BY <1>6, PrivateFrame, HeapFrame DEF QInv
<1>9. \A q \in Producer : Linked(q)' = Linked(q)
  BY <1>6 DEF Linked, Unlinked
<1>10. LogInv(c, m)'
  BY <1>9, LogFrame DEF QInv
<1>11. Uncounted' = Uncounted
  BY <1>1 DEF Uncounted, Others
<1>12. CountInv(c)'
  BY <1>11, CountFrame DEF QInv
<1> QED BY <1>2, <1>4, <1>5, <1>7, <1>8, <1>10, <1>12 DEF QInv

(* Counting up and down, modulo the width of the counter. *)
LEMMA CountMoves ==
  ASSUME NEW M \in Nat \ {0}, NEW x \in 0 .. (M - 1)
  PROVE  /\ (x + 1) % M \in 0 .. (M - 1) /\ (x + (M - 1)) % M \in 0 .. (M - 1)
         /\ (x + 1) % M = IF x + 1 = M THEN 0 ELSE x + 1
         /\ (x + (M - 1)) % M = IF x = 0 THEN M - 1 ELSE x - 1
<1>1. \A y \in 0 .. (M - 1) : y % M = y
  OBVIOUS
<1>2. M % M = 0
  OBVIOUS
<1>3. x # 0 => (x + (M - 1)) % M = x - 1
  OBVIOUS
<1> QED BY <1>1, <1>2, <1>3

LEMMA CountBack ==
  ASSUME NEW M \in Nat, NEW b \in Int, NEW k \in Int
  PROVE  (k - 1) * M = k * M - M /\ (k + 1) * M = k * M + M
OBVIOUS

LEMMA CountPositive == CountMod \in Nat \ {0}
<1>1. Cardinality(Producer) \in Nat
  BY FS_CardinalityType, QueueAssumption
<1>2. Cardinality(Producer) * MaxSend \in Nat
  BY <1>1, CountAssumption
<1> QED BY <1>2, CountAssumption

LEMMA CountUp ==
  ASSUME NEW b \in Int, NEW k \in Int, count \in 0 .. (CountMod - 1),
         count = b + k * CountMod
  PROVE  \E l \in Int : (count + 1) % CountMod = (b + 1) + l * CountMod
<1> DEFINE M == CountMod
<1>1. M \in Nat \ {0}
  BY CountPositive
<1>2. (count + 1) % M = IF count + 1 = M THEN 0 ELSE count + 1
  BY <1>1, CountMoves
<1>3. (k - 1) * M = k * M - M /\ k * M \in Int
  BY <1>1, CountBack
<1> DEFINE y == k * M
<1>4. CASE count + 1 = M
  <2>1. (count + 1) % M = (b + 1) + (k - 1) * M
    <3> HIDE DEF M, y
    <3>1. count = b + y /\ (k - 1) * M = y - M /\ y \in Int
      BY <1>3 DEF y, M
    <3> QED BY <3>1, <1>1, <1>2, <1>4
  <2> QED BY <2>1
<1>5. CASE count + 1 # M
  <2>1. (count + 1) % M = (b + 1) + k * M
    BY <1>1, <1>2, <1>3, <1>5
  <2> QED BY <2>1
<1> QED BY <1>4, <1>5

LEMMA CountDown ==
  ASSUME NEW b \in Int, NEW k \in Int, count \in 0 .. (CountMod - 1),
         count = b + k * CountMod
  PROVE  \E l \in Int : (count + (CountMod - 1)) % CountMod = (b - 1) + l * CountMod
<1> DEFINE M == CountMod
<1>1. M \in Nat \ {0}
  BY CountPositive
<1>2. (count + (M - 1)) % M = IF count = 0 THEN M - 1 ELSE count - 1
  BY <1>1, CountMoves
<1>3. (k + 1) * M = k * M + M /\ k * M \in Int
  BY <1>1, CountBack
<1> DEFINE y == k * M
<1>4. CASE count = 0
  <2>1. (count + (M - 1)) % M = (b - 1) + (k + 1) * M
    <3> HIDE DEF M, y
    <3>1. count = b + y /\ (k + 1) * M = y + M /\ y \in Int
      BY <1>3 DEF y, M
    <3> QED BY <3>1, <1>1, <1>2, <1>4
  <2> QED BY <2>1
<1>5. CASE count # 0
  <2>1. (count + (M - 1)) % M = (b - 1) + k * M
    BY <1>1, <1>2, <1>3, <1>5
  <2> QED BY <2>1
<1> QED BY <1>4, <1>5

LEMMA UncountedFinite == IsFiniteSet(Uncounted) /\ Cardinality(Uncounted) \in Nat
<1>1. Uncounted \subseteq Producer
  BY DEF Uncounted
<1> QED BY <1>1, FS_Subset, FS_CardinalityType, QueueAssumption

LEMMA BalanceInt ==
  ASSUME NEW c, LinkInv(c), received \in Seq(Msg) PROVE Balance(c) \in Int
<1>1. Len(c) \in Nat /\ H \in Nat
  BY LenProperties DEF LinkInv, H
<1> QED BY <1>1, UncountedFinite DEF Balance

LEMMA AddStep ==
  ASSUME NEW c, NEW m, TypeOK, QInv(c, m), NEW p \in Producer, Add(p)
  PROVE  TypeOK' /\ QInv(c, m)'
<1> USE DEF Add, Goto, heap, consumer, history
<1>1. pc[p] = "add" /\ pc'[p] = "idle" /\ Others(p)
  BY DEF Others, TypeOK
<1>2. count \in 0 .. (CountMod - 1) /\ received \in Seq(Msg)
  BY DEF TypeOK
<1>3. count' \in 0 .. (CountMod - 1)
  BY <1>2, CountPositive, CountMoves
<1>4. TypeOK'
  BY <1>3 DEF TypeOK
<1>5. PointerInv(c)'
  BY <1>1, PointersStep DEF PointersOf, QInv
<1>6. \A q \in Producer : pc[q] \in Unlinked <=> pc'[q] \in Unlinked
  BY <1>1 DEF Others, Unlinked
<1>7. LinkInv(c)' /\ ConsumerInv(c)'
  BY LinkFrame, ConsumerFrame DEF QInv
<1>8. PrivateInv(c)' /\ HeapInv(c)'
  BY <1>6, PrivateFrame, HeapFrame DEF QInv
<1>9. \A q \in Producer : Linked(q)' = Linked(q)
  BY <1>6 DEF Linked, Unlinked
<1>10. LogInv(c, m)'
  BY <1>9, LogFrame DEF QInv
<1>11. p \in Uncounted /\ Uncounted' = Uncounted \ {p}
  BY <1>1 DEF Uncounted, Others
<1>12. Cardinality(Uncounted') = Cardinality(Uncounted) - 1
  BY <1>11, UncountedFinite, FS_RemoveElement
<1>13. Balance(c) \in Int
  BY <1>2, BalanceInt DEF QInv
<1>14. Balance(c)' = Balance(c) + 1
  <2>1. Len(c) \in Nat /\ H \in Nat /\ H' = H
    BY <1>2, LenProperties DEF QInv, LinkInv, H
  <2> QED BY <1>12, <2>1, UncountedFinite DEF Balance
<1>15. PICK k \in Int : count = Balance(c) + k * CountMod
  BY DEF QInv, CountInv
<1>16. \E l \in Int : (count + 1) % CountMod = (Balance(c) + 1) + l * CountMod
  BY <1>2, <1>13, <1>15, CountUp
<1>17. CountInv(c)'
  BY <1>14, <1>16 DEF CountInv
<1> QED BY <1>4, <1>5, <1>7, <1>8, <1>10, <1>17 DEF QInv

-----------------------------------------------------------------------------
(* enqueue, the allocation. *)

LEMMA AvailableIsNew ==
  ASSUME NEW n \in Available, freed \subseteq Node
  PROVE  n \in Node /\ n \notin allocated
BY DEF Available

LEMMA EnqueueStep ==
  ASSUME NEW c, NEW m, TypeOK, QInv(c, m), NEW p \in Producer, Enqueue(p)
  PROVE  TypeOK' /\ QInv(c, m)'
<1> USE DEF Goto, consumer
<1>1. PICK n \in Available :
         /\ allocated' = allocated \cup {n}
         /\ next' = [next EXCEPT ![n] = Null]
         /\ message' = [message EXCEPT ![n] = <<p, sent[p] + 1>>]
         /\ node' = [node EXCEPT ![p] = n]
         /\ stale' = stale \cup Holding(n)
  BY DEF Enqueue
<1>2. n \in Node /\ n \notin allocated
  BY AvailableIsNew DEF TypeOK
<1>3. /\ pc[p] = "idle" /\ pc' = [pc EXCEPT ![p] = "load"]
      /\ sent[p] < MaxSend /\ sent' = [sent EXCEPT ![p] = sent[p] + 1]
      /\ UNCHANGED <<freed, head, tail, count, ptail, pnext, cpc, chead, ctail,
                     cnext, received, undefined, aba>>
  BY DEF Enqueue
<1>4. /\ pc'[p] = "load" /\ sent'[p] = sent[p] + 1 /\ sent[p] \in Nat
      /\ node'[p] = n /\ next'[n] = Null /\ message'[n] = <<p, sent[p] + 1>>
  BY <1>1, <1>2, <1>3 DEF TypeOK
<1>5. \A x \in allocated : next'[x] = next[x] /\ message'[x] = message[x]
  BY <1>1, <1>2 DEF TypeOK
<1>6. \A q \in Producer \ {p} : pc'[q] = pc[q] /\ ptail'[q] = ptail[q]
         /\ pnext'[q] = pnext[q] /\ node'[q] = node[q] /\ sent'[q] = sent[q]
  BY <1>1, <1>3 DEF TypeOK
<1>7. TypeOK'
  <2>1. sent[p] + 1 \in 1 .. MaxSend
    BY <1>3, <1>4, CountAssumption DEF TypeOK
  <2>2. <<p, sent[p] + 1>> \in Msg
    BY <2>1 DEF Msg
  <2>3. sent' \in [Producer -> 0 .. MaxSend]
    BY <1>3, <2>1 DEF TypeOK
  <2>4. stale' \subseteq Producer
    BY <1>1 DEF Holding, TypeOK
  <2> QED BY <1>1, <1>2, <1>3, <2>2, <2>3, <2>4 DEF TypeOK
<1>8. LinkInv(c)'
  <2>1. Len(c) \in Nat /\ H \in Nat
    BY LenProperties DEF QInv, LinkInv, H, TypeOK
  <2>2. \A i \in H .. Len(c) : c[i] \in allocated
    BY DEF QInv, LinkInv
  <2>3. \A i \in H .. Len(c) : next'[c[i]] = next[c[i]]
    BY <2>2, <1>5
  <2>4. Len(c) \in H .. Len(c) /\ \A i \in H .. (Len(c) - 1) : i \in H .. Len(c)
    BY <2>1 DEF QInv, LinkInv
  <2> QED BY <1>1, <1>3, <2>2, <2>3, <2>4 DEF QInv, LinkInv, H
<1>9. ~InQueue(c, n) /\ ~Retired(n)
  BY <1>2 DEF QInv, LinkInv, InQueue, ConsumerInv, Retired
<1>10. PrivateInv(c)'
  <2>1. ASSUME NEW q \in Producer, pc'[q] \in Unlinked
        PROVE  /\ node'[q] \in allocated' /\ ~InQueue(c, node[q])' /\ ~Retired(node[q])'
               /\ next'[node'[q]] = Null
               /\ sent'[q] >= 1 /\ message'[node'[q]] = <<q, sent'[q]>>
    <3>1. CASE q = p
      BY <3>1, <1>1, <1>3, <1>4, <1>9 DEF InQueue, Retired, H
    <3>2. CASE q # p
      <4>1. pc[q] \in Unlinked /\ node'[q] = node[q] /\ sent'[q] = sent[q]
        BY <2>1, <3>2, <1>6
      <4>2. /\ node[q] \in allocated /\ ~InQueue(c, node[q]) /\ ~Retired(node[q])
            /\ next[node[q]] = Null
            /\ sent[q] >= 1 /\ message[node[q]] = <<q, sent[q]>>
        BY <4>1 DEF QInv, PrivateInv
      <4> QED BY <4>1, <4>2, <1>1, <1>3, <1>5 DEF InQueue, Retired, H
    <3> QED BY <3>1, <3>2
  <2> QED BY <2>1 DEF PrivateInv
<1>11. PointerInv(c)'
  <2>1. ASSUME NEW q \in Producer PROVE PointersOf(c, q)'
    <3>1. CASE q = p
      BY <3>1, <1>4 DEF PointersOf
    <3>2. CASE q # p
      <4>1. /\ q \in stale => q \in stale'
            /\ pc[q] \in {"next", "check", "link", "help", "swing"} /\ q \notin stale' =>
                 ptail[q] # n
        BY <1>1 DEF Holding
      <4>2. PointersOf(c, q)
        BY PointersSplit DEF QInv
      <4>3. \A x : x # n /\ Known(c, x) => \A y : y = x => Known(c, y)'
        BY <1>1, <1>3 DEF Known, InQueue, Retired, H
      <4>4. \A x, y, z, w : Follows(c, x, y) /\ z = x /\ w = y => Follows(c, z, w)'
        BY <1>3 DEF Follows, H
      <4>5. /\ pc'[q] = pc[q] /\ ptail'[q] = ptail[q] /\ pnext'[q] = pnext[q]
            /\ node'[q] = node[q]
        BY <3>2, <1>6
      <4> QED BY <4>1, <4>2, <4>3, <4>4, <4>5 DEF PointersOf
    <3> QED BY <3>1, <3>2
  <2> QED BY <2>1 DEF PointerInv, PointersOf
<1>12. ConsumerInv(c)'
  <2>1. cpc \in {"sub", "free"} => chead \in allocated /\ next'[chead] = next[chead]
    BY <1>5 DEF QInv, ConsumerInv
  <2> QED BY <2>1, <1>1, <1>3 DEF QInv, ConsumerInv, InQueue, H
<1>13. HeapInv(c)'
  <2>1. ASSUME NEW x \in allocated
        PROVE  InQueue(c, x) \/ Retired(x) \/ \E q \in Producer : pc'[q] \in Unlinked /\ node'[q] = x
    <3>1. \A q \in Producer : pc[q] \in Unlinked => q # p
      BY <1>3 DEF Unlinked
    <3> QED BY <3>1, <1>6 DEF QInv, HeapInv
  <2>2. pc'[p] \in Unlinked /\ node'[p] = n
    BY <1>4 DEF Unlinked
  <2> QED BY <2>1, <2>2, <1>1, <1>2, <1>3 DEF QInv, HeapInv, InQueue, Retired, H
<1>14. \A q \in Producer : Linked(q)' = Linked(q)
  <2>1. Linked(p)' = Linked(p)
    BY <1>3, <1>4 DEF Linked
  <2>2. \A q \in Producer \ {p} : Linked(q)' = Linked(q)
    BY <1>6 DEF Linked
  <2> QED BY <2>1, <2>2
<1>15. LogInv(c, m)'
  <2>1. Len(c) \in Nat /\ H \in Nat /\ Len(m) \in Nat /\ H' = H
    BY <1>3, LenProperties DEF QInv, LinkInv, LogInv, H, TypeOK
  <2>2. \A k \in H .. Len(m) : k + 1 \in H .. Len(c)
    BY <2>1 DEF QInv, LogInv
  <2>3. \A k \in H .. Len(m) : message'[c[k + 1]] = message[c[k + 1]]
    BY <2>2, <1>5 DEF QInv, LinkInv
  <2> QED BY <1>3, <1>14, <2>1, <2>3 DEF QInv, LogInv, InOrder
<1>16. CountInv(c)'
  <2>1. \A q \in Producer : pc'[q] \in {"swing", "add"} <=> pc[q] \in {"swing", "add"}
    BY <1>3, <1>4, <1>6
  <2> QED BY <2>1, <1>3, CountFrame DEF QInv, Uncounted
<1> QED BY <1>7, <1>8, <1>10, <1>11, <1>12, <1>13, <1>15, <1>16 DEF QInv

-----------------------------------------------------------------------------
(* enqueue, the link: both logs grow. *)

(* The next message of p at the end of the log keeps every producer's order. *)
LEMMA OrderGrows ==
  ASSUME NEW m \in Seq(Msg), NEW p \in Producer, NEW n \in Nat, <<p, n + 1>> \in Msg,
         NEW q \in Producer, NEW k \in Nat, InOrder(m, q, k), p = q => n = k,
         NEW l, l = Append(m, <<p, n + 1>>)
  PROVE  InOrder(l, q, IF p = q THEN k + 1 ELSE k)
<1> DEFINE z == <<p, n + 1>>
<1>1. /\ Len(m) \in Nat /\ Len(l) = Len(m) + 1 /\ l[Len(m) + 1] = z
      /\ \A i \in 1 .. Len(m) : l[i] = m[i]
  BY AppendProperties, LenProperties
<1>2. \A i \in 1 .. Len(m) : m[i][2] \in Nat
  BY ElementOfSeq, CountAssumption DEF Msg
<1>3. z[1] = p /\ z[2] = n + 1
  OBVIOUS
<1> HIDE DEF z
<1>4. \A i \in 1 .. Len(l) : i \in 1 .. Len(m) \/ i = Len(m) + 1
  BY <1>1
<1>5. 1 .. Len(m) \subseteq 1 .. Len(l) /\ Len(m) + 1 \in 1 .. Len(l)
  BY <1>1
<1>6. CASE p = q
  <2>1. \A j \in 1 .. (k + 1) : \E i \in 1 .. Len(l) : l[i] = <<q, j>>
    <3>1. \A j \in 1 .. k : \E i \in 1 .. Len(l) : l[i] = <<q, j>>
      BY <1>1, <1>5 DEF InOrder
    <3>2. l[Len(m) + 1] = <<q, k + 1>>
      BY <1>1, <1>6 DEF z
    <3>3. \A j \in 1 .. (k + 1) : j \in 1 .. k \/ j = k + 1
      OBVIOUS
    <3> QED BY <3>1, <3>2, <3>3, <1>5
  <2>2. \A i \in 1 .. Len(l) : l[i][1] = q => l[i][2] <= k + 1
    BY <1>1, <1>2, <1>3, <1>4, <1>6 DEF InOrder
  <2>3. \A i, j \in 1 .. Len(l) :
          i < j /\ l[i][1] = q /\ l[j][1] = q => l[i][2] < l[j][2]
    <3> SUFFICES ASSUME NEW i \in 1 .. Len(l), NEW j \in 1 .. Len(l), i < j,
                        l[i][1] = q, l[j][1] = q
                 PROVE  l[i][2] < l[j][2]
      OBVIOUS
    <3>1. i \in 1 .. Len(m)
      BY <1>1, <1>4
    <3>2. m[i][2] <= k /\ m[i][2] \in Nat /\ l[i] = m[i]
      BY <3>1, <1>1, <1>2 DEF InOrder
    <3>3. CASE j = Len(m) + 1
      BY <3>2, <3>3, <1>1, <1>3, <1>6
    <3>4. CASE j \in 1 .. Len(m)
      BY <3>1, <3>4, <1>1 DEF InOrder
    <3> QED BY <3>3, <3>4, <1>4
  <2> QED BY <2>1, <2>2, <2>3, <1>6 DEF InOrder
<1>7. CASE p # q
  <2>1. \A j \in 1 .. k : \E i \in 1 .. Len(l) : l[i] = <<q, j>>
    BY <1>1, <1>5 DEF InOrder
  <2>2. \A i \in 1 .. Len(l) : l[i][1] = q => i \in 1 .. Len(m)
    BY <1>1, <1>3, <1>4, <1>7
  <2>3. \A i \in 1 .. Len(l) : l[i][1] = q => l[i][2] <= k
    BY <2>2, <1>1 DEF InOrder
  <2>4. \A i, j \in 1 .. Len(l) :
          i < j /\ l[i][1] = q /\ l[j][1] = q => l[i][2] < l[j][2]
    BY <2>2, <1>1 DEF InOrder
  <2> QED BY <2>1, <2>3, <2>4, <1>7 DEF InOrder
<1> QED BY <1>6, <1>7

(* An unlinked tail that enqueue still owns is the last node of the queue. *)
LEMMA EndIsLast ==
  ASSUME NEW c, LinkInv(c), ConsumerInv(c), received \in Seq(Msg),
         NEW x \in allocated, Known(c, x), next[x] = Null
  PROVE  x = c[Len(c)]
<1>1. Len(c) \in Nat /\ H \in Nat \ {0} /\ c \in Seq(Node)
  BY LenProperties DEF LinkInv, H
<1>2. ~Retired(x)
  BY DEF Retired, ConsumerInv
<1>3. PICK i \in H .. Len(c) : c[i] = x
  BY <1>2 DEF Known, InQueue
<1>4. ASSUME i # Len(c) PROVE FALSE
  <2>1. i \in H .. (Len(c) - 1) /\ i + 1 \in 1 .. Len(c)
    BY <1>1, <1>4
  <2>2. next[c[i]] = c[i + 1]
    BY <2>1 DEF LinkInv
  <2>3. c[i + 1] \in Node
    BY <1>1, <2>1, ElementOfSeq
  <2> QED BY <1>3, <2>2, <2>3, QueueAssumption
<1> QED BY <1>3, <1>4

LEMMA LinkGrows ==
  ASSUME NEW c, NEW m, TypeOK, QInv(c, m), NEW p \in Producer,
         pc[p] = "link", pc' = [pc EXCEPT ![p] = "swing"], p \notin stale,
         ptail[p] \in allocated, next[ptail[p]] = Null,
         next' = [next EXCEPT ![ptail[p]] = node[p]],
         UNCHANGED <<message, allocated, freed, head, tail, count, node, ptail, pnext,
                     sent, cpc, chead, ctail, cnext, received, undefined, stale>>,
         NEW d, d = Append(c, node[p]), NEW l, l = Append(m, <<p, sent[p]>>)
  PROVE  QInv(d, l)'
<1> DEFINE n == node[p]
           L == Len(c)
<1>1. /\ L \in Nat /\ H \in Nat \ {0} /\ c \in Seq(Node) /\ H' = H /\ H \in 1 .. L
      /\ received \in Seq(Msg)
  BY LenProperties DEF QInv, LinkInv, H, TypeOK
<1>2. /\ n \in allocated /\ ~InQueue(c, n) /\ ~Retired(n) /\ next[n] = Null
      /\ sent[p] >= 1 /\ message[n] = <<p, sent[p]>> /\ n \in Node
  BY DEF QInv, PrivateInv, Unlinked, TypeOK
<1>3. Known(c, ptail[p])
  BY DEF QInv, PointerInv
<1>4. ptail[p] = c[L] /\ L \in H .. L
  BY <1>1, <1>3, EndIsLast DEF QInv
<1>5. d \in Seq(Node) /\ Len(d) = L + 1 /\ d[L + 1] = n /\ \A i \in 1 .. L : d[i] = c[i]
  BY <1>1, <1>2, AppendProperties
<1>6. n # c[L] /\ \A i \in H .. L : c[i] # n
  BY <1>2, <1>4 DEF InQueue
<1>7. /\ next'[c[L]] = n
      /\ \A x \in Node : x # c[L] => next'[x] = next[x]
  BY <1>4 DEF TypeOK
<1>8. /\ pc'[p] = "swing" /\ Others(p)
      /\ \A q \in Producer : pc'[q] \in Unlinked => q # p /\ pc[q] \in Unlinked
  BY DEF Others, TypeOK, Unlinked
<1>9. \A i \in H .. Len(d) : (i \in H .. L /\ i \in 1 .. L /\ d[i] = c[i]) \/ (i = L + 1 /\ d[i] = n)
  <2> HIDE DEF n, L
  <2> QED BY <1>1, <1>5
<1>10. \A i \in H .. L : i \in H .. Len(d) /\ d[i] = c[i] /\ c[i] \in Node /\ c[i] \in allocated
  BY <1>1, <1>5, ElementOfSeq DEF QInv, LinkInv
<1>11. L + 1 \in H .. Len(d) /\ Len(d) = L + 1 /\ d[Len(d)] = n
  BY <1>1, <1>5
<1>12. \A i, j \in H .. L : c[i] = c[j] => i = j
  BY DEF QInv, LinkInv
<1>13. \A x, y : y = x => (InQueue(d, y)' <=> InQueue(c, x) \/ x = n)
  <2> HIDE DEF n, L
  <2> QED BY <1>1, <1>9, <1>10, <1>11 DEF InQueue, L
<1>14. \A x, y : y = x => (Retired(y)' <=> Retired(x))
  BY DEF Retired
<1>15. LinkInv(d)'
  <2>1. \A i \in H .. (Len(d) - 1) : next'[d[i]] = d[i + 1]
    <3> TAKE i \in H .. (Len(d) - 1)
    <3>1. i \in H .. L /\ d[i] = c[i] /\ c[i] \in Node
      BY <1>1, <1>10, <1>11
    <3>2. CASE i = L
      BY <3>1, <3>2, <1>5, <1>7
    <3>3. CASE i # L
      <4>1. c[i] # c[L] /\ i \in H .. (L - 1) /\ i + 1 \in 1 .. L
        BY <3>1, <3>3, <1>1, <1>4, <1>12
      <4>2. next[c[i]] = c[i + 1]
        BY <4>1 DEF QInv, LinkInv
      <4> QED BY <3>1, <4>1, <4>2, <1>5, <1>7
    <3> QED BY <3>2, <3>3
  <2>2. next'[d[Len(d)]] = Null
    BY <1>2, <1>6, <1>7, <1>11
  <2>3. \A i, j \in H .. Len(d) : d[i] = d[j] => i = j
    BY <1>1, <1>6, <1>9, <1>12
  <2>4. \A i \in H .. Len(d) : d[i] \in allocated
    BY <1>2, <1>9, <1>10
  <2>5. head = d[H] /\ H \in 1 .. Len(d)
    BY <1>1, <1>5 DEF QInv, LinkInv
  <2> QED BY <1>1, <1>5, <2>1, <2>2, <2>3, <2>4, <2>5 DEF LinkInv
<1>16. PrivateInv(d)'
  <2>1. ASSUME NEW q \in Producer, pc'[q] \in Unlinked
        PROVE  /\ node[q] \in allocated /\ ~InQueue(d, node[q])' /\ ~Retired(node[q])'
               /\ next'[node[q]] = Null
               /\ sent[q] >= 1 /\ message[node[q]] = <<q, sent[q]>>
    <3>1. q # p /\ pc[q] \in Unlinked
      BY <2>1, <1>8
    <3>2. /\ node[q] \in allocated /\ ~InQueue(c, node[q]) /\ ~Retired(node[q])
          /\ next[node[q]] = Null
          /\ sent[q] >= 1 /\ message[node[q]] = <<q, sent[q]>>
      BY <3>1 DEF QInv, PrivateInv
    <3>3. node[q] # n
      BY <3>1, <3>2, <1>2
    <3>4. node[q] # c[L] /\ node[q] \in Node
      BY <3>2, <1>4 DEF InQueue, TypeOK
    <3>5. ~InQueue(d, node[q])' /\ ~Retired(node[q])'
      BY <3>2, <3>3, <1>13, <1>14
    <3> QED BY <3>2, <3>4, <3>5, <1>7
  <2> QED BY <2>1 DEF PrivateInv
<1>17. PointerInv(d)'
  <2>1. \A x, y : y = x /\ Known(c, x) => Known(d, y)'
    BY <1>13, <1>14 DEF Known
  <2>2. \A x : Known(c, x) => x # n
    BY <1>2 DEF Known
  <2>3. ASSUME NEW x, NEW y, Known(c, x), Follows(c, x, y), NEW i \in H .. Len(d), d[i] = x
        PROVE  i < Len(d) /\ d[i + 1] = y
    <3>1. i \in H .. L /\ d[i] = c[i]
      BY <2>2, <2>3, <1>9
    <3>2. i < L /\ c[i + 1] = y
      BY <2>3, <3>1 DEF Follows
    <3>3. i + 1 \in 1 .. L
      BY <3>1, <3>2, <1>1
    <3> QED BY <3>2, <3>3, <1>1, <1>5
  <2>4. \A x, y, z, w : Known(c, x) /\ Follows(c, x, y) /\ z = x /\ w = y => Follows(d, z, w)'
    <3> SUFFICES ASSUME NEW x, NEW y, Known(c, x), Follows(c, x, y)
                 PROVE  \A z, w : z = x /\ w = y => Follows(d, z, w)'
      OBVIOUS
    <3>1. \A i \in H' .. Len(d) : d[i] = x => i < Len(d) /\ d[i + 1] = y
      BY <1>1, <2>3
    <3> QED BY <3>1 DEF Follows
  <2>5. Follows(d, ptail[p], node[p])'
    <3>1. \A i \in H .. Len(d) : d[i] = c[L] => i = L
      BY <1>4, <1>6, <1>9, <1>12
    <3> QED BY <3>1, <1>1, <1>4, <1>5 DEF Follows
  <2>6. ASSUME NEW q \in Producer PROVE PointersOf(d, q)'
    <3>1. CASE q = p
      BY <3>1, <2>1, <2>5, <1>3, <1>8 DEF PointersOf
    <3>2. CASE q # p
      <4>1. PointersOf(c, q) /\ pc'[q] = pc[q]
        BY <3>2, <1>8, PointersSplit DEF QInv, Others
      <4>2. /\ ptail' = ptail /\ pnext' = pnext /\ node' = node
        OBVIOUS
      <4> QED BY <4>1, <4>2, <2>1, <2>4 DEF PointersOf
    <3> QED BY <3>1, <3>2
  <2> QED BY <2>6 DEF PointerInv, PointersOf
<1>18. ConsumerInv(d)'
  <2>1. InQueue(d, tail)'
    BY <1>13 DEF QInv, ConsumerInv
  <2>2. ASSUME NEW i \in H .. L, NEW j \in H .. L, i <= j, c[i] = ctail, c[j] = tail
        PROVE  \E k, e \in H .. Len(d) : k <= e /\ d[k] = ctail /\ d[e] = tail
    BY <2>2, <1>10
  <2>3. H < L => H < Len(d) /\ d[H + 1] = c[H + 1]
    BY <1>1, <1>5
  <2>4. cpc \in {"sub", "free"} =>
           chead \in allocated /\ ~InQueue(d, chead)' /\ next'[chead] # Null
    <3> SUFFICES ASSUME cpc \in {"sub", "free"}
                 PROVE  chead \in allocated /\ ~InQueue(d, chead)' /\ next'[chead] # Null
      OBVIOUS
    <3>1. chead \in allocated /\ ~InQueue(c, chead) /\ next[chead] # Null
      BY DEF QInv, ConsumerInv
    <3>2. chead # n /\ chead # c[L] /\ chead \in Node
      BY <3>1, <1>2, <1>4 DEF Retired, InQueue, TypeOK
    <3> QED BY <3>1, <3>2, <1>7, <1>13
  <2>5. cpc \in {"next", "check", "help", "take"} =>
       /\ chead = head
       /\ \E i, j \in H .. L : i <= j /\ c[i] = ctail /\ c[j] = tail
    BY DEF QInv, ConsumerInv
  <2> QED BY <2>1, <2>2, <2>3, <2>4, <2>5, <1>1 DEF QInv, ConsumerInv
<1>19. HeapInv(d)'
  <2>1. ASSUME NEW x \in allocated
        PROVE  InQueue(d, x)' \/ Retired(x)' \/ \E q \in Producer : pc'[q] \in Unlinked /\ node[q] = x
    <3>1. InQueue(c, x) \/ Retired(x) \/ \E q \in Producer : pc[q] \in Unlinked /\ node[q] = x
      BY DEF QInv, HeapInv
    <3>2. ASSUME NEW q \in Producer, pc[q] \in Unlinked, node[q] = x
          PROVE  x = n \/ pc'[q] \in Unlinked
      BY <3>2, <1>8 DEF Others
    <3> QED BY <3>1, <3>2, <1>13, <1>14
  <2> QED BY <2>1 DEF QInv, HeapInv
<1>20. LogInv(d, l)'
  <2>1. m \in Seq(Msg) /\ Len(m) = L - 1 /\ Len(m) \in Nat
    BY <1>1 DEF QInv, LogInv
  <2>2. sent[p] \in 1 .. MaxSend /\ <<p, sent[p]>> \in Msg
    BY <1>2, CountAssumption DEF TypeOK, Msg
  <2>3. l \in Seq(Msg) /\ Len(l) = L /\ l[L] = <<p, sent[p]>> /\ \A i \in 1 .. Len(m) : l[i] = m[i]
    BY <2>1, <2>2, <1>1, AppendProperties
  <2>4. \A k \in 1 .. Len(received) : l[k] = received[k]
    <3>1. \A k \in 1 .. Len(received) : k \in 1 .. Len(m)
      BY <1>1, <2>1, LenProperties DEF H
    <3> QED BY <3>1, <2>3 DEF QInv, LogInv
  <2>5. \A k \in H .. Len(l) : l[k] = message[d[k + 1]]
    <3> TAKE k \in H .. Len(l)
    <3>1. CASE k = L
      BY <3>1, <2>3, <1>2, <1>5
    <3>2. CASE k # L
      <4>1. k \in H .. Len(m) /\ k \in 1 .. Len(m) /\ k + 1 \in 1 .. L
        BY <3>2, <2>1, <2>3, <1>1
      <4> QED BY <4>1, <2>3, <1>5 DEF QInv, LogInv
    <3> QED BY <3>1, <3>2
  <2>6. ASSUME NEW q \in Producer PROVE InOrder(l, q, Linked(q)')
    <3>1. Linked(q) \in Nat /\ InOrder(m, q, Linked(q))
      <4>1. pc[q] \in Unlinked => sent[q] >= 1
        BY DEF QInv, PrivateInv
      <4>2. Linked(q) \in Nat
        BY <4>1, CountAssumption DEF Linked, TypeOK, Unlinked
      <4> QED BY <4>2 DEF QInv, LogInv
    <3>2. Linked(p) = sent[p] - 1 /\ Linked(p)' = sent[p]
      BY <1>8 DEF Linked
    <3>3. q # p => Linked(q)' = Linked(q)
      BY <1>8 DEF Linked, Others
    <3>4. sent[p] - 1 \in Nat /\ (sent[p] - 1) + 1 = sent[p]
      BY <2>2
    <3>5. Linked(q)' = IF p = q THEN Linked(q) + 1 ELSE Linked(q)
      BY <3>2, <3>3, <3>4
    <3>6. p = q => sent[p] - 1 = Linked(q)
      BY <3>2
    <3>7. <<p, (sent[p] - 1) + 1>> \in Msg /\ l = Append(m, <<p, (sent[p] - 1) + 1>>)
      BY <2>2, <3>4
    <3>8. InOrder(l, q, IF p = q THEN Linked(q) + 1 ELSE Linked(q))
      BY <3>1, <3>4, <3>6, <3>7, <2>1, OrderGrows
    <3> QED BY <3>5, <3>8
  <2>7. \A q \in Producer : InOrder(l, q, Linked(q))'
    BY <2>6 DEF InOrder
  <2>8. l \in Seq(Msg) /\ Len(l) = Len(d) - 1
    BY <2>3, <1>1, <1>5
  <2>9. received' = received /\ message' = message /\ H' = H
    BY <1>1
  <2> QED BY <2>4, <2>5, <2>7, <2>8, <2>9 DEF LogInv
<1>21. CountInv(d)'
  <2>1. p \notin Uncounted /\ Uncounted' = Uncounted \cup {p}
    BY <1>8 DEF Uncounted, Others
  <2>2. Cardinality(Uncounted') = Cardinality(Uncounted) + 1
    BY <2>1, UncountedFinite, FS_AddElement
  <2>3. Balance(d)' = Balance(c)
    <3> DEFINE u == Cardinality(Uncounted)
               w == Cardinality(Uncounted')
               e == IF cpc = "sub" THEN 1 ELSE 0
    <3>1. u \in Nat /\ w = u + 1 /\ e \in Nat
      BY <2>2, UncountedFinite
    <3>2. Balance(c) = L - H + e - u
      BY DEF Balance
    <3>3. Balance(d)' = Len(d) - H + e - w
      BY <1>1 DEF Balance
    <3> HIDE DEF u, w, e, L
    <3> QED BY <3>1, <3>2, <3>3, <1>1, <1>5, SMTT(30)
  <2> QED BY <2>3 DEF QInv, CountInv
<1> QED BY <1>15, <1>16, <1>17, <1>18, <1>19, <1>20, <1>21 DEF QInv

LEMMA LinkStep ==
  ASSUME NEW c, NEW m, TypeOK, QInv(c, m), NEW p \in Producer, Link(p), ~aba'
  PROVE  TypeOK' /\ \E d, l : QInv(d, l)'
<1> USE DEF Link, Goto, Deref, consumer, Exchanged
<1>1. TypeOK'
  BY DEF TypeOK
<1>2. pc[p] = "link"
  OBVIOUS
<1>3. UNCHANGED <<message, allocated, freed, head, tail, count, node, ptail, pnext,
                  sent, cpc, chead, ctail, cnext, received, stale>>
  OBVIOUS
<1>4. \/ /\ ptail[p] \in allocated /\ next[ptail[p]] = Null
         /\ next' = [next EXCEPT ![ptail[p]] = node[p]]
         /\ pc' = [pc EXCEPT ![p] = "swing"] /\ UNCHANGED undefined /\ p \notin stale
      \/ pc' = [pc EXCEPT ![p] = "load"] /\ UNCHANGED next
  OBVIOUS
<1>5. CASE /\ ptail[p] \in allocated /\ next[ptail[p]] = Null
           /\ next' = [next EXCEPT ![ptail[p]] = node[p]]
           /\ pc' = [pc EXCEPT ![p] = "swing"] /\ UNCHANGED undefined /\ p \notin stale
  <2>1. PICK d, l : d = Append(c, node[p]) /\ l = Append(m, <<p, sent[p]>>)
    OBVIOUS
  <2>2. QInv(d, l)'
    BY <1>2, <1>3, <1>5, <2>1, LinkGrows
  <2> QED BY <1>1, <2>2
<1>6. CASE pc' = [pc EXCEPT ![p] = "load"] /\ UNCHANGED next
  <2>1. pc'[p] = "load" /\ Others(p)
    BY <1>3, <1>6 DEF Others, TypeOK
  <2>2. PointersOf(c, p)'
    BY <2>1 DEF PointersOf
  <2>3. ConsumerInv(c)'
    BY <1>3, <1>6, ConsumerFrame DEF QInv
  <2>4. QInv(c, m)'
    BY <1>2, <1>3, <1>6, <2>1, <2>2, <2>3, ReadStep DEF Unlinked
  <2> QED BY <1>1, <2>4
<1> QED BY <1>4, <1>5, <1>6

-----------------------------------------------------------------------------
(* dequeue, up to the move of head. *)

LEMMA LookStep ==
  ASSUME NEW c, NEW m, QInv(c, m), ConsumerInv(c)',
         cpc \notin {"sub", "free"}, cpc' \notin {"sub", "free"},
         UNCHANGED <<next, message, allocated, freed, head, count, pc, node, ptail,
                     pnext, sent, received, stale>>
  PROVE  QInv(c, m)'
<1>1. LinkInv(c)'
  BY LinkFrame DEF QInv
<1>2. PrivateInv(c)'
  BY DEF QInv, PrivateInv, InQueue, Retired, H
<1>3. PointerInv(c)'
  BY DEF QInv, PointerInv, Known, Follows, InQueue, Retired, H
<1>4. HeapInv(c)'
  BY DEF QInv, HeapInv, InQueue, Retired, H
<1>5. \A q \in Producer : Linked(q)' = Linked(q)
  BY DEF Linked
<1>6. LogInv(c, m)'
  BY <1>5, LogFrame DEF QInv
<1>7. CountInv(c)'
  BY CountFrame DEF QInv, Uncounted
<1> QED BY <1>1, <1>2, <1>3, <1>4, <1>6, <1>7 DEF QInv

LEMMA LoadHeadStep ==
  ASSUME NEW c, NEW m, TypeOK, QInv(c, m), LoadHead
  PROVE  TypeOK' /\ QInv(c, m)'
<1> USE DEF LoadHead, heap, producers, history
<1>1. TypeOK'
  BY DEF TypeOK
<1>2. Len(c) \in Nat /\ H \in Nat
  BY LenProperties DEF QInv, LinkInv, H, TypeOK
<1>3. PICK i \in H .. Len(c) : c[i] = tail
  BY DEF QInv, ConsumerInv, InQueue
<1>4. ConsumerInv(c)'
  <2>1. \E k, l \in H .. Len(c) : k <= l /\ c[k] = ctail' /\ c[l] = tail'
    BY <1>2, <1>3
  <2> QED BY <2>1, <1>3 DEF ConsumerInv, InQueue, H
<1> QED BY <1>1, <1>4, LookStep

LEMMA LoadHeadNextStep ==
  ASSUME NEW c, NEW m, TypeOK, QInv(c, m), LoadHeadNext
  PROVE  TypeOK' /\ QInv(c, m)' /\ UNCHANGED undefined
<1> USE DEF LoadHeadNext, heap, producers, history
<1>1. Len(c) \in Nat /\ H \in Nat /\ H \in 1 .. Len(c) /\ H \in H .. Len(c)
  BY LenProperties DEF QInv, LinkInv, H, TypeOK
<1>2. chead = c[H] /\ chead \in allocated
  BY <1>1 DEF QInv, ConsumerInv, LinkInv
<1>3. cnext' = next[c[H]] /\ UNCHANGED undefined
  BY <1>2 DEF Deref
<1>4. TypeOK'
  BY <1>2, <1>3 DEF TypeOK
<1>5. PICK i, j \in H .. Len(c) : i <= j /\ c[i] = ctail /\ c[j] = tail
  BY DEF QInv, ConsumerInv
<1>6. (cnext' = Null /\ ctail = chead) \/ (H < Len(c) /\ cnext' = c[H + 1])
  <2>1. CASE H = Len(c)
    <3>1. i = H
      BY <1>1, <2>1
    <3> QED BY <3>1, <2>1, <1>2, <1>3, <1>5 DEF QInv, LinkInv
  <2>2. CASE H # Len(c)
    <3>1. H \in H .. (Len(c) - 1) /\ H < Len(c)
      BY <1>1, <2>2
    <3> QED BY <3>1, <1>3 DEF QInv, LinkInv
  <2> QED BY <2>1, <2>2
<1>7. ConsumerInv(c)'
  BY <1>2, <1>5, <1>6 DEF QInv, ConsumerInv, InQueue, H
<1> QED BY <1>3, <1>4, <1>7, LookStep

LEMMA DequeueCheckStep ==
  ASSUME NEW c, NEW m, TypeOK, QInv(c, m), DequeueCheck
  PROVE  TypeOK' /\ QInv(c, m)'
<1> USE DEF DequeueCheck, heap, producers, history
<1>1. TypeOK'
  BY DEF TypeOK
<1>2. ConsumerInv(c)'
  BY DEF QInv, ConsumerInv, InQueue, H
<1> QED BY <1>1, <1>2, LookStep

LEMMA DequeueHelpStep ==
  ASSUME NEW c, NEW m, TypeOK, QInv(c, m), DequeueHelp
  PROVE  TypeOK' /\ QInv(c, m)'
<1> USE DEF DequeueHelp, heap, producers, history
<1>1. Len(c) \in Nat /\ H \in Nat /\ H \in 1 .. Len(c) /\ H \in H .. Len(c) /\ c \in Seq(Node)
  BY LenProperties DEF QInv, LinkInv, H, TypeOK
<1>2. ctail = c[H] /\ H < Len(c) /\ cnext = c[H + 1]
  BY DEF QInv, ConsumerInv, LinkInv
<1>3. H + 1 \in H .. Len(c) /\ H + 1 \in 1 .. Len(c)
  BY <1>1, <1>2
<1>4. cnext \in Node
  BY <1>1, <1>2, <1>3, ElementOfSeq
<1>5. TypeOK'
  BY <1>4 DEF TypeOK
<1>6. InQueue(c, tail)'
  <2>1. InQueue(c, tail) /\ H' = H
    BY DEF QInv, ConsumerInv, H
  <2> QED BY <2>1, <1>2, <1>3 DEF InQueue
<1>7. ConsumerInv(c)'
  BY <1>6 DEF ConsumerInv
<1> QED BY <1>5, <1>7, LookStep

-----------------------------------------------------------------------------
(* dequeue, once it has found a message: head moves, count, free. *)

LEMMA TakeStep ==
  ASSUME NEW c, NEW m, TypeOK, QInv(c, m), Take
  PROVE  TypeOK' /\ QInv(c, m)' /\ UNCHANGED undefined
<1> USE DEF Take, heap, producers, history
<1> DEFINE L == Len(c)
<1>1. /\ L \in Nat /\ H \in Nat \ {0} /\ H \in 1 .. L /\ H \in H .. L /\ c \in Seq(Node)
      /\ received \in Seq(Msg) /\ Len(received) \in Nat /\ H = Len(received) + 1
  BY LenProperties DEF QInv, LinkInv, H, TypeOK
<1>2. /\ H < L /\ cnext = c[H + 1] /\ chead = c[H] /\ chead # ctail
      /\ \E i, j \in H .. L : i <= j /\ c[i] = ctail /\ c[j] = tail
  BY DEF QInv, ConsumerInv, LinkInv
<1>3. H + 1 \in H .. L /\ H + 1 \in 1 .. L
  BY <1>1, <1>2
<1>4. cnext \in allocated /\ cnext \in Node
  BY <1>1, <1>2, <1>3, ElementOfSeq DEF QInv, LinkInv
<1>5. received' = Append(received, message[cnext]) /\ head' = cnext /\ UNCHANGED undefined
  BY <1>4 DEF Deref
<1>6. /\ m \in Seq(Msg) /\ Len(m) = L - 1 /\ Len(m) \in Nat /\ H \in H .. Len(m) /\ H \in 1 .. Len(m)
      /\ m[H] = message[c[H + 1]]
  BY <1>1, <1>2 DEF QInv, LogInv
<1>7. message[cnext] \in Msg /\ message[cnext] = m[H]
  BY <1>2, <1>6, ElementOfSeq
<1>8. /\ received' \in Seq(Msg) /\ Len(received') = H /\ H' = H + 1
      /\ \A k \in 1 .. Len(received) : received'[k] = received[k]
      /\ received'[H] = m[H]
  BY <1>1, <1>5, <1>7, AppendProperties DEF H
<1>9. TypeOK'
  BY <1>4, <1>5, <1>8 DEF TypeOK
<1>10. \A i \in H' .. L : i \in H .. L /\ i # H
  BY <1>1, <1>8
<1>11. \A i \in H .. L : i = H \/ i \in H' .. L
  BY <1>1, <1>8
<1>12. LinkInv(c)'
  <2>1. H' \in 1 .. L /\ head' = c[H']
    BY <1>2, <1>3, <1>5, <1>8
  <2>2. \A i \in H' .. (L - 1) : i \in H .. (L - 1)
    BY <1>1, <1>8
  <2> QED BY <1>1, <2>1, <2>2, <1>10 DEF QInv, LinkInv
<1>13. ~InQueue(c, chead)' /\ chead \in allocated /\ next[chead] # Null
  <2>1. \A i \in H .. L : c[i] = c[H] => i = H
    BY <1>1 DEF QInv, LinkInv
  <2>2. chead \in allocated
    BY <1>1, <1>2 DEF QInv, LinkInv
  <2>3. next[chead] = c[H + 1]
    <3>1. H \in H .. (L - 1)
      BY <1>1, <1>2
    <3> QED BY <3>1, <1>2 DEF QInv, LinkInv
  <2>4. \A i \in H' .. L : c[i] # chead
    BY <1>2, <1>10, <2>1
  <2> QED BY <1>2, <1>4, <2>2, <2>3, <2>4, QueueAssumption DEF InQueue
<1>14. \A x, y : y = x => (InQueue(c, y)' \/ Retired(y)' <=> InQueue(c, x))
  <2>1. \A x, y : y = x => (Retired(y)' <=> x = c[H])
    BY <1>2 DEF Retired
  <2> QED BY <2>1, <1>1, <1>10, <1>11 DEF InQueue
<1>15. \A x : ~Retired(x)
  BY DEF Retired
<1>16. PrivateInv(c)'
  BY <1>14 DEF QInv, PrivateInv
<1>17. PointerInv(c)'
  <2>1. \A x, y : y = x /\ Known(c, x) => Known(c, y)'
    BY <1>14, <1>15 DEF Known
  <2>2. \A x, y, z, w : Follows(c, x, y) /\ z = x /\ w = y => Follows(c, z, w)'
    BY <1>10 DEF Follows
  <2>3. \A q \in Producer : PointersOf(c, q)'
    BY <2>1, <2>2 DEF QInv, PointerInv, PointersOf
  <2> QED BY <2>3 DEF PointerInv, PointersOf
<1>18. ConsumerInv(c)'
  <2>1. PICK i, j \in H .. L : i <= j /\ c[i] = ctail /\ c[j] = tail
    BY <1>2
  <2>2. i # H
    BY <1>2, <2>1
  <2>3. j \in H' .. L
    BY <1>1, <1>8, <2>1, <2>2
  <2>4. InQueue(c, tail)'
    BY <2>1, <2>3 DEF InQueue
  <2> QED BY <2>4, <1>13 DEF ConsumerInv
<1>19. HeapInv(c)'
  BY <1>14, <1>15 DEF QInv, HeapInv
<1>20. LogInv(c, m)'
  <2>1. \A k \in 1 .. Len(received') : k \in 1 .. Len(received) \/ k = H
    BY <1>1, <1>8
  <2>2. \A k \in 1 .. Len(received') : m[k] = received'[k]
    BY <1>8, <2>1 DEF QInv, LogInv
  <2>3. \A k \in H' .. Len(m) : k \in H .. Len(m)
    BY <1>1, <1>6, <1>8
  <2>4. \A q \in Producer : Linked(q)' = Linked(q)
    BY DEF Linked
  <2>5. \A q \in Producer : InOrder(m, q, Linked(q))'
    BY <2>4 DEF QInv, LogInv, InOrder
  <2> QED BY <1>6, <2>2, <2>3, <2>5 DEF QInv, LogInv
<1>21. CountInv(c)'
  <2> DEFINE u == Cardinality(Uncounted)
  <2>1. u \in Nat /\ Uncounted' = Uncounted
    BY UncountedFinite DEF Uncounted
  <2>2. Balance(c) = L - H + 0 - u
    BY DEF Balance
  <2>3. Balance(c)' = L - (H + 1) + 1 - u
    BY <1>8, <2>1 DEF Balance
  <2>4. Balance(c)' = Balance(c)
    <3> HIDE DEF u, L
    <3> QED BY <1>1, <2>1, <2>2, <2>3
  <2> QED BY <2>4 DEF QInv, CountInv
<1> QED BY <1>5, <1>9, <1>12, <1>16, <1>17, <1>18, <1>19, <1>20, <1>21 DEF QInv

LEMMA SubStep ==
  ASSUME NEW c, NEW m, TypeOK, QInv(c, m), Sub
  PROVE  TypeOK' /\ QInv(c, m)'
<1> USE DEF Sub, heap, producers, history
<1>1. count \in 0 .. (CountMod - 1) /\ received \in Seq(Msg)
  BY DEF TypeOK
<1>2. count' \in 0 .. (CountMod - 1)
  BY <1>1, CountPositive, CountMoves
<1>3. TypeOK'
  BY <1>2 DEF TypeOK
<1>4. LinkInv(c)'
  BY LinkFrame DEF QInv
<1>5. PrivateInv(c)'
  BY DEF QInv, PrivateInv, InQueue, Retired, H
<1>6. PointerInv(c)'
  BY DEF QInv, PointerInv, Known, Follows, InQueue, Retired, H
<1>7. ConsumerInv(c)'
  BY DEF QInv, ConsumerInv, InQueue, H
<1>8. HeapInv(c)'
  BY DEF QInv, HeapInv, InQueue, Retired, H
<1>9. \A q \in Producer : Linked(q)' = Linked(q)
  BY DEF Linked
<1>10. LogInv(c, m)'
  BY <1>9, LogFrame DEF QInv
<1>11. Balance(c) \in Int
  BY <1>1, BalanceInt DEF QInv
<1>12. Balance(c)' = Balance(c) - 1
  <2> DEFINE u == Cardinality(Uncounted)
             L == Len(c)
  <2>1. u \in Nat /\ Uncounted' = Uncounted
    BY UncountedFinite DEF Uncounted
  <2>2. L \in Nat /\ H \in Nat /\ H' = H
    BY LenProperties, <1>1 DEF QInv, LinkInv, H
  <2>3. Balance(c) = L - H + 1 - u /\ Balance(c)' = L - H + 0 - u
    BY <2>1, <2>2 DEF Balance
  <2> HIDE DEF u, L
  <2> QED BY <2>1, <2>2, <2>3
<1>13. PICK k \in Int : count = Balance(c) + k * CountMod
  BY DEF QInv, CountInv
<1>14. \E l \in Int : (count + (CountMod - 1)) % CountMod = (Balance(c) - 1) + l * CountMod
  BY <1>1, <1>11, <1>13, CountDown
<1>15. CountInv(c)'
  BY <1>12, <1>14 DEF CountInv
<1> QED BY <1>3, <1>4, <1>5, <1>6, <1>7, <1>8, <1>10, <1>15 DEF QInv

LEMMA FreeStep ==
  ASSUME NEW c, NEW m, TypeOK, QInv(c, m), Free
  PROVE  TypeOK' /\ QInv(c, m)' /\ UNCHANGED undefined
<1> USE DEF Free, producers, history
<1>1. /\ chead \in allocated /\ ~InQueue(c, chead) /\ chead \in Node /\ Retired(chead)
      /\ H' = H
      /\ allocated' = allocated \ {chead} /\ freed' = freed \cup {chead}
      /\ UNCHANGED undefined
  BY DEF QInv, ConsumerInv, TypeOK, Retired, H, Deref
<1>2. TypeOK'
  BY <1>1 DEF TypeOK
<1>3. \A x, y : y = x => (InQueue(c, y)' <=> InQueue(c, x))
  BY <1>1 DEF InQueue
<1>4. \A x : InQueue(c, x) => x # chead
  BY <1>1
<1>5. \A x : ~Retired(x)' /\ (Retired(x) => x = chead)
  BY DEF Retired
<1>6. LinkInv(c)'
  <2>1. \A i \in H .. Len(c) : c[i] \in allocated /\ c[i] # chead
    BY <1>1 DEF QInv, LinkInv, InQueue
  <2> QED BY <1>1, <2>1 DEF QInv, LinkInv
<1>7. PrivateInv(c)'
  <2>1. ASSUME NEW q \in Producer, pc[q] \in Unlinked
        PROVE  node[q] \in allocated' /\ ~InQueue(c, node[q])' /\ ~Retired(node[q])'
    BY <2>1, <1>1, <1>3, <1>5 DEF QInv, PrivateInv
  <2> QED BY <2>1 DEF QInv, PrivateInv
<1>8. PointerInv(c)'
  <2>1. \A x, y : y = x /\ Known(c, x) => Known(c, y)'
    BY <1>1, <1>3, <1>5 DEF Known
  <2>2. \A x, y, z, w : Follows(c, x, y) /\ z = x /\ w = y => Follows(c, z, w)'
    BY <1>1 DEF Follows
  <2>3. \A q \in Producer : PointersOf(c, q)'
    BY <2>1, <2>2 DEF QInv, PointerInv, PointersOf
  <2> QED BY <2>3 DEF PointerInv, PointersOf
<1>9. ConsumerInv(c)'
  <2>1. InQueue(c, tail)'
    BY <1>3 DEF QInv, ConsumerInv
  <2> QED BY <2>1 DEF ConsumerInv
<1>10. HeapInv(c)'
  BY <1>1, <1>3, <1>5 DEF QInv, HeapInv
<1>11. \A q \in Producer : Linked(q)' = Linked(q)
  BY DEF Linked
<1>12. LogInv(c, m)'
  BY <1>11, LogFrame DEF QInv
<1>13. CountInv(c)'
  BY CountFrame DEF QInv, Uncounted
<1> QED BY <1>1, <1>2, <1>6, <1>7, <1>8, <1>9, <1>10, <1>12, <1>13 DEF QInv

LEMMA DropStep ==
  ASSUME NEW c, NEW m, TypeOK, QInv(c, m), Drop
  PROVE  TypeOK' /\ DroppedInv' /\ cpc' = "dropped"
<1> USE DEF Drop, producers, history
<1>1. TypeOK' /\ cpc' = "dropped"
  BY DEF TypeOK
<1>2. Len(c) \in Nat /\ H \in Nat \ {0} /\ H \in 1 .. Len(c) /\ c \in Seq(Node)
  BY LenProperties DEF QInv, LinkInv, H, TypeOK
<1>3. H = Len(c)
  <2>1. SUFFICES ASSUME H # Len(c) PROVE FALSE
    OBVIOUS
  <2>2. H \in H .. (Len(c) - 1) /\ H + 1 \in 1 .. Len(c)
    BY <1>2, <2>1
  <2>3. next[head] = c[H + 1]
    BY <2>2 DEF QInv, LinkInv
  <2>4. c[H + 1] \in Node
    BY <1>2, <2>2, ElementOfSeq
  <2> QED BY <2>3, <2>4, QueueAssumption
<1>4. \A x : InQueue(c, x) => x = head
  <2>1. head = c[H]
    BY DEF QInv, LinkInv
  <2>2. \A i \in H .. Len(c) : i = H
    BY <1>2, <1>3
  <2> QED BY <2>1, <2>2 DEF InQueue
<1>5. \A x \in allocated : x = head
  BY <1>4 DEF QInv, HeapInv, Retired, Unlinked
<1>6. allocated' = {}
  BY <1>5
<1> QED BY <1>1, <1>6 DEF DroppedInv

LEMMA InitQ ==
  ASSUME Init, NEW c, c = <<head>>, NEW m, m = << >>
  PROVE  TypeOK /\ QInv(c, m) /\ cpc # "dropped"
<1> DEFINE dummy == CHOOSE n \in Node : TRUE
<1>1. dummy \in Node
  BY QueueAssumption
<1>2. head = dummy /\ tail = dummy /\ allocated = {dummy} /\ freed = {}
  BY DEF Init
<1> HIDE DEF dummy
<1>3. TypeOK
  <2>1. count \in 0 .. (CountMod - 1)
    BY CountPositive DEF Init
  <2>2. sent \in [Producer -> 0 .. MaxSend]
    BY CountAssumption DEF Init
  <2>3. undefined \in BOOLEAN /\ aba \in BOOLEAN /\ stale \subseteq Producer
    BY DEF Init
  <2> QED BY <1>1, <1>2, <2>1, <2>2, <2>3 DEF Init, TypeOK
<1>4. received = << >> /\ H = 1 /\ Len(received) = 0
  BY DEF Init, H
<1>5. c \in Seq(Node) /\ Len(c) = 1 /\ c[1] = dummy
  BY <1>1, <1>2
<1>6. m \in Seq(Msg) /\ Len(m) = 0
  OBVIOUS
<1>7. LinkInv(c)
  BY <1>1, <1>2, <1>4, <1>5 DEF LinkInv, Init
<1>8. PrivateInv(c) /\ PointerInv(c)
  BY DEF Init, PrivateInv, PointerInv, Unlinked
<1>9. InQueue(c, dummy)
  BY <1>4, <1>5 DEF InQueue
<1>10. ConsumerInv(c)
  BY <1>2, <1>9 DEF ConsumerInv, Init
<1>11. HeapInv(c)
  BY <1>2, <1>9 DEF HeapInv, Init
<1>12. LogInv(c, m)
  <2>1. \A p \in Producer : Linked(p) = 0
    BY DEF Linked, Init
  <2>2. \A p \in Producer : InOrder(m, p, 0)
    BY <1>6 DEF InOrder
  <2> QED BY <2>1, <2>2, <1>4, <1>5, <1>6 DEF LogInv
<1>13. CountInv(c)
  <2>1. Uncounted = {}
    BY DEF Uncounted, Init
  <2>2. Cardinality(Uncounted) = 0
    BY <2>1, FS_EmptySet
  <2>3. Balance(c) = 0 /\ count = 0
    BY <2>2, <1>4, <1>5 DEF Balance, Init
  <2>4. 0 = 0 + 0 * CountMod
    BY CountPositive
  <2> QED BY <2>3, <2>4 DEF CountInv
<1> QED BY <1>3, <1>7, <1>8, <1>10, <1>11, <1>12, <1>13 DEF QInv, Init

LEMMA ProduceStep ==
  ASSUME NEW c, NEW m, TypeOK, QInv(c, m), NEW p \in Producer, Produce(p), ~aba'
  PROVE  TypeOK' /\ \E d, l : QInv(d, l)'
<1>1. CASE Enqueue(p)  BY <1>1, EnqueueStep
<1>2. CASE LoadTail(p)  BY <1>2, LoadTailStep
<1>3. CASE LoadNext(p)  BY <1>3, LoadNextStep
<1>4. CASE CheckTail(p)  BY <1>4, CheckTailStep
<1>5. CASE Help(p)  BY <1>5, HelpStep
<1>6. CASE Link(p)  BY <1>6, LinkStep
<1>7. CASE Swing(p)  BY <1>7, SwingStep
<1>8. CASE Add(p)  BY <1>8, AddStep
<1> QED BY <1>1, <1>2, <1>3, <1>4, <1>5, <1>6, <1>7, <1>8 DEF Produce

LEMMA DequeueStep ==
  ASSUME NEW c, NEW m, TypeOK, QInv(c, m), Dequeue
  PROVE  TypeOK' /\ QInv(c, m)'
<1>1. CASE LoadHead  BY <1>1, LoadHeadStep
<1>2. CASE LoadHeadNext  BY <1>2, LoadHeadNextStep
<1>3. CASE DequeueCheck  BY <1>3, DequeueCheckStep
<1>4. CASE DequeueHelp  BY <1>4, DequeueHelpStep
<1>5. CASE Take  BY <1>5, TakeStep
<1>6. CASE Sub  BY <1>6, SubStep
<1>7. CASE Free  BY <1>7, FreeStep
<1> QED BY <1>1, <1>2, <1>3, <1>4, <1>5, <1>6, <1>7 DEF Dequeue

(* Once dropped, nothing moves any more. *)
LEMMA DroppedStays ==
  ASSUME cpc = "dropped", DroppedInv, Next PROVE UNCHANGED vars
<1>1. ~Dequeue /\ ~Drop
  BY DEF Dequeue, Drop, LoadHead, LoadHeadNext, DequeueCheck, DequeueHelp, Take, Sub, Free
<1>2. ASSUME NEW p \in Producer PROVE ~Produce(p)
  <2>1. pc[p] = "idle" /\ sent[p] = MaxSend
    BY DEF DroppedInv
  <2>2. ~(sent[p] < MaxSend)
    BY <2>1, CountAssumption
  <2>3. ~Enqueue(p)
    BY <2>2 DEF Enqueue
  <2>4. ~LoadTail(p) /\ ~LoadNext(p) /\ ~CheckTail(p) /\ ~Help(p) /\ ~Swing(p) /\ ~Add(p)
    BY <2>1 DEF LoadTail, LoadNext, CheckTail, Help, Swing, Add, Goto
  <2>5. ~Link(p)
    BY <2>1 DEF Link, Goto, Deref
  <2> QED BY <2>3, <2>4, <2>5 DEF Produce
<1> QED BY <1>1, <1>2 DEF Next, Step, Finished

(* A mistaken exchange is not forgotten. *)
LEMMA AbaStays == [Next]_vars /\ aba => aba'
<1> SUFFICES ASSUME [Next]_vars, aba PROVE aba'
  OBVIOUS
<1>1. CASE UNCHANGED vars
  BY <1>1 DEF vars, history
<1>2. CASE Dequeue \/ Drop
  BY <1>2 DEF Dequeue, Drop, LoadHead, LoadHeadNext, DequeueCheck, DequeueHelp, Take, Sub,
     Free, history
<1>3. ASSUME NEW p \in Producer, Produce(p) PROVE aba'
  <2>1. UNCHANGED aba \/ Exchanged(p)
    BY <1>3 DEF Produce, Enqueue, LoadTail, LoadNext, CheckTail, Help, Link, Swing, Add,
       Deref, history
  <2> QED BY <2>1 DEF Exchanged
<1> QED BY <1>1, <1>2, <1>3 DEF Next, Step, Finished

(* The consumer's steps do not drop the queue, nor do the producers'. *)
LEMMA ListStep == ListInv /\ [Next]_vars => ListInv'
<1> SUFFICES ASSUME ListInv, [Next]_vars, ~aba' PROVE ListInv'
  BY DEF ListInv
<1>0. ~aba
  BY AbaStays
<1>1. CASE UNCHANGED vars
  <2>1. ASSUME NEW c, NEW m, QInv(c, m) PROVE QInv(c, m)'
    <3> USE DEF vars, heap, producers, consumer, history
    <3>1. LinkInv(c)' /\ ConsumerInv(c)' /\ PrivateInv(c)' /\ HeapInv(c)'
      BY <1>1, <2>1, LinkFrame, ConsumerFrame, PrivateFrame, HeapFrame DEF QInv
    <3>2. PointerInv(c)'
      BY <1>1, <2>1 DEF QInv, PointerInv, Known, Follows, InQueue, Retired, H
    <3>3. LogInv(c, m)'
      BY <1>1, <2>1, LogFrame DEF QInv, Linked
    <3>4. CountInv(c)'
      BY <1>1, <2>1, CountFrame DEF QInv, Uncounted
    <3> QED BY <3>1, <3>2, <3>3, <3>4 DEF QInv
  <2>2. TypeOK' /\ cpc' = cpc /\ (DroppedInv => DroppedInv')
    BY <1>0, <1>1 DEF ListInv, TypeOK, DroppedInv, vars, heap, producers, consumer, history
  <2> QED BY <1>0, <2>1, <2>2 DEF ListInv
<1>2. CASE Next /\ cpc = "dropped"
  BY <1>0, <1>1, <1>2, DroppedStays DEF ListInv
<1>3. CASE Next /\ cpc # "dropped"
  <2>1. PICK c, m : QInv(c, m)
    BY <1>0, <1>3 DEF ListInv
  <2>2. TypeOK
    BY <1>0 DEF ListInv
  <2>3. CASE Dequeue
    <3>1. cpc' # "dropped"
      BY <2>3 DEF Dequeue, LoadHead, LoadHeadNext, DequeueCheck, DequeueHelp, Take, Sub, Free
    <3> QED BY <2>1, <2>2, <2>3, <3>1, DequeueStep DEF ListInv
  <2>4. CASE Drop
    BY <2>1, <2>2, <2>4, DropStep DEF ListInv
  <2>5. ASSUME NEW p \in Producer, Produce(p) PROVE ListInv'
    <3>1. cpc' # "dropped"
      BY <1>3, <2>5 DEF Produce, Enqueue, LoadTail, LoadNext, CheckTail, Help, Link, Swing,
         Add, consumer
    <3> QED BY <2>1, <2>2, <2>5, <3>1, ProduceStep DEF ListInv
  <2>6. CASE Finished
    BY <2>6, <1>1 DEF Finished
  <2> QED BY <1>3, <2>3, <2>4, <2>5, <2>6 DEF Next, Step
<1> QED BY <1>1, <1>2, <1>3

-----------------------------------------------------------------------------
(* What the invariant implies. *)

(* No message is in the log twice, so the counter has room for all of it. *)
LEMMA LogIsShort ==
  ASSUME NEW c, NEW m, LogInv(c, m)
  PROVE  Len(m) \in Nat /\ Len(m) < CountMod
<1>1. m \in Seq(Msg) /\ Len(m) \in Nat
  BY LenProperties DEF LogInv
<1>2. \A i \in 1 .. Len(m) : m[i] \in Msg /\ m[i][1] \in Producer /\ m[i][2] \in Nat
  BY <1>1, ElementOfSeq, CountAssumption DEF Msg
<1>3. \A i, j \in 1 .. Len(m) : i < j => m[i] # m[j]
  <2> SUFFICES ASSUME NEW i \in 1 .. Len(m), NEW j \in 1 .. Len(m), i < j, m[i] = m[j]
               PROVE  FALSE
    OBVIOUS
  <2>1. InOrder(m, m[i][1], Linked(m[i][1]))
    BY <1>2 DEF LogInv
  <2>2. m[i][2] < m[j][2]
    BY <2>1 DEF InOrder
  <2> QED BY <1>2, <2>2
<1>4. \A i, j \in 1 .. Len(m) : m[i] = m[j] => i = j
  <2> SUFFICES ASSUME NEW i \in 1 .. Len(m), NEW j \in 1 .. Len(m), m[i] = m[j], i # j
               PROVE  FALSE
    OBVIOUS
  <2>1. i < j \/ j < i
    BY <1>1
  <2> QED BY <2>1, <1>3
<1>5. DOMAIN m = 1 .. Len(m) /\ m \in [1 .. Len(m) -> Msg]
  BY <1>1, LenProperties
<1>6. m \in Injection(1 .. Len(m), Msg)
  BY <1>4, <1>5 DEF Injection, IsInjective
<1>7. IsFiniteSet(1 .. MaxSend) /\ Cardinality(1 .. MaxSend) = MaxSend
  BY CountAssumption, FS_Interval
<1>8. IsFiniteSet(Msg) /\ Cardinality(Msg) = Cardinality(Producer) * MaxSend
  BY <1>7, QueueAssumption, FS_Product DEF Msg
<1>9. Cardinality(1 .. Len(m)) <= Cardinality(Msg)
  BY <1>6, <1>8, FS_Injection
<1>10. Cardinality(1 .. Len(m)) = Len(m)
  <2>1. \A n \in Nat : Cardinality(1 .. n) = n
    BY FS_Interval
  <2> QED BY <1>1, <2>1
<1>11. Cardinality(Msg) \in Nat /\ CountMod \in Nat /\ Cardinality(Msg) < CountMod
  BY <1>8, FS_CardinalityType, CountAssumption
<1> QED BY <1>1, <1>9, <1>10, <1>11

(* The messages returned and those still queued are the log. *)
LEMMA QueuedIsLog ==
  ASSUME NEW c, NEW m, TypeOK, QInv(c, m)
  PROVE  Len(Queued) = Len(c) - H /\ received \o Queued = m
<1> DEFINE D == Len(c) - H
           R == Len(received)
<1>1. /\ Len(c) \in Nat /\ R \in Nat /\ H = R + 1 /\ H \in 1 .. Len(c) /\ D \in Nat
      /\ received \in Seq(Msg)
  BY LenProperties DEF QInv, LinkInv, H, TypeOK
<1>2. m \in Seq(Msg) /\ Len(m) = R + D
  BY <1>1 DEF QInv, LogInv
<1>3. Chain = [k \in 1 .. D |-> c[H + k]]
  BY <1>1, ChainIsLog DEF QInv
<1>4. Len(Chain) = D
  BY <1>1, <1>3
<1>5. Queued = [k \in 1 .. D |-> message[c[H + k]]]
  BY <1>3, <1>4 DEF Queued
<1>6. \A k \in 1 .. D : m[R + k] = message[c[H + k]]
  <2> TAKE k \in 1 .. D
  <2>1. R + k \in H .. Len(m) /\ (R + k) + 1 = H + k
    BY <1>1, <1>2
  <2> QED BY <2>1 DEF QInv, LogInv
<1>7. Queued = [k \in 1 .. D |-> m[R + k]]
  BY <1>5, <1>6
<1>8. \A k \in 1 .. D : m[R + k] \in Msg
  BY <1>1, <1>2, ElementOfSeq
<1> HIDE DEF D, R
<1>9. Queued \in Seq(Msg) /\ Len(Queued) = D /\ \A k \in 1 .. D : Queued[k] = m[R + k]
  BY <1>1, <1>7, <1>8
<1>10. /\ received \o Queued \in Seq(Msg) /\ Len(received \o Queued) = R + D
       /\ \A i \in 1 .. (R + D) : (received \o Queued)[i]
            = IF i <= R THEN received[i] ELSE Queued[i - R]
  <2>1. Len(received) = R
    BY DEF R
  <2> QED BY <1>1, <1>9, <2>1, ConcatProperties
<1>11. \A i \in 1 .. R : m[i] = received[i]
  BY DEF QInv, LogInv, R
<1>12. ASSUME NEW i \in 1 .. (R + D) PROVE (received \o Queued)[i] = m[i]
  <2>1. CASE i <= R
    BY <2>1, <1>1, <1>10, <1>11
  <2>2. CASE ~(i <= R)
    <3>1. i - R \in 1 .. D /\ R + (i - R) = i
      BY <2>2, <1>1
    <3> QED BY <2>2, <3>1, <1>9, <1>10
  <2> QED BY <2>1, <2>2
<1>13. received \o Queued = m
  BY <1>2, <1>10, <1>12, SeqEqual
<1> QED BY <1>9, <1>13 DEF D

(* Two numbers below M that differ by a multiple of it are equal. *)
LEMMA SameRemainder ==
  ASSUME NEW M \in Nat \ {0}, NEW x \in 0 .. (M - 1), NEW y \in 0 .. (M - 1),
         NEW k \in Int, x = y + k * M
  PROVE  x = y
<1>1. CASE k = 0
  BY <1>1
<1>2. CASE k >= 1
  <2>1. k * M >= M
    BY <1>2
  <2> QED BY <2>1
<1>3. CASE k <= -1
  <2>1. k * M <= -M
    BY <1>3
  <2> QED BY <2>1
<1> QED BY <1>1, <1>2, <1>3

LEMMA ListImpliesQueue == ListInv => QueueInv
<1> SUFFICES ASSUME ListInv, ~aba PROVE QueueInv
  BY DEF QueueInv
<1>1. TypeOK
  BY DEF ListInv
<1>2. CASE cpc = "dropped"
  BY <1>1, <1>2 DEF ListInv, DroppedInv, QueueInv, ConsumerSafe, PerProducerFifo, TailInQueue,
     CountSettles, NoLeak
<1>3. CASE cpc # "dropped"
  <2>1. PICK c, m : QInv(c, m)
    BY <1>3 DEF ListInv
  <2>2. /\ Len(c) \in Nat /\ H \in Nat \ {0} /\ H \in 1 .. Len(c) /\ H \in H .. Len(c)
        /\ received \in Seq(Msg)
    BY <1>1, <2>1, LenProperties DEF QInv, LinkInv, H, TypeOK
  <2>3. ConsumerSafe
    <3>1. cpc = "next" => chead \in allocated
      BY <2>1, <2>2 DEF QInv, ConsumerInv, LinkInv
    <3>2. cpc = "take" => cnext \in allocated
      <4> SUFFICES ASSUME cpc = "take" PROVE cnext \in allocated
        OBVIOUS
      <4>1. H < Len(c) /\ cnext = c[H + 1]
        BY <2>1 DEF QInv, ConsumerInv
      <4>2. H + 1 \in H .. Len(c)
        BY <2>2, <4>1
      <4> QED BY <2>1, <4>1, <4>2 DEF QInv, LinkInv
    <3>3. cpc = "free" => chead \in allocated
      BY <2>1 DEF QInv, ConsumerInv
    <3> QED BY <3>1, <3>2, <3>3 DEF ConsumerSafe
  <2>4. received \o Queued = m /\ Len(Queued) = Len(c) - H
    BY <1>1, <2>1, QueuedIsLog
  <2>5. PerProducerFifo
    BY <2>1, <2>4 DEF PerProducerFifo, QInv, LogInv
  <2>6. Chain = [k \in 1 .. (Len(c) - H) |-> c[H + k]]
    BY <2>1, <2>2, ChainIsLog DEF QInv
  <2>7. TailInQueue
    <3>1. PICK i \in H .. Len(c) : c[i] = tail
      BY <2>1 DEF QInv, ConsumerInv, InQueue
    <3>2. CASE i = H
      BY <3>1, <3>2, <2>1 DEF TailInQueue, QInv, LinkInv
    <3>3. CASE i # H
      <4>1. Len(Chain) = Len(c) - H
        BY <2>2, <2>6
      <4>2. i - H \in 1 .. (Len(c) - H) /\ H + (i - H) = i
        BY <2>2, <3>3
      <4>3. i - H \in 1 .. Len(Chain) /\ Chain[i - H] = c[i]
        BY <2>6, <4>1, <4>2
      <4> QED BY <3>1, <4>3 DEF TailInQueue
    <3> QED BY <3>2, <3>3
  <2>8. CountSettles
    <3> SUFFICES ASSUME \A p \in Producer : pc[p] = "idle",
                        cpc \in {"idle", "next", "check", "help", "take"}
                 PROVE  count = Len(Queued)
      BY DEF CountSettles
    <3>1. Uncounted = {}
      BY DEF Uncounted
    <3>2. Cardinality(Uncounted) = 0
      BY <3>1, FS_EmptySet
    <3>3. Balance(c) = Len(c) - H
      BY <2>2, <3>2 DEF Balance
    <3>4. PICK k \in Int : count = (Len(c) - H) + k * CountMod
      BY <2>1, <3>3 DEF QInv, CountInv
    <3>5. Len(m) < CountMod /\ Len(m) = Len(c) - 1
      BY <2>1, LogIsShort DEF QInv, LogInv
    <3>6. Len(c) - H \in 0 .. (CountMod - 1)
      BY <2>2, <3>5, CountPositive
    <3>7. count \in 0 .. (CountMod - 1)
      BY <1>1 DEF TypeOK
    <3>8. count = Len(c) - H
      BY <3>4, <3>6, <3>7, CountPositive, SameRemainder
    <3> QED BY <3>8, <2>4
  <2>9. NoLeak
    BY <1>3 DEF NoLeak
  <2> QED BY <1>1, <2>3, <2>5, <2>7, <2>8, <2>9 DEF QueueInv
<1> QED BY <1>2, <1>3

(***************************************************************************)
(* THE QUEUE IS SOUND.  Whatever the connection threads and the routing    *)
(* thread interleave in enqueue and dequeue, for any number of threads,    *)
(* messages and addresses: the routing thread follows no freed node, each  *)
(* producer's messages come out once and in their order, tail is a node of *)
(* the queue, count settles and drop frees everything.  Nothing is assumed *)
(* of the allocator: freed addresses are handed out again at any moment,   *)
(* and all this holds up to the first exchange that such an address fools. *)
(***************************************************************************)
THEOREM QueueIsSound == Spec => []QueueInv
<1>1. Init => ListInv
  <2> SUFFICES ASSUME Init PROVE ListInv
    OBVIOUS
  <2>1. PICK c, m : c = <<head>> /\ m = << >>
    OBVIOUS
  <2> QED BY <2>1, InitQ DEF ListInv
<1>2. ListInv /\ [Next]_vars => ListInv'
  BY ListStep
<1> QED BY <1>1, <1>2, ListImpliesQueue, PTL DEF Spec

-----------------------------------------------------------------------------
(* A sole producer never follows a freed node. *)

LEMMA TailOwned ==
  ASSUME NEW c, NEW m, QInv(c, m) PROVE tail \in allocated
BY DEF QInv, LinkInv, ConsumerInv, InQueue

LEMMA SoleProduce ==
  ASSUME NEW c, NEW m, TypeOK, QInv(c, m), Sole, SoleInv, NEW p \in Producer, Produce(p)
  PROVE  SoleInv'
<1>1. tail \in allocated /\ tail \in Node
  BY TailOwned DEF TypeOK
<1>2. \A q \in Producer : q = p
  BY DEF Sole
<1>3. /\ pc[p] # "swing" => next[tail] = Null
      /\ pc[p] \in {"next", "check", "link"} => ptail[p] = tail
      /\ pc[p] = "check" => pnext[p] = Null
      /\ pc[p] # "help" /\ ~undefined /\ stale = {} /\ ~aba
      /\ pc[p] = "swing" => next[node[p]] = Null /\ (tail = ptail[p] \/ tail = node[p])
  BY DEF SoleInv
<1>0. stale' = {} /\ ~aba'
  <2>1. UNCHANGED aba \/ Exchanged(p)
    BY DEF Produce, Enqueue, LoadTail, LoadNext, CheckTail, Help, Link, Swing, Add,
       Deref, history
  <2>2. ~aba'
    <3>1. ~aba /\ p \notin stale
      BY <1>3
    <3> QED BY <2>1, <3>1, Zenon DEF Exchanged
  <2>3. CASE Enqueue(p)
    <3>1. PICK n \in Available : stale' = stale \cup Holding(n)
      BY <2>3 DEF Enqueue
    <3>2. Holding(n) = {}
      BY <1>2, <2>3 DEF Enqueue, Goto, Holding
    <3> QED BY <1>3, <2>2, <3>1, <3>2
  <2>4. CASE ~Enqueue(p)
    <3>1. stale' = stale \/ stale' = stale \ {p}
      BY <2>4 DEF Produce, LoadTail, LoadNext, CheckTail, Help, Link, Swing, Add, history
    <3> QED BY <1>3, <2>2, <3>1
  <2> QED BY <2>3, <2>4
<1> SUFFICES /\ ~undefined'
             /\ pc'[p] # "swing" => next'[tail'] = Null
             /\ pc'[p] \in {"next", "check", "link"} => ptail'[p] = tail'
             /\ pc'[p] = "check" => pnext'[p] = Null
             /\ pc'[p] # "help"
             /\ pc'[p] = "swing" =>
                  next'[node'[p]] = Null /\ (tail' = ptail'[p] \/ tail' = node'[p])
  BY <1>0, <1>2 DEF SoleInv
<1>4. CASE Enqueue(p)
  <2>1. PICK n \in Available : next' = [next EXCEPT ![n] = Null]
    BY <1>4 DEF Enqueue
  <2>2. pc[p] = "idle" /\ pc'[p] = "load" /\ UNCHANGED <<tail, undefined>>
    BY <1>4 DEF Enqueue, Goto, TypeOK
  <2>3. next'[tail] = Null
    BY <1>1, <1>3, <2>1, <2>2 DEF TypeOK
  <2> QED BY <1>3, <2>2, <2>3
<1>5. CASE LoadTail(p)
  BY <1>3, <1>5 DEF LoadTail, Goto, heap, TypeOK
<1>6. CASE LoadNext(p)
  <2>1. ptail[p] = tail /\ next[tail] = Null
    BY <1>3, <1>6 DEF LoadNext, Goto
  <2> QED BY <1>1, <1>3, <1>6, <2>1 DEF LoadNext, Goto, Deref, heap, TypeOK
<1>7. CASE CheckTail(p)
  BY <1>3, <1>7 DEF CheckTail, Goto, heap, TypeOK
<1>8. CASE Help(p)
  BY <1>3, <1>8 DEF Help, Goto
<1>9. CASE Link(p)
  <2>1. pc[p] = "link"
    BY <1>9 DEF Link, Goto, Deref
  <2>2. ptail[p] = tail /\ next[tail] = Null
    BY <1>3, <2>1
  <2>3. /\ next' = [next EXCEPT ![tail] = node[p]] /\ pc'[p] = "swing"
        /\ UNCHANGED <<undefined, tail, ptail, node>>
    BY <1>1, <1>9, <2>2 DEF Link, Goto, Deref, TypeOK
  <2>4. next[node[p]] = Null /\ node[p] # tail /\ node[p] \in Node
    BY <2>1 DEF QInv, PrivateInv, ConsumerInv, Unlinked, TypeOK
  <2> QED BY <1>1, <1>3, <2>2, <2>3, <2>4 DEF TypeOK
<1>10. CASE Swing(p)
  BY <1>3, <1>10 DEF Swing, Goto, heap, TypeOK
<1>11. CASE Add(p)
  BY <1>3, <1>11 DEF Add, Goto, heap, TypeOK
<1> QED BY <1>4, <1>5, <1>6, <1>7, <1>8, <1>9, <1>10, <1>11 DEF Produce

LEMMA SoleDequeue ==
  ASSUME NEW c, NEW m, TypeOK, QInv(c, m), SoleInv, Dequeue \/ Drop
  PROVE  SoleInv'
<1>1. CASE DequeueHelp
  <2>1. UNCHANGED <<next, pc, ptail, pnext, node, undefined, stale, aba>>
    BY <1>1 DEF DequeueHelp, heap, producers, history
  <2>2. CASE tail # ctail
    BY <1>1, <2>1, <2>2 DEF DequeueHelp, SoleInv
  <2>3. CASE tail = ctail
    <3>1. /\ Len(c) \in Nat /\ H \in Nat \ {0} /\ c \in Seq(Node) /\ tail' = cnext
          /\ ctail = c[H] /\ H < Len(c) /\ cnext = c[H + 1]
      BY <1>1, <2>3, LenProperties DEF DequeueHelp, QInv, ConsumerInv, LinkInv, H, TypeOK
    <3>2. H \in H .. (Len(c) - 1) /\ H + 1 \in 1 .. Len(c) /\ H \in H .. Len(c)
      BY <3>1
    <3>3. next[tail] = cnext /\ cnext # Null
      BY <2>3, <3>1, <3>2, ElementOfSeq, QueueAssumption DEF QInv, LinkInv
    <3>4. ASSUME NEW p \in Producer
          PROVE  pc[p] = "swing" /\ tail = ptail[p] /\ next[node[p]] = Null
      BY <3>3 DEF SoleInv
    <3>5. ASSUME NEW p \in Producer PROVE cnext = node[p]
      <4>1. Follows(c, ptail[p], node[p])
        BY <3>4 DEF QInv, PointerInv, SoleInv
      <4> QED BY <2>3, <3>1, <3>2, <3>4, <4>1 DEF Follows
    <3> QED BY <2>1, <3>1, <3>4, <3>5 DEF SoleInv
  <2> QED BY <2>2, <2>3
<1>2. CASE ~DequeueHelp
  <2>1. UNCHANGED <<next, pc, ptail, pnext, node, tail, stale, aba>>
    BY <1>2 DEF Dequeue, Drop, LoadHead, LoadHeadNext, DequeueCheck, Take, Sub, Free, heap,
       producers, history
  <2>2. UNCHANGED undefined
    <3>1. CASE LoadHeadNext  BY <3>1, LoadHeadNextStep
    <3>2. CASE Take  BY <3>2, TakeStep
    <3>3. CASE Free  BY <3>3, FreeStep
    <3>4. CASE ~LoadHeadNext /\ ~Take /\ ~Free
      BY <1>2, <3>4 DEF Dequeue, Drop, LoadHead, DequeueCheck, Sub
    <3> QED BY <3>1, <3>2, <3>3, <3>4
  <2> QED BY <2>1, <2>2 DEF SoleInv
<1> QED BY <1>1, <1>2

(***************************************************************************)
(* A SOLE PRODUCER IS SAFE.  If one connection thread alone calls enqueue, *)
(* neither it nor the routing thread ever follows a pointer to a freed     *)
(* node, even when the allocator hands the addresses out again.  The run   *)
(* ws_queue_reclaim shows that this is lost with a second one.             *)
(***************************************************************************)
THEOREM SoleProducerIsSafe == Sole => (Spec => []NoUseAfterFree)
<1> SUFFICES ASSUME Sole PROVE Spec => []NoUseAfterFree
  OBVIOUS
<1>1. Init => ListInv /\ SoleInv
  <2> SUFFICES ASSUME Init PROVE ListInv /\ SoleInv
    OBVIOUS
  <2>1. PICK c, m : c = <<head>> /\ m = << >>
    OBVIOUS
  <2>2. head \in Node
    BY <2>1, InitQ DEF TypeOK
  <2>3. SoleInv
    BY <2>2 DEF Init, SoleInv
  <2> QED BY <2>1, <2>3, InitQ DEF ListInv
<1>2. ListInv /\ SoleInv /\ [Next]_vars => ListInv' /\ SoleInv'
  <2> SUFFICES ASSUME ListInv, SoleInv, [Next]_vars PROVE ListInv' /\ SoleInv'
    OBVIOUS
  <2>1. ListInv'
    BY ListStep
  <2>2. CASE UNCHANGED vars
    BY <2>1, <2>2 DEF SoleInv, vars, heap, producers, history
  <2>3. CASE Next /\ cpc = "dropped"
    BY <2>1, <2>2, <2>3, DroppedStays DEF ListInv, SoleInv
  <2>4. CASE Next /\ cpc # "dropped"
    <3>1. PICK c, m : QInv(c, m)
      BY <2>4 DEF ListInv, SoleInv
    <3>2. TypeOK
      BY DEF ListInv, SoleInv
    <3>3. CASE Dequeue \/ Drop
      BY <2>1, <3>1, <3>2, <3>3, SoleDequeue
    <3>4. ASSUME NEW p \in Producer, Produce(p) PROVE SoleInv'
      BY <3>1, <3>2, <3>4, SoleProduce
    <3>5. CASE Finished
      BY <2>1, <2>2, <3>5 DEF Finished
    <3> QED BY <2>1, <2>4, <3>3, <3>4, <3>5 DEF Next, Step
  <2> QED BY <2>2, <2>3, <2>4
<1>3. SoleInv => NoUseAfterFree
  BY DEF SoleInv, NoUseAfterFree
<1> QED BY <1>1, <1>2, <1>3, PTL DEF Spec
=============================================================================
