------------------------------ MODULE WsQueue ------------------------------
(***************************************************************************)
(* LockFreeQueue of WebSocket/src/20: the linked queue through which the   *)
(* connection threads (producers) hand messages to the broker's routing    *)
(* thread (the one consumer).  Every shared access is a step.  The heap is *)
(* modelled: enqueue allocates a node, dequeue frees the old head, and     *)
(* following a pointer to a freed node is undefined behaviour, recorded in *)
(* `undefined', after which nothing more is said.  The allocator may hand  *)
(* out a freed address again, and an address is all that compare_exchange  *)
(* compares: the history variables stale and aba record when it succeeds   *)
(* on a node that is not the one whose address had been read.              *)
(***************************************************************************)
EXTENDS Integers, Sequences, FiniteSets

CONSTANTS
  Producer,     \* the connection threads
  Node,         \* the addresses the allocator hands out
  Null,
  MaxSend,      \* bound on the messages of each producer
  CountMod      \* 2^width of the usize counter

ASSUME QueueAssumption ==
  /\ IsFiniteSet(Node) /\ Node # {} /\ Null \notin Node
  /\ IsFiniteSet(Producer)
(* The counter is wide enough for all the messages the model sends. *)
ASSUME CountAssumption ==
  /\ MaxSend \in Nat /\ CountMod \in Nat
  /\ Cardinality(Producer) * MaxSend < CountMod

VARIABLES
  next, message,        \* the fields of the nodes
  allocated,            \* the nodes the program owns
  freed,                \* the addresses it has given back so far
  head, tail, count,    \* the fields of LockFreeQueue
  pc, node, ptail, pnext, sent,   \* each producer's enqueue
  cpc, chead, ctail, cnext,       \* the consumer's dequeue
  received,             \* the messages dequeue returned, in order
  undefined,            \* a freed node was dereferenced
  stale,                \* history: the enqueues whose copy of tail names an
                        \* address handed out again since they read it
  aba                   \* history: such a copy passed a compare_exchange

heap == <<next, message, allocated, freed>>
producers == <<pc, node, ptail, pnext, sent>>
consumer == <<cpc, chead, ctail, cnext, received>>
history == <<stale, aba>>
vars == <<heap, head, tail, count, producers, consumer, undefined, history>>

Msg == Producer \X (1 .. MaxSend)
NoMsg == <<Null, 0>>

Init ==
  LET dummy == CHOOSE n \in Node : TRUE IN
    /\ allocated = {dummy} /\ freed = {}
    /\ next = [n \in Node |-> Null]
    /\ message = [n \in Node |-> NoMsg]
    /\ head = dummy /\ tail = dummy /\ count = 0
    /\ pc = [p \in Producer |-> "idle"]
    /\ node = [p \in Producer |-> Null]
    /\ ptail = [p \in Producer |-> Null]
    /\ pnext = [p \in Producer |-> Null]
    /\ sent = [p \in Producer |-> 0]
    /\ cpc = "idle" /\ chead = Null /\ ctail = Null /\ cnext = Null
    /\ received = << >>
    /\ undefined = FALSE
    /\ stale = {} /\ aba = FALSE

Goto(p, from, to) == pc[p] = from /\ pc' = [pc EXCEPT ![p] = to]

(* An access through pointer n, which makes step when n is owned. *)
Deref(n, step, otherwise) ==
  \/ n \in allocated /\ step /\ UNCHANGED undefined
  \/ n \notin allocated /\ undefined' = TRUE /\ otherwise

-----------------------------------------------------------------------------
(* enqueue(message) *)

(* What the allocator may return: an address never used before (they are   *)
(* all alike, so one stands for them), or one it was given back.           *)
Available ==
  LET unused == Node \ (allocated \cup freed)
  IN  (IF unused = {} THEN {} ELSE {CHOOSE n \in unused : TRUE})
        \cup (freed \ allocated)

(* The enqueues that hold n as the tail they read. *)
Holding(n) ==
  {q \in Producer : pc[q] \in {"next", "check", "link", "help", "swing"} /\ ptail[q] = n}

(* An exchange by p succeeds. *)
Exchanged(p) == aba' = (aba \/ p \in stale)

Enqueue(p) ==
  /\ sent[p] < MaxSend
  /\ Goto(p, "idle", "load")
  /\ sent' = [sent EXCEPT ![p] = @ + 1]
  /\ \E n \in Available :
       /\ allocated' = allocated \cup {n}
       /\ next' = [next EXCEPT ![n] = Null]
       /\ message' = [message EXCEPT ![n] = <<p, sent[p] + 1>>]
       /\ node' = [node EXCEPT ![p] = n]
       /\ stale' = stale \cup Holding(n)
  /\ UNCHANGED <<freed, head, tail, count, ptail, pnext, consumer, undefined, aba>>

LoadTail(p) ==
  /\ Goto(p, "load", "next")
  /\ ptail' = [ptail EXCEPT ![p] = tail]
  /\ stale' = stale \ {p}
  /\ UNCHANGED <<heap, head, tail, count, node, pnext, sent, consumer, undefined, aba>>

LoadNext(p) ==
  /\ Goto(p, "next", "check")
  /\ Deref(ptail[p], pnext' = [pnext EXCEPT ![p] = next[ptail[p]]],
                     UNCHANGED pnext)
  /\ UNCHANGED <<heap, head, tail, count, node, ptail, sent, consumer, history>>

(* tail is loaded again; if it moved, or after helping, the loop restarts. *)
CheckTail(p) ==
  /\ IF ptail[p] # tail THEN Goto(p, "check", "load")
     ELSE IF pnext[p] = Null THEN Goto(p, "check", "link")
                             ELSE Goto(p, "check", "help")
  /\ UNCHANGED <<heap, head, tail, count, node, ptail, pnext, sent, consumer,
                 undefined, history>>

Help(p) ==
  /\ Goto(p, "help", "load")
  /\ IF tail = ptail[p] THEN tail' = pnext[p] /\ Exchanged(p)
                        ELSE UNCHANGED <<tail, aba>>
  /\ UNCHANGED <<heap, head, count, node, ptail, pnext, sent, consumer,
                 undefined, stale>>

(* Fault: a lost race is taken for success, and the node is dropped. *)
Link_NoRetry(p) ==
  /\ Deref(ptail[p],
       \/ /\ next[ptail[p]] = Null
          /\ next' = [next EXCEPT ![ptail[p]] = node[p]]
          /\ Goto(p, "link", "swing") /\ Exchanged(p)
       \/ /\ next[ptail[p]] # Null
          /\ Goto(p, "link", "add") /\ UNCHANGED <<next, aba>>,
       Goto(p, "link", "load") /\ UNCHANGED <<next, aba>>)
  /\ UNCHANGED <<message, allocated, freed, head, tail, count, node, ptail,
                 pnext, sent, consumer, stale>>

Link(p) ==
  /\ Deref(ptail[p],
       \/ /\ next[ptail[p]] = Null
          /\ next' = [next EXCEPT ![ptail[p]] = node[p]]
          /\ Goto(p, "link", "swing") /\ Exchanged(p)
       \/ /\ next[ptail[p]] # Null
          /\ Goto(p, "link", "load") /\ UNCHANGED <<next, aba>>,
       Goto(p, "link", "load") /\ UNCHANGED <<next, aba>>)
  /\ UNCHANGED <<message, allocated, freed, head, tail, count, node, ptail, pnext,
                 sent, consumer, stale>>

Swing(p) ==
  /\ Goto(p, "swing", "add")
  /\ IF tail = ptail[p] THEN tail' = node[p] /\ Exchanged(p)
                        ELSE UNCHANGED <<tail, aba>>
  /\ UNCHANGED <<heap, head, count, node, ptail, pnext, sent, consumer,
                 undefined, stale>>

Add(p) ==
  /\ Goto(p, "add", "idle")
  /\ count' = (count + 1) % CountMod
  /\ UNCHANGED <<heap, head, tail, node, ptail, pnext, sent, consumer,
                 undefined, history>>

-----------------------------------------------------------------------------
(* dequeue(): only the consumer stores head, so loading it twice gives the *)
(* same node and the exchange of head succeeds.                            *)

LoadHead ==
  /\ cpc = "idle"
  /\ chead' = head /\ ctail' = tail
  /\ cpc' = "next"
  /\ UNCHANGED <<heap, head, tail, count, producers, cnext, received, undefined,
                 history>>

LoadHeadNext ==
  /\ cpc = "next"
  /\ Deref(chead, cnext' = next[chead], UNCHANGED cnext)
  /\ cpc' = "check"
  /\ UNCHANGED <<heap, head, tail, count, producers, chead, ctail, received, history>>

(* Fault: dequeue does not look whether tail has kept up. *)
DequeueCheck_NoTail ==
  /\ cpc = "check"
  /\ cpc' = IF cnext = Null THEN "idle" ELSE "take"
  /\ UNCHANGED <<heap, head, tail, count, producers, chead, ctail, cnext,
                 received, undefined, history>>

DequeueCheck ==
  /\ cpc = "check"
  /\ cpc' = IF chead # ctail THEN "take"
            ELSE IF cnext = Null THEN "idle" ELSE "help"
  /\ UNCHANGED <<heap, head, tail, count, producers, chead, ctail, cnext,
                 received, undefined, history>>

DequeueHelp ==
  /\ cpc = "help"
  /\ tail' = IF tail = ctail THEN cnext ELSE tail
  /\ cpc' = "idle"
  /\ UNCHANGED <<heap, head, count, producers, chead, ctail, cnext, received,
                 undefined, history>>

(* The message is cloned, then head moves. *)
Take ==
  /\ cpc = "take"
  /\ Deref(cnext, received' = Append(received, message[cnext]) /\ head' = cnext,
                  UNCHANGED <<received, head>>)
  /\ cpc' = "sub"
  /\ UNCHANGED <<heap, tail, count, producers, chead, ctail, cnext, history>>

Sub ==
  /\ cpc = "sub"
  /\ count' = (count + (CountMod - 1)) % CountMod
  /\ cpc' = "free"
  /\ UNCHANGED <<heap, head, tail, producers, chead, ctail, cnext, received,
                 undefined, history>>

Free ==
  /\ cpc = "free"
  /\ Deref(chead, allocated' = allocated \ {chead} /\ freed' = freed \cup {chead},
                  UNCHANGED <<allocated, freed>>)
  /\ cpc' = "idle"
  /\ UNCHANGED <<next, message, head, tail, count, producers, chead, ctail,
                 cnext, received, history>>

-----------------------------------------------------------------------------
Produce(p) ==
  \/ Enqueue(p) \/ LoadTail(p) \/ LoadNext(p) \/ CheckTail(p) \/ Help(p)
  \/ Link(p) \/ Swing(p) \/ Add(p)

Dequeue ==
  LoadHead \/ LoadHeadNext \/ DequeueCheck \/ DequeueHelp \/ Take \/ Sub \/ Free

(* The queue is dropped when every handle is: nobody else is using it.     *)
(* The dequeues that empty it are the consumer's; then the dummy goes.     *)
Drop ==
  /\ \A p \in Producer : pc[p] = "idle" /\ sent[p] = MaxSend
  /\ cpc = "idle" /\ head = tail /\ next[head] = Null
  /\ allocated' = allocated \ {head} /\ freed' = freed \cup {head}
  /\ cpc' = "dropped"
  /\ UNCHANGED <<next, message, head, tail, count, producers, chead, ctail,
                 cnext, received, undefined, history>>

Step == ~undefined /\ (Dequeue \/ Drop \/ \E p \in Producer : Produce(p))

Finished == (cpc = "dropped" \/ undefined) /\ UNCHANGED vars

Next == Step \/ Finished

Spec == Init /\ [][Next]_vars

(* Threads are scheduled: each keeps taking its steps. *)
LiveSpec ==
  /\ Spec
  /\ WF_vars(~undefined /\ Dequeue)
  /\ \A p \in Producer : WF_vars(~undefined /\ Produce(p))

-----------------------------------------------------------------------------
(* The nodes linked behind head, and the messages in them. *)
Chain ==
  LET step[k \in 0 .. Cardinality(Node)] ==
        IF k = 0 THEN head
        ELSE IF step[k - 1] = Null THEN Null ELSE next[step[k - 1]]
      size == Cardinality({k \in 1 .. Cardinality(Node) : step[k] # Null})
  IN  [k \in 1 .. size |-> step[k]]

Queued == [k \in 1 .. Len(Chain) |-> message[Chain[k]]]

TypeOK ==
  /\ next \in [Node -> Node \cup {Null}] /\ allocated \subseteq Node
  /\ freed \subseteq Node
  /\ message \in [Node -> Msg \cup {NoMsg}]
  /\ head \in Node /\ tail \in Node /\ count \in 0 .. (CountMod - 1)
  /\ pc \in [Producer -> {"idle", "load", "next", "check", "help", "link",
                          "swing", "add"}]
  /\ node \in [Producer -> Node \cup {Null}]
  /\ ptail \in [Producer -> Node \cup {Null}]
  /\ pnext \in [Producer -> Node \cup {Null}]
  /\ sent \in [Producer -> 0 .. MaxSend]
  /\ cpc \in {"idle", "next", "check", "help", "take", "sub", "free", "dropped"}
  /\ {chead, ctail, cnext} \subseteq Node \cup {Null}
  /\ received \in Seq(Msg)
  /\ undefined \in BOOLEAN
  /\ stale \subseteq Producer /\ aba \in BOOLEAN

(***************************************************************************)
(* enqueue is "safe for multiple producers" (WebSocket/src/20, line 52):   *)
(* nobody follows a pointer to a node the consumer has freed.              *)
(***************************************************************************)
NoUseAfterFree == ~undefined

(***************************************************************************)
(* The routing thread follows and frees only nodes it has not freed yet,   *)
(* however far the producers have lagged.                                  *)
(***************************************************************************)
ConsumerSafe ==
  /\ cpc = "next" => chead \in allocated
  /\ ~undefined /\ cpc = "take" => cnext \in allocated
  /\ ~undefined /\ cpc = "free" => chead \in allocated

(* The messages of producer p that are linked or received already. *)
Linked(p) ==
  IF pc[p] \in {"load", "next", "check", "link", "help"}
  THEN sent[p] - 1 ELSE sent[p]

(* The messages of p in the sequence log are its first n, in their order: *)
(* each is there, no other is, and they stand as they were numbered.       *)
InOrder(log, p, n) ==
  /\ \A k \in 1 .. n : \E i \in 1 .. Len(log) : log[i] = <<p, k>>
  /\ \A i \in 1 .. Len(log) : log[i][1] = p => log[i][2] <= n
  /\ \A i, j \in 1 .. Len(log) :
       i < j /\ log[i][1] = p /\ log[j][1] = p => log[i][2] < log[j][2]

(***************************************************************************)
(* Nothing is lost, duplicated or reordered: the messages of each producer *)
(* come out, followed by those still queued, in the order it sent them.    *)
(* With several producers this is claimed up to the first undefined access.*)
(***************************************************************************)
PerProducerFifo ==
  ~undefined /\ cpc # "dropped" =>
    \A p \in Producer : InOrder(received \o Queued, p, Linked(p))

(***************************************************************************)
(* tail is one of the nodes of the queue: dequeue never overtakes it, so   *)
(* the node producers append to is not one that was freed.                 *)
(***************************************************************************)
TailInQueue ==
  ~undefined /\ cpc # "dropped" =>
    tail = head \/ \E k \in 1 .. Len(Chain) : Chain[k] = tail

(***************************************************************************)
(* When all calls have returned, count is the number of messages queued.   *)
(* In between it may have wrapped below zero: dequeue may subtract before  *)
(* the enqueue of the same message adds.                                   *)
(***************************************************************************)
CountSettles ==
  /\ \A p \in Producer : pc[p] = "idle"
  /\ cpc \in {"idle", "next", "check", "help", "take"}
  => count = Len(Queued)

(***************************************************************************)
(* Dropping the queue leaves no node behind: each was freed, once.         *)
(***************************************************************************)
NoLeak == cpc = "dropped" => allocated = {}

(***************************************************************************)
(* The state of the queue is sound whatever the producers and the routing  *)
(* thread interleave: no freed node is followed by the consumer, order and *)
(* content of the queue, its tail, its count, and nothing left behind.     *)
(* Addresses may be handed out again; all of it holds until an enqueue's   *)
(* compare_exchange succeeds on a node that got the address of the one the *)
(* enqueue had read (ABA): nothing in the code prevents that, and tail may *)
(* then point to a freed node, which the routing thread follows as well.   *)
(***************************************************************************)
QueueInv ==
  ~aba =>
    /\ TypeOK /\ ConsumerSafe /\ PerProducerFifo
    /\ TailInQueue /\ CountSettles /\ NoLeak

(***************************************************************************)
(* Lock freedom in its usual consequence: the messages sent all arrive,    *)
(* unless a freed node is followed or an exchange is fooled on the way.    *)
(***************************************************************************)
AllArrive ==
  <>(undefined \/ aba \/ Len(received) = MaxSend * Cardinality(Producer))
=============================================================================
