---------------------------- MODULE WsEventLoop ----------------------------
(***************************************************************************)
(* The single-threaded echo server of                                      *)
(* WebSocket/src/17/websocket_server_with_mio.rs and the kernel's          *)
(* readiness queue, which mio uses edge-triggered: a socket is reported    *)
(* once per change, or when it is registered anew while it is ready.  An   *)
(* edge that is used up too early is work that nobody does again.  Bytes   *)
(* are counted: the kernel's streams and Vec keep their order.             *)
(***************************************************************************)
EXTENDS Naturals

CONSTANTS
  Client,        \* the peers; each connects at most once, in any order
  BUFFER_SIZE,   \* bytes one read() takes at most
  SendSpace,     \* bytes the kernel holds for a peer that does not read
  MaxBytes       \* bound: bytes each peer sends

VARIABLES
  peer,          \* the peer: "away", "connected", "shut" (sends no more)
  sent, echoed,  \* bytes it has sent, and has read back
  inbox, outbox, \* bytes in the kernel, towards the server and towards the peer
  slot,          \* the server's side: "none", "backlog", "client", "removed"
  write_buffer,
  interest,      \* what the stream is registered for
  armed,         \* sockets on the kernel's ready list; "listener" is one
  events,        \* what poll() returned and is not handled yet
  at,            \* where run() is
  cur, left,     \* the event being handled: its client, and what it reports
  data           \* what readable() has collected
vars == <<peer, sent, echoed, inbox, outbox, slot, write_buffer, interest, armed, events,
          at, cur, left, data>>
peers == <<peer, sent, echoed>>
run == <<at, cur, left, data>>

Listener == "listener"
Nothing == [c \in Client |-> {}]

Init ==
  /\ peer = [c \in Client |-> "away"]
  /\ sent = [c \in Client |-> 0] /\ echoed = [c \in Client |-> 0]
  /\ inbox = [c \in Client |-> 0] /\ outbox = [c \in Client |-> 0]
  /\ slot = [c \in Client |-> "none"]
  /\ write_buffer = [c \in Client |-> 0]
  /\ interest = Nothing
  /\ armed = {} /\ events = <<FALSE, Nothing>>
  /\ at = "poll" /\ cur = Listener /\ left = {} /\ data = 0

-----------------------------------------------------------------------------
(* The kernel and the peers *)

Ready(c) == (IF inbox[c] > 0 \/ peer[c] = "shut" THEN {"readable"} ELSE {})
              \union (IF outbox[c] < SendSpace THEN {"writable"} ELSE {})

(* A change wakes those who are registered for it. *)
Wake(c, what) == armed' = IF what \in interest[c] THEN armed \union {c} ELSE armed

Connect(c) ==
  /\ peer[c] = "away"
  /\ peer' = [peer EXCEPT ![c] = "connected"]
  /\ slot' = [slot EXCEPT ![c] = "backlog"]
  /\ armed' = armed \union {Listener}
  /\ UNCHANGED <<sent, echoed, inbox, outbox, write_buffer, interest, events, run>>

Send(c) ==
  /\ peer[c] = "connected" /\ sent[c] < MaxBytes[c]
  /\ sent' = [sent EXCEPT ![c] = @ + 1]
  /\ inbox' = [inbox EXCEPT ![c] = @ + 1]
  /\ Wake(c, "readable")
  /\ UNCHANGED <<peer, echoed, outbox, slot, write_buffer, interest, events, run>>

Shut(c) ==
  /\ peer[c] = "connected"
  /\ peer' = [peer EXCEPT ![c] = "shut"]
  /\ Wake(c, "readable")
  /\ UNCHANGED <<sent, echoed, inbox, outbox, slot, write_buffer, interest, events, run>>

(* The peer reads everything that has come back; space wakes a writer only  *)
(* if there was none.                                                       *)
Receive(c) ==
  /\ outbox[c] > 0
  /\ echoed' = [echoed EXCEPT ![c] = @ + outbox[c]]
  /\ outbox' = [outbox EXCEPT ![c] = 0]
  /\ IF outbox[c] = SendSpace THEN Wake(c, "writable") ELSE UNCHANGED armed
  /\ UNCHANGED <<peer, sent, inbox, slot, write_buffer, interest, events, run>>

-----------------------------------------------------------------------------
(* The server *)

(* (Re)registration reports a stream that is ready for what is asked. *)
Register(c, what) ==
  /\ interest' = [interest EXCEPT ![c] = what]
  /\ armed' = IF Ready(c) \intersect what # {} THEN armed \union {c} ELSE armed

(* The stream is closed: the kernel forgets it and what it holds. *)
Removed(c) ==
  /\ slot' = [slot EXCEPT ![c] = "removed"]
  /\ write_buffer' = [write_buffer EXCEPT ![c] = 0]
  /\ interest' = [interest EXCEPT ![c] = {}]
  /\ armed' = armed \ {c}

(* poll() reports what is on the ready list and still ready. *)
Poll ==
  LET report == << Listener \in armed /\ \E c \in Client : slot[c] = "backlog",
                   [c \in Client |-> IF c \in armed THEN Ready(c) \intersect interest[c]
                                                  ELSE {}] >>
  IN  /\ at = "poll" /\ report # <<FALSE, Nothing>>
      /\ events' = report
      /\ armed' = {} /\ at' = "events"
      /\ UNCHANGED <<peers, inbox, outbox, slot, write_buffer, interest, data, cur, left>>

(* The next event, in whatever order they came. *)
NextEvent ==
  /\ at = "events"
  /\ \/ /\ events[1] /\ at' = "accept" /\ events' = <<FALSE, events[2]>>
        /\ UNCHANGED <<cur, left>>
     \/ \E c \in Client : /\ events[2][c] # {}
                          /\ at' = "read" /\ cur' = c /\ left' = events[2][c]
                          /\ events' = <<events[1], [events[2] EXCEPT ![c] = {}]>>
     \/ events = <<FALSE, Nothing>> /\ at' = "poll" /\ UNCHANGED <<events, cur, left>>
  /\ data' = 0
  /\ UNCHANGED <<peers, inbox, outbox, slot, write_buffer, interest, armed>>

(* accept_connections() until the call would block; another error of accept *)
(* ends run().                                                              *)
accept_connections ==
  /\ at = "accept"
  /\ \/ \E c \in Client : /\ slot[c] = "backlog"
                          /\ slot' = [slot EXCEPT ![c] = "client"]
                          /\ Register(c, {"readable"})
                          /\ UNCHANGED at
     \/ /\ \A c \in Client : slot[c] # "backlog"
        /\ at' = "events"
        /\ UNCHANGED <<slot, interest, armed>>
  /\ UNCHANGED <<peers, inbox, outbox, write_buffer, events, data, cur, left>>

accept_fails == /\ at = "accept" /\ at' = "ended"
                /\ UNCHANGED <<peers, inbox, outbox, slot, write_buffer, interest, armed,
                               events, data, cur, left>>

(* The event's readable part is done; its writable part follows, if the    *)
(* client is still there.                                                  *)
Then == at' = IF "writable" \in left THEN "write" ELSE "events"

NotReadable ==
  /\ at = "read" /\ "readable" \notin left
  /\ Then
  /\ UNCHANGED <<peers, inbox, outbox, slot, write_buffer, interest, armed, events,
                 data, cur, left>>

(* One read() of readable(): some bytes ... *)
ReadSome ==
  /\ at = "read" /\ "readable" \in left /\ inbox[cur] > 0
  /\ \E n \in 1 .. BUFFER_SIZE :
       /\ n <= inbox[cur]
       /\ inbox' = [inbox EXCEPT ![cur] = @ - n]
       /\ data' = data + n
  /\ UNCHANGED <<peers, outbox, slot, write_buffer, interest, armed, events, at, cur, left>>

(* ... the end of the stream: None, whatever was collected; or an error,    *)
(* which a peer that is shut may cause ...                                  *)
ReadClosed ==
  /\ at = "read" /\ "readable" \in left
  /\ inbox[cur] = 0 /\ peer[cur] = "shut"
  /\ Removed(cur)
  /\ at' = "events"
  /\ UNCHANGED <<peers, inbox, outbox, events, data, cur, left>>

(* Fault: queue_write() only queues. *)
queue_write_NoInterest(c) ==
  /\ write_buffer' = [write_buffer EXCEPT ![c] = @ + data]
  /\ UNCHANGED <<interest, armed>>

queue_write(c) ==
  /\ write_buffer' = [write_buffer EXCEPT ![c] = @ + data]
  /\ Register(c, {"readable", "writable"})

(* ... or it would block, and what was collected is queued to be echoed. *)
ReadDone ==
  /\ at = "read" /\ "readable" \in left
  /\ inbox[cur] = 0 /\ peer[cur] # "shut"
  /\ IF data > 0 THEN queue_write(cur) ELSE UNCHANGED <<write_buffer, interest, armed>>
  /\ UNCHANGED slot
  /\ Then
  /\ UNCHANGED <<peers, inbox, outbox, events, data, cur, left>>

(* One write() of writable() takes what the kernel has room for. *)
WriteSome ==
  /\ at = "write" /\ write_buffer[cur] > 0 /\ outbox[cur] < SendSpace
  /\ \E n \in 1 .. SendSpace :
       /\ n <= write_buffer[cur] /\ outbox[cur] + n <= SendSpace
       /\ write_buffer' = [write_buffer EXCEPT ![cur] = @ - n]
       /\ outbox' = [outbox EXCEPT ![cur] = @ + n]
  /\ UNCHANGED <<peers, inbox, slot, interest, armed, events, run>>

(* Nothing is left to write, or the call would block. *)
WriteDone ==
  /\ at = "write" /\ (write_buffer[cur] = 0 \/ outbox[cur] = SendSpace)
  /\ IF write_buffer[cur] = 0 THEN Register(cur, {"readable"})
                            ELSE UNCHANGED <<interest, armed>>
  /\ at' = "events"
  /\ UNCHANGED <<peers, inbox, outbox, slot, write_buffer, events, data, cur, left>>

(* read() or write() of a peer that is shut may fail: the client is removed. *)
StreamFails ==
  /\ at \in {"read", "write"} /\ peer[cur] = "shut"
  /\ at = "read" => "readable" \in left
  /\ Removed(cur)
  /\ at' = "events"
  /\ UNCHANGED <<peers, inbox, outbox, events, data, cur, left>>

Server == \/ Poll \/ NextEvent \/ accept_connections \/ NotReadable \/ ReadSome
          \/ ReadClosed \/ ReadDone \/ WriteSome \/ WriteDone \/ StreamFails

Next == \/ Server \/ accept_fails
        \/ \E c \in Client : Connect(c) \/ Send(c) \/ Shut(c) \/ Receive(c)

(* The server runs, and the peers read what comes. *)
Fairness == WF_vars(Server) /\ \A c \in Client : WF_vars(Receive(c))
Spec == Init /\ [][Next]_vars /\ Fairness

-----------------------------------------------------------------------------
(* Every byte of a peer that stays connected comes back: no connection and  *)
(* no data waits for an edge that has already been used up, whatever        *)
(* arrives while the server is busy with earlier events.                    *)
EveryByteEchoed ==
  \A c \in Client : []<>(echoed[c] = sent[c] \/ peer[c] = "shut" \/ at = "ended")
=============================================================================
