---------------------------- MODULE WsHeartbeat ----------------------------
(***************************************************************************)
(* handle_connection() and websocket_client() of                           *)
(* WebSocket/src/08/websocket_ping_pong.rs at the two ends of a            *)
(* connection: both ping, both answer, both look at the clock only when    *)
(* their interval ticks.  The network delivers in order within Delay, or,  *)
(* once it is cut, never again and without a word.  Times are in a unit    *)
(* of 5 seconds.  Text and binary messages are left out: the echo the loop *)
(* awaits for them makes the task late, by at most Lag.                    *)
(***************************************************************************)
EXTENDS Integers, Sequences

CONSTANTS
  PING_INTERVAL,     \* of the server
  PONG_TIMEOUT,      \* of the server
  client_interval,   \* of the client
  client_limit,      \* the client gives up after this long without a pong
  Delay,             \* a message takes at most this long
  Lag                \* a task runs at most this late

VARIABLES
  open,              \* which ends are still in their loop
  gave_up,           \* history: which ends left it for want of a pong
  waiting_for_pong,  \* of the server
  since_pong,        \* age of each end's last pong, up to the last that matters
  due,               \* time until the next tick of each end's interval
  wire,              \* towards each end: messages with their ages, oldest first
  cut                \* how long ago the network was cut; -1 if it was not
vars == <<open, gave_up, waiting_for_pong, since_pong, due, wire, cut>>

End == {"server", "client"}
Peer(e) == IF e = "server" THEN "client" ELSE "server"

Interval(e) == IF e = "server" THEN PING_INTERVAL ELSE client_interval
Limit(e) == IF e = "server" THEN PONG_TIMEOUT ELSE client_limit
(* How long an end can go on after the network was cut: the server's last   *)
(* pong may have come just before a tick, whose ping is then missed at the  *)
(* next one but one; the client's limit runs from its last pong and is      *)
(* looked at when its interval ticks.                                       *)
Notice(e) == Lag + IF e = "server" THEN 2 * PING_INTERVAL
                                   ELSE client_limit + client_interval
LastCut == 1 + Notice("server") + Notice("client")   \* bound: no end is left by then

(* The server has waited for its interval's first tick, which is immediate; *)
(* the client's is still to come.                                           *)
Init ==
  /\ open = End /\ gave_up = {} /\ waiting_for_pong = FALSE
  /\ since_pong = [e \in End |-> 0]
  /\ due = [server |-> PING_INTERVAL, client |-> 0]
  /\ wire = [e \in End |-> << >>]
  /\ cut = -1

-----------------------------------------------------------------------------
(* Each action is handle_connection()'s at the server and                   *)
(* websocket_client()'s at the client.                                      *)

(* What is on its way to end e after `s' was read, and to its peer after    *)
(* `msgs' was written.  What is written to a peer that has left, or after   *)
(* the cut, is lost.                                                        *)
Wires(e, s, msgs) ==
  wire' = [wire EXCEPT ![e] = s,
                       ![Peer(e)] = IF cut = -1 /\ Peer(e) \in open
                                    THEN @ \o [k \in DOMAIN msgs |-> <<msgs[k], 0>>] ELSE @]

(* The loop of e ends: the stream is dropped, which the peer reads as the   *)
(* end of the stream, after what is still written.                          *)
Leave(e, msgs) ==
  /\ open' = open \ {e}
  /\ Wires(e, << >>, msgs \o <<"FIN">>)
  /\ UNCHANGED <<waiting_for_pong, since_pong, due, cut>>

(* Fault: a pong is noted but still waited for. *)
Pong_StillWaiting(e) ==
  /\ since_pong' = [since_pong EXCEPT ![e] = 0]
  /\ UNCHANGED waiting_for_pong

Pong(e) ==
  /\ since_pong' = [since_pong EXCEPT ![e] = 0]
  /\ waiting_for_pong' = IF e = "server" THEN FALSE ELSE waiting_for_pong

(* read.next() returned a message, or the end of the stream. *)
Read(e) ==
  /\ e \in open /\ wire[e] # << >> /\ cut = -1
  /\ LET msg == Head(wire[e])[1] IN
     CASE msg = "ping"  -> /\ Wires(e, Tail(wire[e]), <<"pong">>)
                           /\ UNCHANGED <<open, gave_up, waiting_for_pong, since_pong, due,
                                          cut>>
       [] msg = "pong"  -> /\ Pong(e)
                           /\ Wires(e, Tail(wire[e]), << >>)
                           /\ UNCHANGED <<open, gave_up, due, cut>>
       [] msg = "close" -> /\ Leave(e, IF e = "server" THEN <<"close">> ELSE << >>)
                           /\ UNCHANGED gave_up
       [] msg = "FIN"   -> Leave(e, << >>) /\ UNCHANGED gave_up

(* The pong is overdue when the interval ticks. *)
Overdue(e) == since_pong[e] > Limit(e) /\ (e = "server" => waiting_for_pong)

TickGiveUp(e) ==
  /\ e \in open /\ due[e] <= 0 /\ Overdue(e)
  /\ gave_up' = gave_up \union {e}
  /\ Leave(e, IF e = "server" THEN <<"close">> ELSE << >>)

(* A tick that sends a ping; the next one is due an interval after this one *)
(* was.                                                                     *)
TickPing(e) ==
  /\ e \in open /\ due[e] <= 0 /\ ~Overdue(e)
  /\ due' = [due EXCEPT ![e] = @ + Interval(e)]
  /\ waiting_for_pong' = (e = "server" \/ waiting_for_pong)
  /\ Wires(e, wire[e], <<"ping">>)
  /\ UNCHANGED <<open, gave_up, since_pong, cut>>

(* A write that fails ends the loop: the peer has left or the kernel has    *)
(* given up on a network that was cut.                                      *)
WriteFails(e) ==
  /\ e \in open /\ (Peer(e) \notin open \/ cut # -1)
  /\ \/ due[e] <= 0 /\ ~Overdue(e)
     \/ wire[e] # << >> /\ Head(wire[e])[1] = "ping"
  /\ Leave(e, << >>) /\ UNCHANGED gave_up

Cut ==
  /\ cut = -1 /\ cut' = 0
  /\ wire' = [e \in End |-> << >>]
  /\ UNCHANGED <<open, gave_up, waiting_for_pong, since_pong, due>>

(* Time passes as long as nothing is late. *)
Time ==
  /\ cut < LastCut
  /\ \A e \in open : /\ due[e] > -Lag
                     /\ \A k \in DOMAIN wire[e] : wire[e][k][2] < Delay
  /\ due' = [e \in End |-> IF e \in open THEN due[e] - 1 ELSE due[e]]
  /\ since_pong' = [e \in End |-> IF since_pong[e] > Limit(e) THEN since_pong[e]
                                                              ELSE since_pong[e] + 1]
  /\ wire' = [e \in End |-> [k \in DOMAIN wire[e] |-> <<wire[e][k][1], wire[e][k][2] + 1>>]]
  /\ cut' = IF cut = -1 THEN -1 ELSE cut + 1
  /\ UNCHANGED <<open, gave_up, waiting_for_pong>>

Step(e) == Read(e) \/ TickGiveUp(e) \/ TickPing(e) \/ WriteFails(e)
Next == Time \/ Cut \/ \E e \in End : Step(e)

Spec == Init /\ [][Next]_vars

-----------------------------------------------------------------------------
(* A heartbeat neither cries wolf nor sleeps: while the network delivers,   *)
(* no end gives up for want of a pong, however the two intervals fall       *)
(* against each other; once it is cut, each end has left its loop within    *)
(* Notice.                                                                  *)
HeartbeatSound ==
  /\ cut = -1 => gave_up = {}
  /\ \A e \in open : cut <= Notice(e)
=============================================================================
