-------------------------- MODULE TcpStateManager --------------------------
(***************************************************************************)
(* run_client() and run_server() of TCPIP/src/17/tcp_state_manager.rs over *)
(* one connection.  `current_state' is what TcpConnection believes; the    *)
(* streams hold what was really sent: data, then FIN.  Either end may see  *)
(* the connection fail, and a read of the client may time out.             *)
(***************************************************************************)
EXTENDS Naturals, Sequences

CONSTANT MaxData   \* bound: pieces under way one way; each message is 1 or 2

VARIABLES
  current_state,   \* of each end's TcpConnection
  at,              \* where each end is; "done" when its stream is dropped
  stream,          \* towards each end: what it has yet to read
  fin_read,        \* each end has read the other's FIN
  fin_sent
vars == <<current_state, at, stream, fin_read, fin_sent>>

End == {"client", "server"}
Peer(e) == IF e = "client" THEN "server" ELSE "client"

Init == /\ current_state = [e \in End |-> IF e = "client" THEN "Closed" ELSE "Listen"]
        /\ at = [e \in End |-> IF e = "client" THEN "connect" ELSE "accept"]
        /\ stream = [e \in End |-> << >>]
        /\ fin_read = [e \in End |-> FALSE] /\ fin_sent = [e \in End |-> FALSE]

Goto(e, from, to) == at[e] = from /\ at' = [at EXCEPT ![e] = to]
Written(e, s) == stream' = [stream EXCEPT ![Peer(e)] = IF at[Peer(e)] = "done" THEN @ ELSE @ \o s]

(* A stream that is dropped sends FIN, once. *)
Drop(e, from) ==
  /\ Goto(e, from, "done")
  /\ Written(e, IF fin_sent[e] THEN << >> ELSE <<"FIN">>)
  /\ fin_sent' = [fin_sent EXCEPT ![e] = TRUE]
  /\ UNCHANGED <<current_state, fin_read>>

-----------------------------------------------------------------------------
(* TcpConnection *)

(* send_data() refuses unless Established; `n' pieces are written. *)
SendData(e, from, to, n) ==
  /\ current_state[e] = "Established"
  /\ Goto(e, from, to)
  /\ at[Peer(e)] = "done" \/ Len(stream[Peer(e)]) + n <= MaxData
  /\ Written(e, [k \in 1 .. n |-> "data"])
  /\ UNCHANGED <<current_state, fin_read, fin_sent>>

ReceiveData(e, from, to) ==
  /\ stream[e] # << >> /\ Head(stream[e]) = "data"
  /\ Goto(e, from, to)
  /\ stream' = [stream EXCEPT ![e] = Tail(@)]
  /\ UNCHANGED <<current_state, fin_read, fin_sent>>

(* receive_data() that returns 0, as it will again: FIN stays readable. *)
ReceiveFin(e, from, to) ==
  /\ stream[e] # << >> /\ Head(stream[e]) = "FIN"
  /\ Goto(e, from, to)
  /\ current_state' = [current_state EXCEPT ![e] = "CloseWait"]
  /\ fin_read' = [fin_read EXCEPT ![e] = TRUE]
  /\ UNCHANGED <<stream, fin_sent>>

(* shutdown_write(): FIN_WAIT1, the FIN, and FIN_WAIT2 after 100 ms. *)
ShutdownWrite(e, from, to) ==
  /\ Goto(e, from, to)
  /\ Written(e, <<"FIN">>) /\ fin_sent' = [fin_sent EXCEPT ![e] = TRUE]
  /\ current_state' = [current_state EXCEPT ![e] = "FinWait1"]
  /\ UNCHANGED fin_read

FinAcked == /\ Goto("client", "sleep", "half_closed")
            /\ current_state' = [current_state EXCEPT !["client"] = "FinWait2"]
            /\ UNCHANGED <<stream, fin_read, fin_sent>>

(* An error, or a refused send, is passed up and the stream is dropped. *)
Fail(e) == at[e] \notin {"connect", "accept", "done"} /\ Drop(e, at[e])

-----------------------------------------------------------------------------
(* run_client() *)

Connect == /\ at["client"] = "connect" /\ at["server"] = "accept"
           /\ at' = [e \in End |-> IF e = "client" THEN "hello" ELSE "loop"]
           /\ current_state' = [e \in End |-> "Established"]
           /\ UNCHANGED <<stream, fin_read, fin_sent>>

(* The answer to hello is waited for once; any outcome goes on, and then    *)
(* the half-close is refused when the answer was the end of the stream.     *)
ClientAnswer == \/ ReceiveData("client", "answer", "final")
                \/ ReceiveFin("client", "answer", "final")

ClientTimeout == /\ Goto("client", "answer", "final")
                 /\ UNCHANGED <<stream, current_state, fin_read, fin_sent>>

Client == \/ \E n \in {1, 2} : SendData("client", "hello", "answer", n)
          \/ ClientAnswer \/ ClientTimeout
          \/ \E n \in {1, 2} : SendData("client", "final", "shutdown", n)
          \/ ShutdownWrite("client", "shutdown", "sleep") \/ FinAcked
          \/ ReceiveData("client", "half_closed", "half_closed")
          \/ ReceiveFin("client", "half_closed", "close")
          \/ Drop("client", "close")

-----------------------------------------------------------------------------
(* run_server() echoes; at the end of the stream it calls send_data() for a *)
(* last message, which CloseWait refuses, so the function ends in an error. *)

(* Fault: the loop goes on when a read returns 0. *)
Server_NoBreak == \/ ReceiveData("server", "loop", "echo")
                  \/ SendData("server", "echo", "loop", 1)
                  \/ ReceiveFin("server", "loop", "loop")

Server == \/ ReceiveData("server", "loop", "echo")
          \/ SendData("server", "echo", "loop", 1)
          \/ ReceiveFin("server", "loop", "goodbye")
          \/ SendData("server", "goodbye", "close", 1)
          \/ Drop("server", "close")

ServerRefused == /\ at["server"] = "goodbye" /\ current_state["server"] # "Established"
                 /\ Drop("server", "goodbye")
ClientRefused == /\ at["client"] = "final" /\ current_state["client"] # "Established"
                 /\ Drop("client", "final")

Step(e) == IF e = "client" THEN Client \/ ClientRefused ELSE Server \/ ServerRefused
Next == Connect \/ \E e \in End : Step(e) \/ Fail(e)

(* Both programs run; a read that nothing ends fails in the end only at the *)
(* client, which set a timeout.                                             *)
Fairness == /\ WF_vars(Client \/ ClientRefused) /\ WF_vars(Server \/ ServerRefused)
            /\ WF_vars(at["client"] = "half_closed" /\ Fail("client"))
Spec == Init /\ [][Next]_vars /\ Fairness

-----------------------------------------------------------------------------
(* The state of TCP that the FINs put a connected end in.  FIN_WAIT_1 and   *)
(* FIN_WAIT_2 differ by the ACK of the FIN, which the program does not see. *)
TrueState(e) ==
  CASE ~fin_sent[e] /\ ~fin_read[e] -> {"Established"}
    [] fin_sent[e] /\ ~fin_read[e]  -> {"FinWait1", "FinWait2"}
    [] ~fin_sent[e] /\ fin_read[e]  -> {"CloseWait"}
    [] OTHER                        -> {"TimeWait"}

(* While it has the connection, an end believes the state it is in, but for *)
(* one place: the client that half-closed and has read the server's FIN is  *)
(* in TIME_WAIT (or CLOSING) and believes CLOSE_WAIT.  Only an end that     *)
(* believes Established sends, so nothing is ever written behind a FIN, and *)
(* a FIN that was read had been sent.                                       *)
StateTruthful ==
  \A e \in End :
    /\ at[e] \notin {"connect", "accept", "done"} =>
         \/ current_state[e] \in TrueState(e)
         \/ at[e] = "close" /\ TrueState(e) = {"TimeWait"} /\ current_state[e] = "CloseWait"
    /\ \A k \in 1 .. Len(stream[e]) : stream[e][k] = "FIN" => k = Len(stream[e])
    /\ fin_read[e] => fin_sent[Peer(e)]

(* Once connected, both programs come to an end: neither waits for ever for *)
(* what the other will not send.                                            *)
BothEnd == at["client"] = "hello" ~> \A e \in End : at[e] = "done"
=============================================================================
