----------------------------- MODULE Network -----------------------------
(***************************************************************************)
(* The TCP/IP programs and the MQTT-SN gateway, one at a time: `prog' says  *)
(* which one runs, the state of the others rests.  ReliableUdp is extended; *)
(* the other components are instances.                                      *)
(***************************************************************************)
EXTENDS ReliableUdp

CONSTANTS
  g_Client, Address, Topic, IdMod,           \* MqttSnGateway
  Host, timeout, MaxDelay, Changing, MaxChanges, MaxPackets,   \* Arp
  t_MaxData,                                 \* TcpStateManager
  Times, l_MaxData                           \* Linger

ASSUME GatewayAssumption == IdMod \in Nat /\ IdMod > 1
ASSUME LinkAssumption == timeout \in Nat /\ MaxDelay \in Nat /\ MaxChanges \in Nat
ASSUME LingerAssumption == Times \subseteq Nat /\ l_MaxData \in Nat

VARIABLES
  prog,
  topic_id_map, topic_name_map, client_map, next_topic_id, wrapped, g_known,
  misdirected,                                                     \* MqttSnGateway
  version, since, cache, known, alarm, link,                       \* Arp
  current_state, at, stream, fin_read, fin_sent,                   \* TcpStateManager
  sock, l_onoff, l_linger, buffered, lost, unread, incoming, peer  \* Linger

Gateway_vars == <<topic_id_map, topic_name_map, client_map, next_topic_id, wrapped,
  g_known, misdirected>>
Link_vars == <<version, since, cache, known, alarm, link>>
Tcp_vars == <<current_state, at, stream, fin_read, fin_sent>>
Closing_vars == <<sock, l_onoff, l_linger, buffered, lost, unread, incoming, peer>>

Gateway == INSTANCE MqttSnGateway WITH Client <- g_Client, known <- g_known
Link == INSTANCE Arp WITH net <- link
Tcp == INSTANCE TcpStateManager WITH MaxData <- t_MaxData
Closing == INSTANCE Linger WITH MaxData <- l_MaxData

Programs == {"rudp", "gateway", "arp", "tcp", "linger"}

(* Every component but the one of program p rests. *)
Only(p) ==
  /\ prog = p /\ UNCHANGED prog
  /\ IF p = "rudp" THEN TRUE ELSE UNCHANGED vars
  /\ IF p = "gateway" THEN TRUE ELSE UNCHANGED Gateway_vars
  /\ IF p = "arp" THEN TRUE ELSE UNCHANGED Link_vars
  /\ IF p = "tcp" THEN TRUE ELSE UNCHANGED Tcp_vars
  /\ IF p = "linger" THEN TRUE ELSE UNCHANGED Closing_vars

(* A component that rests is in one of its initial states. *)
NetworkInit ==
  /\ prog \in Programs
  /\ Init /\ Gateway!Init /\ Link!Init /\ Tcp!Init /\ Closing!Init
  /\ prog # "linger" => sock.user = "handle_client"

NetworkNext ==
  \/ Only("rudp") /\ Next
  \/ Only("gateway") /\ Gateway!Next
  \/ Only("arp") /\ Link!Next
  \/ Only("tcp") /\ Tcp!Next
  \/ Only("linger") /\ Closing!Next

(* The fairness of the program that runs. *)
NetworkFairness ==
  /\ \A e \in End : \A i \in Slots :
       WF_vars(prog = "rudp" /\ i \in Pending(e) /\ process_retransmissions(e, {i}, {}))
  /\ WF_(Tcp_vars)(prog = "tcp" /\ (Tcp!Client \/ Tcp!ClientRefused))
  /\ WF_(Tcp_vars)(prog = "tcp" /\ (Tcp!Server \/ Tcp!ServerRefused))
  /\ WF_(Tcp_vars)(prog = "tcp" /\ at["client"] = "half_closed" /\ Tcp!Fail("client"))

network == <<prog, vars, Gateway_vars, Link_vars, Tcp_vars, Closing_vars>>

NetworkSpec == NetworkInit /\ [][NetworkNext]_network /\ NetworkFairness

-----------------------------------------------------------------------------
(* ReliableUdp: no slot of the window is reused before its packet is done   *)
(* with, and no packet is retransmitted for ever.                           *)
WindowSound == NeverOverwritten /\ NoEternalRetry

(* MqttSnGateway: a publication reaches the topic its identifier was given *)
(* for.                                                                     *)
RightTopic == Gateway!RightTopic

(* Arp: a lookup is out of date for at most the timeout of an entry and the *)
(* delay of a packet.                                                       *)
StaleIsBounded == Link!StaleIsBounded

(* TcpStateManager: an end believes the state it is in, except the client   *)
(* that has closed both ways; nothing follows a FIN; and neither program    *)
(* waits for ever for the other.                                            *)
TcpSound == []Tcp!StateTruthful /\ Tcp!BothEnd

(* Linger: what was written is lost only to a reset or by request. *)
NothingLost == Closing!NothingLost
=============================================================================
