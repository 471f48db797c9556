---------------------------- MODULE ReliableUdp ----------------------------
(***************************************************************************)
(* ReliableUdp of TCPIP/src/20/reliable_udp_implementation.rs: two         *)
(* endpoints that send numbered packets over UDP, acknowledge in the       *)
(* headers of the packets they send, retransmit on timeout and give up     *)
(* after MAX_RETRIES.  A datagram may be lost, duplicated, delayed and     *)
(* reordered: `net' holds every packet ever handed to the network, and an  *)
(* endpoint receives any of them, any number of times or never.            *)
(***************************************************************************)
EXTENDS Naturals, Sequences, FiniteSets

CONSTANTS
  WINDOW_SIZE,    \* 64 in the code
  BITS,           \* width of the acknowledgement bitfield, 64 in the code
  MAX_RETRIES,    \* 5 in the code
  MaxSend         \* MaxSend[e]: bound on the packets endpoint e numbers

End == {"A", "B"}
Peer(e) == IF e = "A" THEN "B" ELSE "A"

ASSUME SizesAssumption ==
  /\ WINDOW_SIZE \in Nat \ {0} /\ BITS \in Nat \ {0} /\ MAX_RETRIES \in Nat
  /\ MaxSend \in [End -> Nat]

VARIABLES
  net,                \* the packets handed to the network, by sender
  send_sequence, send_window,
  recv_sequence, recv_ack_bitfield, recv_buffer,
  delivered,          \* the numbers of the packets receive() returned
  givenUp             \* the numbers process_retransmissions dropped

sender == <<send_sequence, send_window, givenUp>>
receiver == <<recv_sequence, recv_ack_bitfield, recv_buffer, delivered>>
vars == <<net, sender, receiver>>

Slots == 0 .. (WINDOW_SIZE - 1)
Seqs(e) == 0 .. MaxSend[e]
Payload == {"data", "empty"}
Packet(e) == [sequence : Seqs(e), ack : Seqs(Peer(e)),
              ack_bitfield : SUBSET (0 .. (BITS - 1)), data : Payload]

(* new(): every slot of the window is free. *)
Init ==
  /\ net = [e \in End |-> {}]
  /\ send_sequence = [e \in End |-> 0]
  /\ send_window = [e \in End |-> [i \in Slots |->
       [packet |-> [sequence |-> 0, ack |-> 0, ack_bitfield |-> {},
                    data |-> "empty"],
        retry_count |-> 0, acked |-> TRUE]]]
  /\ recv_sequence = [e \in End |-> 0]
  /\ recv_ack_bitfield = [e \in End |-> {}]
  /\ recv_buffer = [e \in End |-> {}]
  /\ delivered = [e \in End |-> << >>]
  /\ givenUp = [e \in End |-> {}]

-----------------------------------------------------------------------------
(* send(data) *)

Slot(e) == send_sequence[e] % WINDOW_SIZE

saturating_sub(a, b) == IF a >= b THEN a - b ELSE 0

WindowFull(e) ==
  LET pending == send_window[e][Slot(e)] IN
  /\ ~pending.acked
  /\ pending.packet.sequence >= saturating_sub(send_sequence[e], WINDOW_SIZE)

NewPacket(e, d) ==
  [sequence |-> send_sequence[e], ack |-> recv_sequence[e],
   ack_bitfield |-> recv_ack_bitfield[e], data |-> d]

Send(e, d) ==
  /\ send_sequence[e] < MaxSend[e]
  /\ ~WindowFull(e)
  /\ net' = [net EXCEPT ![e] = @ \cup {NewPacket(e, d)}]
  /\ send_window' = [send_window EXCEPT ![e][Slot(e)] =
       [packet |-> NewPacket(e, d), retry_count |-> 0, acked |-> FALSE]]
  /\ send_sequence' = [send_sequence EXCEPT ![e] = @ + 1]
  /\ UNCHANGED <<givenUp, receiver>>

(* send_to fails: the number is used up, the window is not touched. *)
SendError(e) ==
  /\ send_sequence[e] < MaxSend[e]
  /\ ~WindowFull(e)
  /\ send_sequence' = [send_sequence EXCEPT ![e] = @ + 1]
  /\ UNCHANGED <<net, send_window, givenUp, receiver>>

-----------------------------------------------------------------------------
(* receive() *)

(* process_acknowledgments: whether header h acknowledges number seq. *)
Acknowledges(h, seq) ==
  \/ seq = h.ack
  \/ /\ seq < h.ack /\ h.ack - seq <= BITS
     /\ (h.ack - seq) - 1 \in h.ack_bitfield

AfterAcks(e, h) ==
  [i \in Slots |->
     IF Acknowledges(h, send_window[e][i].packet.sequence)
     THEN [send_window[e][i] EXCEPT !.acked = TRUE]
     ELSE send_window[e][i]]

(* The number after the run of buffered packets that follows `from'. *)
AfterBuffered(e, from) ==
  CHOOSE n \in from .. (from + Cardinality(recv_buffer[e])) :
    n \notin recv_buffer[e] /\ \A k \in from .. (n - 1) : k \in recv_buffer[e]

(* Fault: the bitfield is not reset when recv_sequence moves. *)
InOrder_KeepBits(e, p) ==
  /\ p.data = "data" /\ p.sequence = recv_sequence[e]
  /\ recv_sequence' = [recv_sequence EXCEPT ![e] = AfterBuffered(e, @ + 1)]
  /\ recv_buffer' = [recv_buffer EXCEPT ![e] =
       {k \in @ : k >= AfterBuffered(e, recv_sequence[e] + 1)}]
  /\ UNCHANGED recv_ack_bitfield
  /\ delivered' = [delivered EXCEPT ![e] = Append(@, p.sequence)]

(* process_received_packet, its three cases: the buffered packets that the *)
(* first one releases leave the buffer, but only the first is returned.    *)
InOrder(e, p) ==
  /\ p.data = "data" /\ p.sequence = recv_sequence[e]
  /\ recv_sequence' = [recv_sequence EXCEPT ![e] = AfterBuffered(e, @ + 1)]
  /\ recv_buffer' = [recv_buffer EXCEPT ![e] =
       {k \in @ : k >= AfterBuffered(e, recv_sequence[e] + 1)}]
  /\ recv_ack_bitfield' = [recv_ack_bitfield EXCEPT ![e] = {}]
  /\ delivered' = [delivered EXCEPT ![e] = Append(@, p.sequence)]

Ahead(e, p) ==
  /\ p.data = "data"
  /\ p.sequence > recv_sequence[e] /\ p.sequence < recv_sequence[e] + BITS
  /\ recv_ack_bitfield' = [recv_ack_bitfield EXCEPT ![e] =
       @ \cup {(p.sequence - recv_sequence[e]) - 1}]
  /\ recv_buffer' = [recv_buffer EXCEPT ![e] = @ \cup {p.sequence}]
  /\ UNCHANGED <<recv_sequence, delivered>>

Ignored(e, p) ==
  /\ \/ p.data = "empty"
     \/ p.sequence < recv_sequence[e]
     \/ p.sequence >= recv_sequence[e] + BITS
  /\ UNCHANGED receiver

Receive(e) ==
  \E p \in net[Peer(e)] :
    /\ send_window' = [send_window EXCEPT ![e] = AfterAcks(e, p)]
    /\ InOrder(e, p) \/ Ahead(e, p) \/ Ignored(e, p)
    /\ UNCHANGED <<net, send_sequence, givenUp>>

-----------------------------------------------------------------------------
(* process_retransmissions(): the unacknowledged slots whose timeout has   *)
(* passed (`expired') are sent again, dropped after MAX_RETRIES, or left   *)
(* alone when send_to fails (`failed').  A packet goes out as it was first *)
(* sent, old acknowledgements included, so it is in `net' already.         *)

Pending(e) ==
  {i \in Slots : /\ ~send_window[e][i].acked
                 /\ send_window[e][i].packet.sequence < send_sequence[e]}

GivesUp(e, i) == send_window[e][i].retry_count >= MAX_RETRIES

(* Fault: the retry counter is never advanced. *)
process_retransmissions_NoCount(e, expired, failed) ==
  /\ send_window' = [send_window EXCEPT ![e] =
       [i \in Slots |->
          IF i \in expired /\ GivesUp(e, i)
          THEN [send_window[e][i] EXCEPT !.acked = TRUE] ELSE send_window[e][i]]]
  /\ givenUp' = [givenUp EXCEPT ![e] = @ \cup
       {send_window[e][i].packet.sequence : i \in {j \in expired : GivesUp(e, j)}}]
  /\ UNCHANGED <<net, send_sequence, receiver>>

process_retransmissions(e, expired, failed) ==
  LET window == send_window[e] IN
  /\ send_window' = [send_window EXCEPT ![e] =
       [i \in Slots |->
          IF i \notin expired THEN window[i]
          ELSE IF GivesUp(e, i) THEN [window[i] EXCEPT !.acked = TRUE]
          ELSE IF i \in failed THEN window[i]
          ELSE [window[i] EXCEPT !.retry_count = window[i].retry_count + 1]]]
  /\ givenUp' = [givenUp EXCEPT ![e] = @ \cup
       {send_window[e][i].packet.sequence : i \in {j \in expired : GivesUp(e, j)}}]
  /\ UNCHANGED <<net, send_sequence, receiver>>

Retransmit(e) ==
  \E expired \in SUBSET Pending(e) : \E failed \in SUBSET expired :
    process_retransmissions(e, expired, failed)

-----------------------------------------------------------------------------
Next ==
  \E e \in End :
    \/ \E d \in Payload : Send(e, d)
    \/ SendError(e)
    \/ Receive(e)
    \/ Retransmit(e)

Spec == Init /\ [][Next]_vars

(* main calls process_retransmissions again and again: a slot that is      *)
(* still unacknowledged has its timeout pass, and its send succeeds now    *)
(* and then.                                                               *)
LiveSpec ==
  /\ Spec
  /\ \A e \in End : \A i \in Slots :
       WF_vars(i \in Pending(e) /\ process_retransmissions(e, {i}, {}))

-----------------------------------------------------------------------------
TypeOK ==
  /\ \A e \in End :
       /\ net[e] \subseteq Packet(e)
       /\ \A i \in Slots : send_window[e][i].packet \in Packet(e)
       /\ \A i \in Slots : send_window[e][i].retry_count \in 0 .. MAX_RETRIES
       /\ recv_ack_bitfield[e] \subseteq 0 .. (BITS - 1)
       /\ recv_sequence[e] \in Seqs(Peer(e))
       /\ recv_buffer[e] \subseteq Seqs(Peer(e))
       /\ givenUp[e] \subseteq Seqs(e)
  /\ send_sequence \in [End -> Nat]
  /\ delivered \in [End -> Seq(Nat)]

(***************************************************************************)
(* receive() returns packets in the order of their numbers, each at most   *)
(* once, and only packets the peer sent, whatever the network duplicates,  *)
(* delays or reorders.                                                     *)
(***************************************************************************)
InOrderOnce ==
  \A e \in End :
    /\ \A i, j \in 1 .. Len(delivered[e]) :
         i < j => delivered[e][i] < delivered[e][j]
    /\ \A i \in 1 .. Len(delivered[e]) :
         \E p \in net[Peer(e)] : p.sequence = delivered[e][i] /\ p.data = "data"

(***************************************************************************)
(* The receive buffer holds packets ahead of recv_sequence and within the  *)
(* reach of the bitfield, and the bitfield announces only such packets.    *)
(***************************************************************************)
BitsTruthful ==
  \A e \in End :
    /\ \A k \in recv_buffer[e] :
         k > recv_sequence[e] /\ k < recv_sequence[e] + BITS
    /\ \A b \in recv_ack_bitfield[e] :
         recv_sequence[e] + b + 1 \in recv_buffer[e]

(***************************************************************************)
(* What holds of both endpoints in every state: the types, the order of    *)
(* what receive() returns, and the truth of the acknowledgement bits.      *)
(***************************************************************************)
DeliveryInv == TypeOK /\ InOrderOnce /\ BitsTruthful

(***************************************************************************)
(* An unacknowledged packet stays in its slot: send() refuses to reuse the *)
(* slot ("Send window full") until it was acknowledged or given up, also   *)
(* when failed sends have left gaps in the numbering.                      *)
(***************************************************************************)
SlotsKept ==
  \A e \in End : \A i \in Slots :
    LET old == send_window[e][i]
        new == send_window'[e][i]
    IN  ~old.acked => new.packet = old.packet /\ new.retry_count >= old.retry_count

NeverOverwritten == [][SlotsKept]_vars

(***************************************************************************)
(* What the sender takes as acknowledged (and has not given up) the peer   *)
(* has received: "Acknowledgments ... to confirm delivery".                *)
(***************************************************************************)
AckedWasReceived ==
  \A e \in End : \A i \in Slots :
    LET seq == send_window[e][i].packet.sequence IN
    (send_window[e][i].acked /\ send_window[e][i].packet \in net[e]
       /\ send_window[e][i].packet.data = "data" /\ seq \notin givenUp[e])
    => seq < recv_sequence[Peer(e)] \/ seq \in recv_buffer[Peer(e)]

(***************************************************************************)
(* No packet is retransmitted for ever: it is acknowledged or given up.    *)
(***************************************************************************)
NoEternalRetry ==
  \A e \in End : \A i \in Slots :
    [](~send_window[e][i].acked => <>(send_window[e][i].acked))
=============================================================================
