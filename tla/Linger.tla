------------------------------- MODULE Linger -------------------------------
(***************************************************************************)
(* How TCPIP/src/49 closes a TCP socket: handle_client() and               *)
(* graceful_close() of graceful_shutdown_with_tokio.rs, ManagedSocket of   *)
(* socket_wrapper_with_linger_control.rs and SocketLinger of               *)
(* so_linger_basic_configuration.rs.  Linger times are in halves of a      *)
(* second.  External: the kernel sends what was written in its own time;   *)
(* closing resets the connection, and drops what was not sent, when the    *)
(* linger time is zero or received data was not read.                      *)
(***************************************************************************)
EXTENDS Naturals

CONSTANTS Times,   \* linger times a caller may ask for
  MaxData          \* bound: pieces sent each way

VARIABLES
  sock,              \* which of the three, its linger option, where it is
  l_onoff, l_linger, \* the option set in the kernel, in seconds
  buffered, lost,    \* written and not yet sent; written and dropped
  unread, incoming,  \* received and not read; sent so far by the peer
  peer               \* "open", "closed" after its FIN, "reset"
vars == <<sock, l_onoff, l_linger, buffered, lost, unread, incoming, peer>>

Option == {[mode |-> m, time |-> 0] : m \in {"Disabled", "Abortive"}}
            \cup {[mode |-> "Enabled", time |-> t] : t \in Times}

Init == /\ \/ \E o \in Option : sock = [user |-> "ManagedSocket", at |-> "new", linger |-> o]
           \/ sock = [user |-> "SocketLinger", at |-> "open", linger |-> [mode |-> "Disabled", time |-> 0]]
           \/ sock = [user |-> "handle_client", at |-> "read", linger |-> [mode |-> "Disabled", time |-> 0]]
        /\ l_onoff = FALSE /\ l_linger = 0
        /\ buffered = 0 /\ lost = 0 /\ unread = 0 /\ incoming = 0
        /\ peer = "open"

Goto(from, to) == sock.at = from /\ sock' = [sock EXCEPT !.at = to]
data == <<buffered, lost, unread, incoming, peer>>

-----------------------------------------------------------------------------
(* The linger structure: a time below one second is cut down to none, which *)
(* is the abortive close.                                                   *)
Linger(o) == /\ l_onoff' = (o.mode # "Disabled")
             /\ l_linger' = IF o.mode = "Enabled" THEN o.time \div 2 ELSE 0

(* apply_linger(), by ManagedSocket::new *)
apply_linger == /\ sock.user = "ManagedSocket" /\ Goto("new", "open")
                /\ Linger(sock.linger)
                /\ UNCHANGED data

(* SocketLinger::set_linger *)
set_linger == /\ sock.user = "SocketLinger" /\ sock.at = "open"
              /\ \E o \in Option : sock' = [sock EXCEPT !.linger = o] /\ Linger(o)
              /\ UNCHANGED data

send_all == /\ sock.at = "open" /\ peer # "reset" /\ buffered + lost < MaxData
            /\ buffered' = buffered + 1
            /\ UNCHANGED <<sock, l_onoff, l_linger, lost, unread, incoming, peer>>

receive == /\ sock.at = "open" /\ unread > 0
           /\ unread' = unread - 1
           /\ UNCHANGED <<sock, l_onoff, l_linger, buffered, lost, incoming, peer>>

Resets == unread > 0 \/ (l_onoff /\ l_linger = 0)

(* drop(stream): a reset discards what is buffered, otherwise it still goes. *)
Drop(from) == /\ Goto(from, "closed")
              /\ lost' = lost + IF Resets THEN buffered ELSE 0
              /\ buffered' = IF Resets THEN 0 ELSE buffered
              /\ UNCHANGED <<l_onoff, l_linger, unread, incoming, peer>>

(* ManagedSocket::close, or its drop, or the end of a SocketLinger. *)
close == Drop("open")

-----------------------------------------------------------------------------
(* handle_client(): one read, one response, graceful_close() *)

ReadRequest == /\ unread > 0 /\ Goto("read", "respond") /\ unread' = unread - 1
               /\ UNCHANGED <<l_onoff, l_linger, buffered, lost, incoming, peer>>

ReadNothing == /\ unread = 0 /\ peer # "open" /\ Goto("read", "set_linger")
               /\ UNCHANGED <<l_onoff, l_linger, data>>

Respond == /\ Goto("respond", "set_linger")
           /\ buffered' = IF peer = "reset" THEN buffered ELSE buffered + 1
           /\ UNCHANGED <<l_onoff, l_linger, lost, unread, incoming, peer>>

GracefulLinger == /\ Goto("set_linger", "shutdown")
                  /\ l_onoff' = TRUE /\ l_linger' = 5
                  /\ UNCHANGED data

(* On a connection that is reset, setting the option may fail and           *)
(* shutdown() does: the stream is dropped on the way out.                   *)
LingerError == peer = "reset" /\ Drop("set_linger")

Shutdown == /\ peer # "reset" /\ Goto("shutdown", "drain")
            /\ UNCHANGED <<l_onoff, l_linger, data>>

ShutdownError == peer = "reset" /\ Drop("shutdown")

Drain == /\ sock.at = "drain" /\ unread > 0 /\ unread' = unread - 1
         /\ UNCHANGED <<sock, l_onoff, l_linger, buffered, lost, incoming, peer>>

(* Fault: what the peer still sends is not waited for. *)
DrainEnd_Early == Drop("drain")

(* The loop ends with the end of the stream or an error. *)
DrainEnd == unread = 0 /\ peer # "open" /\ Drop("drain")

-----------------------------------------------------------------------------
(* External: the kernel and the peer. *)

Transmit == /\ buffered > 0 /\ peer # "reset" /\ buffered' = buffered - 1
            /\ UNCHANGED <<sock, l_onoff, l_linger, lost, unread, incoming, peer>>

PeerSends == /\ peer = "open" /\ sock.at # "closed" /\ incoming < MaxData
             /\ incoming' = incoming + 1 /\ unread' = unread + 1
             /\ UNCHANGED <<sock, l_onoff, l_linger, buffered, lost, peer>>

PeerEnds == /\ peer = "open" /\ sock.at # "closed"
            /\ peer' \in {"closed", "reset"}
            /\ buffered' = IF peer' = "reset" THEN 0 ELSE buffered
            /\ lost' = IF peer' = "reset" THEN lost + buffered ELSE lost
            /\ unread' = IF peer' = "reset" THEN 0 ELSE unread
            /\ UNCHANGED <<sock, l_onoff, l_linger, incoming>>

Handler == \/ ReadRequest \/ ReadNothing \/ Respond \/ GracefulLinger \/ LingerError
           \/ Shutdown \/ ShutdownError \/ Drain \/ DrainEnd
Next == \/ apply_linger \/ set_linger \/ send_all \/ receive \/ close
        \/ Handler \/ Transmit \/ PeerSends \/ PeerEnds
Spec == Init /\ [][Next]_vars

-----------------------------------------------------------------------------
(* What was written is lost only when the peer resets the connection or the *)
(* program asked for it: graceful_close() never resets, because it reads    *)
(* all the peer sends before it drops the stream; ManagedSocket and         *)
(* SocketLinger do when they are closed with data unread, in abortive mode, *)
(* or with a linger time below one second.                                  *)
NothingLost ==
  lost > 0 => \/ peer = "reset"
              \/ sock.user # "handle_client" /\ unread > 0
              \/ sock.user # "handle_client" /\ sock.linger.mode # "Disabled"
                                             /\ sock.linger.time < 2
=============================================================================
