---------------------------- MODULE MCWebSocket ----------------------------
(* WebSockets for TLC: the bounds of the components are in MCWebSocket.cfg. *)
EXTENDS WebSockets

(* One client sends more than fits into the buffers, the other less. *)
MCMaxBytes == [c \in Client |-> IF c = "c1" THEN 2 ELSE 1]

(* One client has a call or event after another, the other only one. *)
MCMaxMsgs == [s \in Session |-> IF s = "s1" THEN 2 ELSE 1]
=============================================================================
