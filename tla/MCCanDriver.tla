---------------------------- MODULE MCCanDriver ----------------------------
(* Instances of CanDriver for TLC: two slots to send, two to receive. *)
EXTENDS CanDriver

MCCap == [r \in Ring |-> 2]
=============================================================================
