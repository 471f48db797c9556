----------------------------- MODULE MCNetwork -----------------------------
(* Network for TLC: the bounds of the components are in MCNetwork.cfg. *)
EXTENDS Network, MCReliableUdp
=============================================================================
