--------------------------- MODULE MCReliableUdp ---------------------------
(* Instances of ReliableUdp for TLC: one endpoint sends more than a window. *)
EXTENDS ReliableUdp

MCMaxSend == [e \in End |-> IF e = "A" THEN 4 ELSE 1]
=============================================================================
