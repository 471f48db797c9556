------------------------------ MODULE MCBuses ------------------------------
(* The instance of Buses for TLC; the values of its constants are in the    *)
(* configuration and in MCCanDriver.                                        *)
EXTENDS Buses, MCCanDriver
=============================================================================
