---------------------------- MODULE MCDrainFleet ----------------------------
(* DrainFleet for TLC.                                                       *)
EXTENDS DrainFleet
=============================================================================
