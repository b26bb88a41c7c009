--------------------------- MODULE MCTurnExecution ---------------------------
(* TurnExecution for TLC.                                                    *)
EXTENDS TurnExecution
==============================================================================
