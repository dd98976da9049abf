------------------------- MODULE MCSelectionHazards -------------------------
(* SelectionHazards with the commands MCRemoteRelay lets the service send.  *)
EXTENDS SelectionHazards, MCRemoteRelay
=============================================================================
