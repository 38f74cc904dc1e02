------------------------------- MODULE MCTurns -------------------------------
(* The instances of MCResidency with the history of ResidencyTurns. *)
EXTENDS ResidencyTurns, MCResidency
=============================================================================
