--------------------------- MODULE MCPhasicAgent ---------------------------
(***************************************************************************)
(* PhasicAgent for TLC.  Slots and names are interchangeable in the code,  *)
(* but the liveness properties forbid symmetry.                            *)
(***************************************************************************)
EXTENDS PhasicAgent
=============================================================================
