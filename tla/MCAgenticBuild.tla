--------------------------- MODULE MCAgenticBuild ---------------------------
(***************************************************************************)
(* Instances of AgenticBuild for TLC.                                      *)
(***************************************************************************)
EXTENDS AgenticBuild
=============================================================================
