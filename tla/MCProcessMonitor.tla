--------------------------- MODULE MCProcessMonitor ---------------------------
(* Instances of ProcessMonitor for TLC. *)
EXTENDS ProcessMonitor
=============================================================================
