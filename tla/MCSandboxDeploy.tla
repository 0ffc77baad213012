--------------------------- MODULE MCSandboxDeploy ---------------------------
(***************************************************************************)
(* Instances of SandboxDeploy for TLC.  Loops and operations are places,   *)
(* and callers are interchangeable: the safety run uses both symmetries.   *)
(***************************************************************************)
EXTENDS SandboxDeploy, TLC

Symmetry ==
  Permutations(Callers) \union Permutations(Loops) \union Permutations(Works)
=============================================================================
