--------------------------- MODULE MCToolInference ---------------------------
(***************************************************************************)
(* Calls that exclude each other in some pairs and not in others:          *)
(* regenerate_file of one file, deploy_preview, a commit, the completion   *)
(* signal and a name the request has no tool for.                          *)
(***************************************************************************)
EXTENDS ToolInference, ToolCallStream

CONSTANTS writeA, deploy, commit, finish, unknown

Nothing == [files |-> "none", paths |-> {}, sandbox |-> "none",
            blueprint |-> FALSE, gitCommit |-> FALSE]

MCAccess ==
  [t \in Tool |->
     CASE t = writeA -> [Nothing EXCEPT !.files = "write", !.paths = {"a"}]
       [] t = deploy -> [Nothing EXCEPT !.files = "read", !.sandbox = "deploy"]
       [] t = commit -> [Nothing EXCEPT !.gitCommit = TRUE]
       [] OTHER      -> Nothing]

MCWhole == [n \in 1 .. MaxBatch |-> Outcomes(n, TRUE)]
MCCut   == [n \in 1 .. MaxBatch |-> Outcomes(n, FALSE)]
=============================================================================
