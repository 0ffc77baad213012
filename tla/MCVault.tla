------------------------------ MODULE MCVault ------------------------------
(***************************************************************************)
(* Tabs are interchangeable, and so are sockets.                           *)
(***************************************************************************)
EXTENDS Vault, TLC

Symmetry == Permutations(Tabs) \union Permutations(Sockets)
=============================================================================
