------------------------------ MODULE MCCredits ------------------------------
(***************************************************************************)
(* Instances of Credits for TLC: a credit is two units, so that a charge   *)
(* can leave half of one.                                                  *)
(***************************************************************************)
EXTENDS Credits

MCPayment == [e \in Paying |-> 4]
=============================================================================
