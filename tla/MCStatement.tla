---------------------------- MODULE MCStatement ----------------------------
(* The instance of Statement that TLC checks.                              *)
EXTENDS Statement
=============================================================================
