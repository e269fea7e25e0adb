------------------------------ MODULE MCFunding ------------------------------
(* The instances of Funding that TLC checks: how much may go wrong.        *)
EXTENDS Funding, TLC

JobFaults     == [request |-> 0, webhook |-> 0, job |-> 2]
OutsideFaults == [request |-> 1, webhook |-> 1, job |-> 0]
OneJobFault   == [request |-> 0, webhook |-> 0, job |-> 1]

(* Sound where no charge is a stray: nothing then tells the charges apart. *)
FundingSymmetry ==
  Permutations(Charges) \cup Permutations(Runners) \cup Permutations(Hooks)
=============================================================================
