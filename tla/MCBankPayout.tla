---------------------------- MODULE MCBankPayout ----------------------------
(* The instances of BankPayout that TLC checks: the attempts that the      *)
(* program gives its jobs, and how much may go wrong.                      *)
EXTENDS BankPayout

MCAttempts == [j \in Jobs |-> IF j = "payout" THEN 3 ELSE 5]

EveryFault == [k \in FaultKinds |-> IF k = "call" THEN 3 ELSE 1]
OneCall    == [k \in FaultKinds |-> IF k = "call" THEN 1 ELSE 0]
OneSlow    == [k \in FaultKinds |-> IF k = "slow" THEN 1 ELSE 0]
=============================================================================
