------------------------------ MODULE Accounts ------------------------------
(***************************************************************************)
(* The wallets as an account holder sees them: each has a balance that is  *)
(* never overdrawn, and an amount paid out to banks that has not come      *)
(* back.  The program stores neither number.                               *)
(***************************************************************************)
EXTENDS Integers

CONSTANTS Wallets, Amounts

VARIABLES balance, paidOut

vars == <<balance, paidOut>>

Init ==
  /\ balance = [w \in Wallets |-> 0]
  /\ paidOut = [w \in Wallets |-> 0]

Deposit(w, a) ==
  /\ balance' = [balance EXCEPT ![w] = @ + a]
  /\ UNCHANGED paidOut

Move(s, d, a) ==
  /\ s # d
  /\ balance[s] >= a
  /\ balance' = [balance EXCEPT ![s] = @ - a, ![d] = @ + a]
  /\ UNCHANGED paidOut

PayOut(w, a) ==
  /\ balance[w] >= a
  /\ balance' = [balance EXCEPT ![w] = @ - a]
  /\ paidOut' = [paidOut EXCEPT ![w] = @ + a]

(* Only money that was paid out and has not come back yet can come back.   *)
Refund(w, a) ==
  /\ paidOut[w] >= a
  /\ balance' = [balance EXCEPT ![w] = @ + a]
  /\ paidOut' = [paidOut EXCEPT ![w] = @ - a]

Next ==
  \E w \in Wallets, a \in Amounts :
    \/ Deposit(w, a)
    \/ \E d \in Wallets : Move(w, d, a)
    \/ PayOut(w, a)
    \/ Refund(w, a)

Spec == Init /\ [][Next]_vars
=============================================================================
