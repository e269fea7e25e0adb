----------------------------- MODULE Withdrawal -----------------------------
(***************************************************************************)
(* What a user is promised of one bank withdrawal: once it is accepted,    *)
(* its money is held until the bank has it or the wallet has it back,      *)
(* never both and never again, and its status claims neither before.       *)
(***************************************************************************)
VARIABLES
  money,  \* where the money is: held, paid out, returned
  told    \* the status that the user sees

vars == <<money, told>>

Init ==
  /\ money = "held"
  /\ told = "PROCESSING"

PayOut ==
  /\ money = "held"
  /\ money' = "paid"
  /\ UNCHANGED told

GiveBack ==
  /\ money = "held"
  /\ money' = "returned"
  /\ UNCHANGED told

(* The status may lag behind the money, even fall back, but not lie.       *)
Tell ==
  /\ \/ told' = "PROCESSING"
     \/ told' = "SUCCESSFUL" /\ money = "paid"
     \/ told' = "REVERSED" /\ money = "returned"
  /\ UNCHANGED money

Next == PayOut \/ GiveBack \/ Tell

Spec == Init /\ [][Next]_vars
=============================================================================
