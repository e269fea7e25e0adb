------------------------------- MODULE Payment -------------------------------
(***************************************************************************)
(* What a user is promised of one funding: the wallet gets its money once, *)
(* after the provider took the payment, which it cannot do before the      *)
(* journal has a credit to complete; and no status claims it before.       *)
(***************************************************************************)
VARIABLES
  money,  \* nothing yet, announced by a PENDING credit, paid, credited
  told    \* the status that the user sees

vars == <<money, told>>

Statuses == {"none", "INITIATED", "PENDING", "SUCCESSFUL", "FAILED"}

Init ==
  /\ money = "none"
  /\ told = "none"

Announce ==
  /\ money = "none"
  /\ money' = "announced"
  /\ UNCHANGED told

Pay ==
  /\ money = "announced"
  /\ money' = "paid"
  /\ UNCHANGED told

Credit ==
  /\ money = "paid"
  /\ money' = "credited"
  /\ UNCHANGED told

Tell ==
  /\ told' \in Statuses
  /\ told' = "SUCCESSFUL" => money = "credited"
  /\ UNCHANGED money

Next == Announce \/ Pay \/ Credit \/ Tell

Spec == Init /\ [][Next]_vars
=============================================================================
