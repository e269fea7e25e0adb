----------------------------- MODULE MCLedgerTx -----------------------------
(* The instances of LedgerTx that TLC checks: which requests may arrive.   *)
EXTENDS LedgerTx

CONSTANTS k1, k2

Fund(w, k, a) ==
  [kind |-> "FUND", user |-> w, key |-> k, to |-> w, amount |-> a]
Transfer(s, d, k, a) ==
  [kind |-> "WALLET", user |-> s, key |-> k, to |-> d, amount |-> a]
Bank(w, k, a) ==
  [kind |-> "BANK", user |-> w, key |-> k, to |-> w, amount |-> a]

(* Two wallets that pay each other and withdraw, with too little for all   *)
(* of it, a key used for three different bodies and a transfer to oneself. *)
MCOffers ==
  {Fund(1, k1, 2),
   Transfer(1, 2, k1, 2), Transfer(1, 2, k1, 1), Transfer(2, 1, k1, 1),
   Bank(1, k1, 1), Bank(1, k2, 2), Transfer(1, 1, k2, 1)}

(* One key, the same body twice and a different body.                      *)
ReusedKeyOffers ==
  {Fund(1, k1, 2), Transfer(1, 2, k1, 1), Transfer(1, 2, k1, 2)}

(* Two bank withdrawals and their retries.                                 *)
BankOffers == {Fund(1, k1, 2), Bank(1, k1, 1), Bank(1, k2, 1)}
=============================================================================
