------------------------------ MODULE Journal ------------------------------
(***************************************************************************)
(* The money journal: the table wallet_transactions, the only place money  *)
(* is recorded.  No balance is stored anywhere; the balance of a wallet is *)
(* the sum of its SUCCESSFUL rows, computed each time it is needed.        *)
(*                                                                         *)
(* This module has no state.  It defines the rows the program writes, the  *)
(* unique index on their idempotency keys, and the sum, as operators on a  *)
(* set of rows.                                                            *)
(*                                                                         *)
(* A user owns exactly one wallet, created with the user, so a user is     *)
(* named by its wallet.  Wallets are numbers because the program compares  *)
(* wallet ids when it orders its locks.                                    *)
(***************************************************************************)
EXTENDS Integers, FiniteSets

CONSTANTS
  Wallets,   \* the wallets, and so the users
  Keys,      \* client idempotency keys (and, for funding, transfer ids)
  Amounts    \* the amounts, in kobo, that requests may name

ASSUME WalletsAssumption == Wallets \subseteq Nat
ASSUME AmountsAssumption == Amounts \subseteq Nat \ {0}

(* The prefixes of the journal's idempotency keys, one per way of writing  *)
(* a row.  A key is <<leg, user, client key>>: `p2p-debit:<user>:<key>`,   *)
(* `bank-debit:<user>:<key>`, ...  The key of a reversal is built from the *)
(* id of the debit it reverses, which user and client key identify.        *)
Legs == {"funding", "p2p-debit", "p2p-credit", "bank-debit", "reversal"}

RowKey == Legs \X Wallets \X Keys

(* A row of wallet_transactions.  The enum also has the status FAILED,     *)
(* which nothing in the program writes on a row.                           *)
Row == [key    : RowKey,
        wallet : Wallets,
        type   : {"CREDIT", "DEBIT"},
        status : {"PENDING", "SUCCESSFUL"},
        amount : Amounts]

Leg(row) == row.key[1]

PendingFunding(w, k, a) ==
  [key |-> <<"funding", w, k>>, wallet |-> w,
   type |-> "CREDIT", status |-> "PENDING", amount |-> a]

Completed(row) == [row EXCEPT !.status = "SUCCESSFUL"]

P2pDebit(s, k, a) ==
  [key |-> <<"p2p-debit", s, k>>, wallet |-> s,
   type |-> "DEBIT", status |-> "SUCCESSFUL", amount |-> a]

(* The key of the credit leg names the sender, the row the recipient.      *)
P2pCredit(s, d, k, a) ==
  [key |-> <<"p2p-credit", s, k>>, wallet |-> d,
   type |-> "CREDIT", status |-> "SUCCESSFUL", amount |-> a]

BankDebit(w, k, a) ==
  [key |-> <<"bank-debit", w, k>>, wallet |-> w,
   type |-> "DEBIT", status |-> "SUCCESSFUL", amount |-> a]

Reversal(w, k, a) ==
  [key |-> <<"reversal", w, k>>, wallet |-> w,
   type |-> "CREDIT", status |-> "SUCCESSFUL", amount |-> a]

(* Lookups through the unique index on idempotencyKey.                     *)
HasKey(rows, key) == \E r \in rows : r.key = key

UniqueKeys(rows) == \A r, q \in rows : r.key = q.key => r = q

(* A row of amount n stands for n kobo, numbered 1..n: the sum of a set of *)
(* rows is the number of kobo they stand for.                              *)
Kobo(rows) == UNION {{r} \X (1 .. r.amount) : r \in rows}

SumAmount(rows) == Cardinality(Kobo(rows))

Settled(rows, w, type) ==
  {r \in rows : r.wallet = w /\ r.status = "SUCCESSFUL" /\ r.type = type}

(* sumSuccessfulBalance: successful credits minus successful debits.       *)
Balance(rows, w) ==
  SumAmount(Settled(rows, w, "CREDIT")) - SumAmount(Settled(rows, w, "DEBIT"))
=============================================================================
