------------------------------- MODULE Ledger -------------------------------
(***************************************************************************)
(* What the ledger promises: every money operation is one atomic step on   *)
(* the journal, taken only when its idempotency key is free and, for a     *)
(* debit, only when the balance covers it.  LedgerTx refines each step     *)
(* into the statements of a database transaction, interleaved with the     *)
(* statements of other transactions, and implements this specification.    *)
(***************************************************************************)
EXTENDS Journal

VARIABLE journal

TypeOK == journal \subseteq Row

Init == journal = {}

(* Slip: a client key is looked up among the transfers only.               *)
WithdrawalKeyFreeAmongTransfers(u, k) == ~ HasKey(journal, <<"p2p-debit", u, k>>)

(* The unique index (userId, idempotencyKey) of the withdrawals table: one *)
(* client key serves one withdrawal, P2P or bank.                          *)
WithdrawalKeyFree(u, k) ==
  /\ ~ HasKey(journal, <<"p2p-debit", u, k>>)
  /\ ~ HasKey(journal, <<"bank-debit", u, k>>)

(* A funding is announced: a PENDING credit, which no balance counts.      *)
PostPending(w, k, a) ==
  /\ ~ HasKey(journal, <<"funding", w, k>>)
  /\ journal' = journal \cup {PendingFunding(w, k, a)}

(* The provider confirmed the funding: the PENDING credit becomes money.   *)
CompleteCredit(w, k, a) ==
  /\ PendingFunding(w, k, a) \in journal
  /\ journal' = (journal \ {PendingFunding(w, k, a)})
                  \cup {Completed(PendingFunding(w, k, a))}

(* Slip: the key of the credit leg names the recipient.                    *)
TransferP2pCreditKeyedByRecipient(s, d, k, a) ==
  /\ s # d
  /\ WithdrawalKeyFree(s, k)
  /\ Balance(journal, s) >= a
  /\ journal' = journal \cup {P2pDebit(s, k, a), P2pCredit(d, d, k, a)}

(* A transfer to another wallet writes its two legs together.              *)
TransferP2p(s, d, k, a) ==
  /\ s # d
  /\ WithdrawalKeyFree(s, k)
  /\ Balance(journal, s) >= a
  /\ journal' = journal \cup {P2pDebit(s, k, a), P2pCredit(s, d, k, a)}

(* Slip: the balance is not compared with the amount.                      *)
DebitBankUnchecked(w, k, a) ==
  /\ WithdrawalKeyFree(w, k)
  /\ journal' = journal \cup {BankDebit(w, k, a)}

(* Slip: the comparison is off by one.                                     *)
DebitBankOffByOne(w, k, a) ==
  /\ WithdrawalKeyFree(w, k)
  /\ Balance(journal, w) >= a - 1
  /\ journal' = journal \cup {BankDebit(w, k, a)}

(* A bank withdrawal is debited when it is accepted, before it is paid.    *)
DebitBank(w, k, a) ==
  /\ WithdrawalKeyFree(w, k)
  /\ Balance(journal, w) >= a
  /\ journal' = journal \cup {BankDebit(w, k, a)}

(* Slip: a fee is kept from the reversal.                                  *)
PostReversalLessFee(w, k, a) ==
  /\ BankDebit(w, k, a) \in journal
  /\ ~ HasKey(journal, <<"reversal", w, k>>)
  /\ journal' = journal \cup {Reversal(w, k, a - 1)}

(* Slip: the debit is deleted instead of reversed.                         *)
PostReversalByDeletion(w, k, a) ==
  /\ BankDebit(w, k, a) \in journal
  /\ journal' = journal \ {BankDebit(w, k, a)}

(* A bank withdrawal that could not be paid is credited back, once.  The   *)
(* debit stays.                                                            *)
PostReversal(w, k, a) ==
  /\ BankDebit(w, k, a) \in journal
  /\ ~ HasKey(journal, <<"reversal", w, k>>)
  /\ journal' = journal \cup {Reversal(w, k, a)}

Next ==
  \E w \in Wallets, k \in Keys, a \in Amounts :
    \/ PostPending(w, k, a)
    \/ CompleteCredit(w, k, a)
    \/ \E d \in Wallets : TransferP2p(w, d, k, a)
    \/ DebitBank(w, k, a)
    \/ PostReversal(w, k, a)

Spec == Init /\ [][Next]_journal

-----------------------------------------------------------------------------
(* No wallet is ever overdrawn, although its balance is stored nowhere:    *)
(* executeP2p and executeBankAccept (prisma-withdrawal.repository.ts).     *)
NonNegative == \A w \in Wallets : Balance(journal, w) >= 0

(* The rows of one leg, whatever wallet they touch.                        *)
OfLeg(leg) == {r \in journal : Leg(r) = leg /\ r.status = "SUCCESSFUL"}

SettledOf(type) ==
  {r \in journal : r.type = type /\ r.status = "SUCCESSFUL"}

(* Money is neither made nor lost: what all the wallets hold is what came  *)
(* in by completed fundings and reversals less what left by bank debits.   *)
(* Transfers between wallets cancel out.                                   *)
MoneyConserved ==
  SumAmount(SettledOf("CREDIT")) - SumAmount(SettledOf("DEBIT"))
    = SumAmount(OfLeg("funding")) + SumAmount(OfLeg("reversal"))
        - SumAmount(OfLeg("bank-debit"))

(* Every credit that is not a funding answers a debit of the same amount:  *)
(* a transfer's credit the transfer's debit, of another wallet; a reversal *)
(* the bank debit of the same wallet.  And no transfer has only a debit.   *)
LegsPaired ==
  \A r \in journal :
    LET u == r.key[2]  k == r.key[3]
    IN  CASE Leg(r) = "funding"    -> r \in {PendingFunding(u, k, r.amount),
                                        Completed(PendingFunding(u, k, r.amount))}
          [] Leg(r) = "p2p-debit"  -> /\ r = P2pDebit(u, k, r.amount)
                                      /\ \E d \in Wallets \ {u} :
                                           P2pCredit(u, d, k, r.amount) \in journal
          [] Leg(r) = "p2p-credit" -> /\ r = P2pCredit(u, r.wallet, k, r.amount)
                                      /\ r.wallet # u
                                      /\ P2pDebit(u, k, r.amount) \in journal
          [] Leg(r) = "bank-debit" -> r = BankDebit(u, k, r.amount)
          [] Leg(r) = "reversal"   -> /\ r = Reversal(u, k, r.amount)
                                      /\ BankDebit(u, k, r.amount) \in journal

(* One client key never debits twice, neither as two transfers nor as a    *)
(* transfer and a bank withdrawal.                                         *)
OneDebitPerKey ==
  \A r, q \in journal :
    r.type = "DEBIT" /\ q.type = "DEBIT" /\ r.key[2] = q.key[2]
      /\ r.key[3] = q.key[3] => r = q

(* The journal is append-only: a step removes a row only by completing it. *)
AppendOnly ==
  [][\A r \in journal :
       \/ r \in journal'
       \/ r.status = "PENDING" /\ Completed(r) \in journal']_journal

-----------------------------------------------------------------------------
(* What an account holder sees of the journal.                             *)
PaidOut(w) ==
  LET OfWallet(leg) == {r \in OfLeg(leg) : r.wallet = w}
  IN  SumAmount(OfWallet("bank-debit")) - SumAmount(OfWallet("reversal"))

Book == INSTANCE Accounts
          WITH balance <- [w \in Wallets |-> Balance(journal, w)],
               paidOut <- [w \in Wallets |-> PaidOut(w)]

(* The sums over the journal behave like stored balances that are checked  *)
(* and changed in one step, and no more is refunded than was paid out.     *)
ImplementsAccounts == Book!Spec
=============================================================================
