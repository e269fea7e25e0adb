----------------------------- MODULE MoneyFlow -----------------------------
(***************************************************************************)
(* The ledger together with the money outside it: what the provider took   *)
(* from customers, and what banks paid out or refused.  Here all fundings  *)
(* and withdrawals of all wallets share one journal.  Their jobs act on    *)
(* what the provider answers; the provider is external, and taken to be    *)
(* truthful and final: a payment that was taken stays taken, and a bank    *)
(* transfer that was paid out or refused does not become the other.        *)
(***************************************************************************)
EXTENDS Ledger

VARIABLES
  taken,   \* the credits that the provider took the customer's payment for
  banked,  \* the debits that a bank paid out
  refused  \* the debits that a bank transfer failed for

flowVars == <<journal, taken, banked, refused>>

FlowInit ==
  /\ Init
  /\ taken = {}
  /\ banked = {}
  /\ refused = {}

OutsideUnchanged == UNCHANGED <<taken, banked, refused>>

(* The credit that a funding is to end with.                               *)
Credited(w, k, a) == Completed(PendingFunding(w, k, a))

(* The provider takes a customer's payment, once the credit is announced.  *)
TakePayment(w, k, a) ==
  /\ PendingFunding(w, k, a) \in journal
  /\ taken' = taken \cup {Credited(w, k, a)}
  /\ UNCHANGED <<journal, banked, refused>>

(* verifyByTxRef answers "successful".                                     *)
VerifiedSuccessful(w, k, a) == Credited(w, k, a) \in taken

(* The completion job credits what the provider confirmed.                 *)
Credit(w, k, a) ==
  /\ VerifiedSuccessful(w, k, a)
  /\ CompleteCredit(w, k, a)
  /\ OutsideUnchanged

(* A bank transfer of a debit that was committed ends, in one of two ways. *)
PayOut(w, k, a) ==
  /\ BankDebit(w, k, a) \in journal \ refused
  /\ banked' = banked \cup {BankDebit(w, k, a)}
  /\ UNCHANGED <<journal, taken, refused>>

Refuse(w, k, a) ==
  /\ BankDebit(w, k, a) \in journal \ banked
  /\ refused' = refused \cup {BankDebit(w, k, a)}
  /\ UNCHANGED <<journal, taken, banked>>

(* Slip: whatever is not paid out yet is taken to have failed.             *)
AnsweredNotPaid(w, k, a) == BankDebit(w, k, a) \notin banked

(* The bank transfer is answered "FAILED".                                 *)
AnsweredFailed(w, k, a) == BankDebit(w, k, a) \in refused

(* The payout and settle jobs give back what was answered "FAILED".        *)
GiveBack(w, k, a) ==
  /\ AnsweredFailed(w, k, a)
  /\ PostReversal(w, k, a)
  /\ OutsideUnchanged

FlowNext ==
  \E w \in Wallets, k \in Keys, a \in Amounts :
    \/ PostPending(w, k, a) /\ OutsideUnchanged
    \/ TakePayment(w, k, a)
    \/ Credit(w, k, a)
    \/ \E d \in Wallets : TransferP2p(w, d, k, a) /\ OutsideUnchanged
    \/ DebitBank(w, k, a) /\ OutsideUnchanged
    \/ PayOut(w, k, a)
    \/ Refuse(w, k, a)
    \/ GiveBack(w, k, a)

FlowSpec == FlowInit /\ [][FlowNext]_flowVars

-----------------------------------------------------------------------------
(* Payments that were taken and are not credited yet.                      *)
Waiting == taken \ journal

(* Withdrawals that are neither paid out nor given back yet.               *)
Unsettled ==
  {r \in OfLeg("bank-debit") :
     r \notin banked /\ Reversal(r.wallet, r.key[3], r.amount) \notin journal}

(* Every kobo that customers paid is in a wallet, at a bank, held for a    *)
(* bank, or about to be credited, whatever was transferred between the     *)
(* wallets, however the jobs of all fundings and withdrawals interleave;   *)
(* and none of these holds a kobo that nobody paid (completeSuccessful,    *)
(* executeP2p, executeBankAccept, postReversal and the jobs that call      *)
(* them).                                                                  *)
EveryKoboAccounted ==
  SumAmount(taken)
    = SumAmount(SettledOf("CREDIT")) - SumAmount(SettledOf("DEBIT"))
        + SumAmount(banked) + SumAmount(Unsettled) + SumAmount(Waiting)
=============================================================================
