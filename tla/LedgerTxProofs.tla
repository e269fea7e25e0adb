--------------------------- MODULE LedgerTxProofs ---------------------------
(***************************************************************************)
(* The safety of the interleaved ledger, for any number of handlers and    *)
(* any wallets, keys, amounts and requests.                                *)
(***************************************************************************)
EXTENDS LedgerTx, JournalLemmas

Summable == IsFiniteSet(Kobo(journal))

(* The inductive invariant: the properties, with what they rest on.  The   *)
(* heart of it is LocksHeld: the balance that was read, and the lookup     *)
(* that was repeated, stay true until the write because whoever could      *)
(* change them needs a row that is locked.                                 *)
TxInv ==
  /\ TypeOK
  /\ Summable
  /\ FundingRows
  /\ LocksHeld
  /\ RequestsStand
  /\ NonNegative
  /\ CheckedFundsStillThere
  /\ PostedOnce
  /\ WithdrawalsAreDebits
  /\ QueuedAfterCommit

-----------------------------------------------------------------------------
(* An idle handler claims nothing.                                         *)
LEMMA IdleStands ==
  ASSUME NEW r, NEW rows, NEW accepted
  PROVE  Stands("idle", r, rows, accepted)
BY DEF Stands

(* A request names wallets, a key and an amount.                           *)
LEMMA RequestTypes ==
  ASSUME NEW r \in Request
  PROVE  /\ r.user \in Wallets /\ r.to \in Wallets /\ r.key \in Keys
         /\ r.amount \in Amounts /\ r.amount \in Nat
<1>1. r.amount \in Amounts
  BY DEF Request
<1> QED
  BY <1>1, AmountsAssumption DEF Request

(* The empty database satisfies the invariant.                             *)
LEMMA TxInvInit == Init => TxInv
<1> SUFFICES ASSUME Init PROVE TxInv
  OBVIOUS
<1>1. TypeOK
  BY DEF Init, TypeOK, Labels, InTx, Responses
<1>2. Kobo({}) = {}
  BY DEF Kobo
<1>3. Summable
  BY <1>2, FS_EmptySet, Zenon DEF Init, Summable
<1>4. NonNegative
  <2> SUFFICES ASSUME NEW w \in Wallets PROVE Balance(journal, w) >= 0
    BY DEF NonNegative
  <2>1. \A type : Settled(journal, w, type) = {}
    BY DEF Init, Settled
  <2>2. SumAmount({}) = 0
    BY <1>2, FS_EmptySet, Zenon DEF SumAmount
  <2>3. SumAmount(Settled(journal, w, "CREDIT")) = 0
    BY <2>1, <2>2, Zenon
  <2>4. SumAmount(Settled(journal, w, "DEBIT")) = 0
    BY <2>1, <2>2, Zenon
  <2> QED
    BY <2>3, <2>4 DEF Balance
<1>5. FundingRows /\ WithdrawalsAreDebits /\ QueuedAfterCommit
  BY DEF Init, FundingRows, WithdrawalsAreDebits, QueuedAfterCommit
<1>6. LocksHeld /\ RequestsStand /\ CheckedFundsStillThere /\ PostedOnce
  BY IdleStands
     DEF Init, LocksHeld, RequestsStand, CheckedFundsStillThere, PostedOnce
<1> QED
  BY <1>1, <1>3, <1>4, <1>5, <1>6 DEF TxInv

-----------------------------------------------------------------------------
(* Steps that read: a handler answers, or goes on to its next statement.   *)

(* What is claimed of a handler that is about to run the statement label.  *)
Ready(t, label) ==
  LET r == req[t]
  IN  /\ Stands(label, r, journal, withdrawals)
      /\ label = "write" /\ IsWithdrawal(r) => Balance(journal, r.user) >= r.amount
      /\ label = "write" /\ ~ IsWithdrawal(r) => ~ RowPosted(journal, r)

(* Answering without having written keeps the invariant.                   *)
LEMMA AnswerStep ==
  ASSUME TxInv, NEW t \in Txns, NEW a \in Responses, Answer(t, a), ReadOnly
  PROVE  TxInv'
<1>1. TypeOK'
  BY DEF TxInv, TypeOK, Answer, ReadOnly, Released, Labels
<1>2. /\ journal' = journal /\ withdrawals' = withdrawals
      /\ payoutQueue' = payoutQueue
  BY DEF ReadOnly
<1>3. Summable' /\ FundingRows' /\ NonNegative' /\ WithdrawalsAreDebits'
      /\ QueuedAfterCommit'
  BY <1>2 DEF TxInv, Summable, FundingRows, NonNegative, WithdrawalsAreDebits,
              QueuedAfterCommit
<1>4. /\ pc'[t] = "idle"
      /\ \A u \in Txns \ {t} : pc'[u] = pc[u] /\ req'[u] = req[u]
      /\ \A u \in Txns \ {t}, w \in Wallets : lock[w] = u => lock'[w] = u
  BY NoTxAssumption DEF TxInv, TypeOK, Answer, Released
<1>5. LocksHeld'
  <2> SUFFICES ASSUME NEW u \in Txns, pc'[u] \in {"sum", "relookup", "write"},
                      NEW w \in ToLock(req'[u])
               PROVE  lock'[w] = u
    BY DEF LocksHeld, ToLock
  <2>1. u # t /\ req[u] \in Request
    BY <1>4 DEF TxInv, TypeOK
  <2>2. w \in Wallets /\ lock[w] = u
    BY <1>4, <2>1 DEF TxInv, LocksHeld, ToLock, Request
  <2> QED
    BY <1>4, <2>1, <2>2
<1>6. RequestsStand'
  BY <1>2, <1>4, IdleStands DEF TxInv, RequestsStand
<1>7. CheckedFundsStillThere' /\ PostedOnce'
  BY <1>2, <1>4 DEF TxInv, CheckedFundsStillThere, PostedOnce
<1> QED
  BY <1>1, <1>3, <1>5, <1>6, <1>7 DEF TxInv

(* Going on to a statement that is ready keeps the invariant, when locks   *)
(* are only gained and the statements under the locks come after them.     *)
LEMMA GotoStep ==
  ASSUME TxInv, NEW t \in Txns, pc[t] # "idle",
         NEW label \in Labels \ {"idle", "lookup", "enqueue"},
         Goto(t, label), ReadOnly, Ready(t, label),
         lock' \in [Wallets -> Txns \cup {NoTx}],
         \A w \in Wallets : lock[w] # NoTx => lock'[w] = lock[w],
         label \in {"sum", "relookup", "write"} =>
           \A w \in ToLock(req[t]) : lock'[w] = t
  PROVE  TxInv'
<1>1. TypeOK'
  BY DEF TxInv, TypeOK, Goto, ReadOnly
<1>2. /\ journal' = journal /\ withdrawals' = withdrawals
      /\ payoutQueue' = payoutQueue /\ req' = req
  BY DEF ReadOnly, Goto
<1>3. Summable' /\ FundingRows' /\ NonNegative' /\ WithdrawalsAreDebits'
      /\ QueuedAfterCommit'
  BY <1>2 DEF TxInv, Summable, FundingRows, NonNegative, WithdrawalsAreDebits,
              QueuedAfterCommit
<1>4. /\ pc'[t] = label
      /\ \A u \in Txns \ {t} : pc'[u] = pc[u]
  BY DEF TxInv, TypeOK, Goto
<1>5. LocksHeld'
  <2> SUFFICES ASSUME NEW u \in Txns, pc'[u] \in {"sum", "relookup", "write"},
                      NEW w \in ToLock(req[u])
               PROVE  lock'[w] = u
    BY <1>2 DEF LocksHeld, ToLock
  <2>1. CASE u = t
    BY <1>4, <2>1
  <2>2. CASE u # t
    <3>1. req[u] \in Request
      BY <1>4, <2>2 DEF TxInv, TypeOK
    <3>2. w \in Wallets /\ lock[w] = u
      BY <1>4, <2>2, <3>1 DEF TxInv, LocksHeld, ToLock, Request
    <3> QED
      BY <3>2, NoTxAssumption
  <2> QED
    BY <2>1, <2>2
<1>6. RequestsStand'
  BY <1>2, <1>4 DEF TxInv, RequestsStand, Ready
<1>7. CheckedFundsStillThere' /\ PostedOnce'
  BY <1>2, <1>4 DEF TxInv, CheckedFundsStillThere, PostedOnce, Ready
<1> QED
  BY <1>1, <1>3, <1>5, <1>6, <1>7 DEF TxInv

(* A request that may be served starts a handler.                          *)
LEMMA BeginStep ==
  ASSUME TxInv, NEW t \in Txns, NEW r \in Request, Begin(t, r),
         r.kind = "COMPLETE" =>
           RowOf(r) \in journal \/ Completed(RowOf(r)) \in journal,
         OriginalFound(journal, r)
  PROVE  TxInv'
<1>1. TypeOK'
  BY DEF TxInv, TypeOK, Begin, Labels, Responses
<1>2. /\ journal' = journal /\ withdrawals' = withdrawals
      /\ payoutQueue' = payoutQueue /\ lock' = lock
  BY DEF Begin
<1>3. Summable' /\ FundingRows' /\ NonNegative' /\ WithdrawalsAreDebits'
      /\ QueuedAfterCommit'
  BY <1>2 DEF TxInv, Summable, FundingRows, NonNegative, WithdrawalsAreDebits,
              QueuedAfterCommit
<1>4. /\ pc'[t] = "lookup" /\ req'[t] = r
      /\ \A u \in Txns \ {t} : pc'[u] = pc[u] /\ req'[u] = req[u]
  BY DEF TxInv, TypeOK, Begin
<1>5. LocksHeld'
  BY <1>2, <1>4 DEF TxInv, LocksHeld, ToLock
<1>6. RequestsStand'
  BY <1>2, <1>4 DEF TxInv, RequestsStand, Stands
<1>7. CheckedFundsStillThere' /\ PostedOnce'
  BY <1>2, <1>4 DEF TxInv, CheckedFundsStillThere, PostedOnce
<1> QED
  BY <1>1, <1>3, <1>5, <1>6, <1>7 DEF TxInv

-----------------------------------------------------------------------------
(* Steps that write.                                                       *)

(* A commit disturbs no other handler: it lowers the balance of its own    *)
(* user only, posts fundings and reversals of its own user only, and the   *)
(* other handlers that rely on a balance or a lookup hold other wallets.   *)
LEMMA CommitStep ==
  ASSUME TxInv, NEW t \in Txns, pc[t] = "write",
         TypeOK', Summable', FundingRows', NonNegative',
         WithdrawalsAreDebits', QueuedAfterCommit',
         \A u \in Txns \ {t} : pc'[u] = pc[u] /\ req'[u] = req[u],
         lock' = Released(t),
         \/ pc'[t] = "idle"
         \/ /\ pc'[t] = "enqueue"
            /\ req'[t] = req[t] /\ req[t].kind = "BANK" /\ req[t] \in withdrawals',
         withdrawals \subseteq withdrawals',
         \A r \in journal :
           r \in journal' \/ (Leg(r) = "funding" /\ Completed(r) \in journal'),
         \A v \in Wallets \ {req[t].user} :
           Balance(journal', v) >= Balance(journal, v),
         \A r \in journal' \ journal :
           Leg(r) \in {"funding", "reversal"} => r.key[2] = req[t].user
  PROVE  TxInv'
<1>1. req[t] \in Request /\ \A w \in ToLock(req[t]) : lock[w] = t
  BY DEF TxInv, TypeOK, LocksHeld
<1>2. req[t].user \in Wallets /\ lock[req[t].user] = t
  BY <1>1 DEF ToLock, Request
<1>3. ASSUME NEW u \in Txns \ {t}, pc[u] \in {"sum", "relookup", "write"}
      PROVE  /\ req[u] \in Request
             /\ \A w \in ToLock(req[u]) : w \in Wallets /\ lock[w] = u
             /\ req[u].user \in Wallets \ {req[t].user}
  <2>1. req[u] \in Request
    BY <1>3 DEF TxInv, TypeOK
  <2>2. \A w \in ToLock(req[u]) : w \in Wallets /\ lock[w] = u
    BY <1>3, <2>1 DEF TxInv, LocksHeld, ToLock, Request
  <2>3. req[u].user \in ToLock(req[u])
    BY DEF ToLock
  <2> QED
    BY <1>2, <2>1, <2>2, <2>3
<1>4. LocksHeld'
  <2> SUFFICES ASSUME NEW u \in Txns, pc'[u] \in {"sum", "relookup", "write"},
                      NEW w \in ToLock(req'[u])
               PROVE  lock'[w] = u
    BY DEF LocksHeld, ToLock
  <2>1. u \in Txns \ {t} /\ pc[u] \in {"sum", "relookup", "write"}
    OBVIOUS
  <2>2. w \in Wallets /\ lock[w] = u
    BY <1>3, <2>1
  <2> QED
    BY <2>1, <2>2 DEF Released
<1>5. RequestsStand'
  <2>1. Stands(pc'[t], req'[t], journal', withdrawals')
    BY DEF Stands, IsWithdrawal, OriginalFound
  <2>2. ASSUME NEW u \in Txns \ {t}
        PROVE  Stands(pc[u], req[u], journal', withdrawals')
    <3>1. Stands(pc[u], req[u], journal, withdrawals)
      BY DEF TxInv, RequestsStand
    <3>2. \A row : Completed(Completed(row)) = Completed(row)
      BY DEF Completed
    <3>3. \A w, k, a : Leg(BankDebit(w, k, a)) # "funding"
      BY DEF Leg, BankDebit
    <3> QED
      BY <3>1, <3>2, <3>3 DEF Stands, OriginalFound
  <2> QED
    BY <2>1, <2>2 DEF RequestsStand
<1>6. CheckedFundsStillThere'
  <2>1. ASSUME NEW u \in Txns \ {t}, pc[u] = "write", IsWithdrawal(req[u])
        PROVE  Balance(journal', req[u].user) >= req[u].amount
    <3>1. req[u] \in Request /\ req[u].user \in Wallets \ {req[t].user}
      BY <1>3, <2>1
    <3>2. Balance(journal, req[u].user) >= req[u].amount
      BY <2>1 DEF TxInv, CheckedFundsStillThere
    <3>3. Balance(journal', req[u].user) >= Balance(journal, req[u].user)
      BY <3>1
    <3>4. /\ Balance(journal, req[u].user) \in Int
          /\ Balance(journal', req[u].user) \in Int
      BY BalanceType DEF TxInv, Summable
    <3>5. req[u].amount \in Int
      BY <3>1, RequestTypes
    <3> QED
      BY <3>2, <3>3, <3>4, <3>5
  <2> QED
    BY <2>1 DEF CheckedFundsStillThere
<1>7. PostedOnce'
  <2>1. ASSUME NEW u \in Txns \ {t}, pc[u] = "write", ~ IsWithdrawal(req[u])
        PROVE  ~ RowPosted(journal', req[u])
    <3> DEFINE r == req[u]
    <3>1. r \in Request /\ r.user # req[t].user
      BY <1>3, <2>1
    <3>2. ~ RowPosted(journal, r)
      BY <2>1 DEF TxInv, PostedOnce
    <3>3. /\ RowOf(r).key[2] = r.user
          /\ RowOf(r).key[1] \in {"funding", "reversal"}
          /\ Completed(RowOf(r)).key = RowOf(r).key
      BY DEF RowOf, Reversal, PendingFunding, Completed
    <3>4. ASSUME NEW q \in journal' \ journal, q.key = RowOf(r).key
          PROVE  FALSE
      BY <3>1, <3>3, <3>4 DEF Leg
    <3> QED
      BY <3>2, <3>3, <3>4 DEF RowPosted, HasKey
  <2> QED
    BY <2>1 DEF PostedOnce
<1> QED
  BY <1>4, <1>5, <1>6, <1>7 DEF TxInv

(* The legs of a withdrawal are rows, and name its user and its key.       *)
LEMMA LegsTypes ==
  ASSUME NEW r \in Request
  PROVE  \A row \in LegsOf(r) :
           /\ row \in Row
           /\ row.key[2] = r.user /\ row.key[3] = r.key
           /\ Leg(row) \in {"p2p-debit", "p2p-credit", "bank-debit"}
<1>1. LegsOf(r) \subseteq Row
  BY RequestTypes, RowTypes DEF LegsOf
<1> QED
  BY <1>1 DEF LegsOf, P2pDebit, P2pCredit, BankDebit, Leg

(* While its key is free, no leg of a withdrawal is in the journal.        *)
LEMMA FreshLegs ==
  ASSUME TxInv, NEW r \in Request, ~ KeyUsed(r)
  PROVE  \A row \in LegsOf(r) : row \notin journal
<1> SUFFICES ASSUME NEW row \in LegsOf(r), row \in journal
             PROVE  FALSE
  OBVIOUS
<1>1. PICK w \in withdrawals : row \in LegsOf(w)
  BY LegsTypes DEF TxInv, WithdrawalsAreDebits
<1>2. w \in Request
  BY DEF TxInv, TypeOK, Withdrawal
<1>3. SameKey(w, r)
  BY <1>1, <1>2, LegsTypes DEF SameKey
<1> QED
  BY <1>3 DEF KeyUsed

(* A withdrawal of a free key, accepted with its legs, keeps the           *)
(* correspondence of withdrawals and debits.                               *)
LEMMA AcceptedTogether ==
  ASSUME WithdrawalsAreDebits, NEW r, ~ KeyUsed(r),
         journal' = journal \cup LegsOf(r),
         withdrawals' = withdrawals \cup {r}
  PROVE  WithdrawalsAreDebits'
<1>1. \A w \in withdrawals' : LegsOf(w) \subseteq journal'
  BY DEF WithdrawalsAreDebits
<1>2. ASSUME NEW row \in journal',
             Leg(row) \in {"p2p-debit", "p2p-credit", "bank-debit"}
      PROVE  \E w \in withdrawals' : row \in LegsOf(w)
  BY <1>2 DEF WithdrawalsAreDebits
<1>3. ASSUME NEW v \in withdrawals', NEW w \in withdrawals', SameKey(v, w)
      PROVE  v = w
  BY <1>3 DEF WithdrawalsAreDebits, KeyUsed, SameKey
<1> QED
  BY <1>1, <1>2, <1>3 DEF WithdrawalsAreDebits

(* So does whatever leaves the legs of withdrawals alone.                  *)
LEMMA LegsLeftAlone ==
  ASSUME TxInv, withdrawals' = withdrawals,
         \A row : Leg(row) \in {"p2p-debit", "p2p-credit", "bank-debit"}
                   => (row \in journal' <=> row \in journal)
  PROVE  WithdrawalsAreDebits'
<1>1. \A w \in withdrawals : w \in Request /\ LegsOf(w) \subseteq journal
  BY DEF TxInv, TypeOK, Withdrawal, WithdrawalsAreDebits
<1>2. \A w \in withdrawals' : LegsOf(w) \subseteq journal'
  BY <1>1, LegsTypes
<1>3. \A row \in journal' :
        Leg(row) \in {"p2p-debit", "p2p-credit", "bank-debit"} =>
          \E w \in withdrawals' : row \in LegsOf(w)
  BY DEF TxInv, WithdrawalsAreDebits
<1>4. \A v, w \in withdrawals' : SameKey(v, w) => v = w
  BY DEF TxInv, WithdrawalsAreDebits
<1> QED
  BY <1>2, <1>3, <1>4 DEF WithdrawalsAreDebits

(* The legs of a withdrawal are no fundings and no reversals.               *)
LEMMA AcceptedFundings ==
  ASSUME TxInv, NEW r \in Request, journal' = journal \cup LegsOf(r)
  PROVE  /\ FundingRows'
         /\ \A row \in journal' \ journal :
              Leg(row) \in {"funding", "reversal"} => row.key[2] = r.user
<1>1. \A row \in LegsOf(r) : Leg(row) \notin {"funding", "reversal"}
  BY LegsTypes
<1> QED
  BY <1>1 DEF TxInv, FundingRows

(* The end of a handler, or the end of its transaction, keeps the types.   *)
LEMMA AnswerTypes ==
  ASSUME TypeOK, NEW t \in Txns, NEW a \in Responses, Answer(t, a),
         journal' \subseteq Row, withdrawals' \subseteq Withdrawal,
         payoutQueue' \subseteq Withdrawal
  PROVE  TypeOK'
BY DEF TypeOK, Answer, Released, Labels

(* A transfer commits: the sender could pay, the recipient gains.          *)
LEMMA CommitP2pStep ==
  ASSUME TxInv, NEW t \in Txns, CommitP2p(t)
  PROVE  TxInv'
<1> DEFINE r == req[t]
           debit == P2pDebit(r.user, r.key, r.amount)
           credit == P2pCredit(r.user, r.to, r.key, r.amount)
<1>1. /\ pc[t] = "write" /\ r.kind = "WALLET" /\ ~ KeyUsed(r)
      /\ journal' = journal \cup LegsOf(r)
      /\ withdrawals' = withdrawals \cup {r}
      /\ Answer(t, "created") /\ payoutQueue' = payoutQueue
  BY DEF CommitP2p
<1>2. r \in Request /\ IsWithdrawal(r) /\ r \in Withdrawal
  BY <1>1 DEF TxInv, TypeOK, IsWithdrawal, Withdrawal
<1>3. /\ r.user \in Wallets /\ r.to \in Wallets
      /\ r.amount \in Nat /\ r.to # r.user
  BY <1>1, <1>2, RequestTypes DEF TxInv, RequestsStand, Stands
<1>4. /\ debit \in Row /\ credit \in Row
      /\ debit.wallet = r.user /\ debit.amount = r.amount
      /\ debit.status = "SUCCESSFUL" /\ debit.type = "DEBIT"
      /\ credit.wallet = r.to /\ credit.type = "CREDIT"
  BY <1>2, RequestTypes, RowTypes DEF P2pDebit, P2pCredit
<1>5. LegsOf(r) = {debit, credit}
  BY <1>1 DEF LegsOf
<1>6. debit \notin journal
  BY <1>1, <1>2, <1>5, FreshLegs
<1>7. journal' = (journal \cup {debit}) \cup {credit}
  BY <1>1, <1>5
<1> HIDE DEF debit, credit
<1>8. journal \subseteq Row /\ IsFiniteSet(Kobo(journal))
  BY DEF TxInv, TypeOK, Summable
<1>9. journal \cup {debit} \subseteq Row /\ IsFiniteSet(Kobo(journal \cup {debit}))
  BY <1>4, <1>8, AddedRow
<1>10. journal' \subseteq Row /\ IsFiniteSet(Kobo(journal'))
  BY <1>4, <1>7, <1>9, AddedRow
<1>11. Balance(journal, r.user) >= r.amount
  BY <1>1, <1>2 DEF TxInv, CheckedFundsStillThere
<1>12. ASSUME NEW v \in Wallets
       PROVE  Balance(journal', v) >= 0
  <2>1. Balance(journal, v) >= 0 /\ Balance(journal, debit.wallet) >= debit.amount
    BY <1>4, <1>11 DEF TxInv, NonNegative
  <2>2. Balance(journal \cup {debit}, v) >= 0
    BY <1>4, <1>6, <1>8, <2>1, CoveredDebitKeepsNonNegative
  <2> QED
    BY <1>4, <1>7, <1>9, <2>2, CreditKeepsNonNegative
<1>13. ASSUME NEW v \in Wallets \ {r.user}
       PROVE  Balance(journal', v) >= Balance(journal, v)
  <2>1. Balance(journal \cup {debit}, v) = Balance(journal, v)
    BY <1>4, BalanceOfOthers
  <2>2. Balance(journal', v) >= Balance(journal \cup {debit}, v)
    BY <1>4, <1>7, <1>9, AddedRowLowersOwnOnly
  <2> QED
    BY <2>1, <2>2
<1>14. TypeOK'
  BY <1>1, <1>2, <1>10, AnswerTypes DEF TxInv, TypeOK, Responses
<1>15. Summable' /\ NonNegative'
  BY <1>10, <1>12 DEF Summable, NonNegative
<1>16. WithdrawalsAreDebits'
  BY <1>1, AcceptedTogether DEF TxInv
<1>17. QueuedAfterCommit'
  BY <1>1 DEF TxInv, QueuedAfterCommit
<1>18. /\ pc'[t] = "idle" /\ lock' = Released(t)
       /\ \A u \in Txns \ {t} : pc'[u] = pc[u] /\ req'[u] = req[u]
  BY <1>1 DEF TxInv, TypeOK, Answer
<1>19. \A row \in journal : row \in journal'
  BY <1>1
<1> QED
  BY <1>1, <1>2, <1>13, <1>14, <1>15, <1>16, <1>17, <1>18, <1>19,
     AcceptedFundings, CommitStep

(* A bank withdrawal commits, and its payout is still to be queued.        *)
LEMMA CommitBankStep ==
  ASSUME TxInv, NEW t \in Txns, CommitBank(t)
  PROVE  TxInv'
<1> DEFINE r == req[t]
           debit == BankDebit(r.user, r.key, r.amount)
<1>1. /\ pc[t] = "write" /\ r.kind = "BANK" /\ ~ KeyUsed(r)
      /\ journal' = journal \cup LegsOf(r)
      /\ withdrawals' = withdrawals \cup {r}
      /\ payoutQueue' = payoutQueue
      /\ lock' = Released(t) /\ Goto(t, "enqueue")
  BY DEF CommitBank
<1>2. r \in Request /\ IsWithdrawal(r) /\ r \in Withdrawal
  BY <1>1 DEF TxInv, TypeOK, IsWithdrawal, Withdrawal
<1>3. r.user \in Wallets /\ r.amount \in Nat
  BY <1>2, RequestTypes
<1>4. /\ debit \in Row
      /\ debit.wallet = r.user /\ debit.amount = r.amount
      /\ debit.status = "SUCCESSFUL" /\ debit.type = "DEBIT"
  BY <1>2, RequestTypes, RowTypes DEF BankDebit
<1>5. LegsOf(r) = {debit}
  BY <1>1 DEF LegsOf
<1>6. debit \notin journal
  BY <1>1, <1>2, <1>5, FreshLegs
<1>7. journal' = journal \cup {debit}
  BY <1>1, <1>5
<1> HIDE DEF debit
<1>8. journal \subseteq Row /\ IsFiniteSet(Kobo(journal))
  BY DEF TxInv, TypeOK, Summable
<1>9. journal' \subseteq Row /\ IsFiniteSet(Kobo(journal'))
  BY <1>4, <1>7, <1>8, AddedRow
<1>10. Balance(journal, debit.wallet) >= debit.amount
  BY <1>1, <1>2, <1>4 DEF TxInv, CheckedFundsStillThere
<1>11. ASSUME NEW v \in Wallets
       PROVE  Balance(journal', v) >= 0
  <2>1. Balance(journal, v) >= 0
    BY DEF TxInv, NonNegative
  <2> QED
    BY <1>4, <1>6, <1>7, <1>8, <1>10, <2>1, CoveredDebitKeepsNonNegative
<1>12. ASSUME NEW v \in Wallets \ {r.user}
       PROVE  Balance(journal', v) >= Balance(journal, v)
  BY <1>4, <1>7, <1>8, AddedRowLowersOwnOnly
<1>13. TypeOK'
  <2>1. lock' \in [Wallets -> Txns \cup {NoTx}]
    BY <1>1 DEF TxInv, TypeOK, Released
  <2>2. pc' \in [Txns -> Labels]
    BY <1>1 DEF TxInv, TypeOK, Goto, Labels
  <2> QED
    BY <1>1, <1>2, <1>9, <2>1, <2>2 DEF TxInv, TypeOK, Goto
<1>14. Summable' /\ NonNegative'
  BY <1>9, <1>11 DEF Summable, NonNegative
<1>15. WithdrawalsAreDebits'
  BY <1>1, AcceptedTogether DEF TxInv
<1>16. QueuedAfterCommit'
  BY <1>1 DEF TxInv, QueuedAfterCommit
<1>17. /\ pc'[t] = "enqueue" /\ req'[t] = r /\ r \in withdrawals'
       /\ \A u \in Txns \ {t} : pc'[u] = pc[u] /\ req'[u] = req[u]
  BY <1>1 DEF TxInv, TypeOK, Goto
<1>18. \A row \in journal : row \in journal'
  BY <1>1
<1> QED
  BY <1>1, <1>2, <1>12, <1>13, <1>14, <1>15, <1>16, <1>17, <1>18,
     AcceptedFundings, CommitStep

(* A funding is announced or a debit is reversed: one credit more.         *)
LEMMA CommitRowStep ==
  ASSUME TxInv, NEW t \in Txns, CommitRow(t)
  PROVE  TxInv'
<1> DEFINE r == req[t]
           row == RowOf(r)
<1>1. /\ pc[t] = "write" /\ r.kind \in {"FUND", "REVERSE"}
      /\ journal' = journal \cup {row}
      /\ withdrawals' = withdrawals /\ payoutQueue' = payoutQueue
      /\ Answer(t, "created")
  BY DEF CommitRow
<1>2. r \in Request
  BY <1>1 DEF TxInv, TypeOK
<1>3. row \in Row
  BY <1>2, RequestTypes, RowTypes DEF RowOf
<1>4. /\ Leg(row) \in {"funding", "reversal"}
      /\ row.key[2] = r.user
      /\ row.type = "CREDIT"
      /\ Leg(row) = "funding" => row = PendingFunding(row.wallet, row.key[3], row.amount)
  BY DEF RowOf, Reversal, PendingFunding, Leg
<1> HIDE DEF row
<1>5. journal \subseteq Row /\ IsFiniteSet(Kobo(journal))
  BY DEF TxInv, TypeOK, Summable
<1>6. journal' \subseteq Row /\ IsFiniteSet(Kobo(journal'))
  BY <1>1, <1>3, <1>5, AddedRow
<1>7. TypeOK'
  BY <1>1, <1>6, AnswerTypes DEF TxInv, TypeOK, Responses
<1>8. \A v \in Wallets : Balance(journal', v) >= Balance(journal, v)
  BY <1>1, <1>3, <1>4, <1>5, AddedRowLowersOwnOnly
<1>9. \A v \in Wallets : Balance(journal', v) >= 0
  BY <1>1, <1>3, <1>4, <1>5, CreditKeepsNonNegative DEF TxInv, NonNegative
<1>10. Summable' /\ NonNegative'
  BY <1>6, <1>9 DEF Summable, NonNegative
<1>11. FundingRows'
  BY <1>1, <1>4 DEF TxInv, FundingRows
<1>12. WithdrawalsAreDebits'
  BY <1>1, <1>4, LegsLeftAlone
<1>13. QueuedAfterCommit'
  BY <1>1 DEF TxInv, QueuedAfterCommit
<1>14. /\ pc'[t] = "idle" /\ lock' = Released(t)
       /\ \A u \in Txns \ {t} : pc'[u] = pc[u] /\ req'[u] = req[u]
  BY <1>1 DEF TxInv, TypeOK, Answer
<1>15. /\ \A q \in journal : q \in journal'
       /\ \A q \in journal' \ journal : q.key[2] = r.user
       /\ withdrawals \subseteq withdrawals'
  BY <1>1, <1>4
<1> QED
  BY <1>1, <1>7, <1>8, <1>10, <1>11, <1>12, <1>13, <1>14, <1>15, CommitStep

(* A pending funding becomes a successful one: one credit more that counts.*)
LEMMA CommitCompletionStep ==
  ASSUME TxInv, NEW t \in Txns, CommitCompletion(t)
  PROVE  TxInv'
<1> DEFINE r == req[t]
           row == RowOf(r)
           done == Completed(row)
<1>1. /\ pc[t] = "write" /\ r.kind = "COMPLETE"
      /\ journal' = (journal \ {row}) \cup {done}
      /\ withdrawals' = withdrawals /\ payoutQueue' = payoutQueue
      /\ Answer(t, "created")
  BY DEF CommitCompletion
<1>2. r \in Request
  BY <1>1 DEF TxInv, TypeOK
<1>3. row \in Row /\ done \in Row
  BY <1>1, <1>2, RequestTypes, RowTypes DEF RowOf
<1>4. /\ row.status = "PENDING" /\ done.type = "CREDIT"
      /\ Leg(row) = "funding" /\ Leg(done) = "funding"
      /\ done.key[2] = r.user
      /\ row = PendingFunding(done.wallet, done.key[3], done.amount)
  BY <1>1 DEF RowOf, PendingFunding, Completed, Leg
<1>5. journal \subseteq Row /\ IsFiniteSet(Kobo(journal))
  BY DEF TxInv, TypeOK, Summable
<1>6. journal \ {row} \subseteq Row /\ IsFiniteSet(Kobo(journal \ {row}))
  BY <1>5, SumOfPart
<1>7. \A q \in journal : q \in journal' \/ (Leg(q) = "funding" /\ Completed(q) \in journal')
  BY <1>1, <1>4
<1>8. FundingRows'
  <2>1. Leg(done) = "funding" =>
          LET p == PendingFunding(done.wallet, done.key[3], done.amount)
          IN  done = p \/ done = Completed(p)
    BY <1>4
  <2> HIDE DEF done
  <2> QED
    BY <1>1, <2>1 DEF TxInv, FundingRows
<1> HIDE DEF row, done
<1>9. journal' \subseteq Row /\ IsFiniteSet(Kobo(journal'))
  BY <1>1, <1>3, <1>6, AddedRow
<1>10. TypeOK'
  BY <1>1, <1>9, AnswerTypes DEF TxInv, TypeOK, Responses
<1>11. \A v : Balance(journal \ {row}, v) = Balance(journal, v)
  BY <1>4, BalanceOfOthers
<1>12. \A v \in Wallets : Balance(journal', v) >= Balance(journal, v)
  <2> SUFFICES ASSUME NEW v \in Wallets
               PROVE  Balance(journal', v) >= Balance(journal, v)
    OBVIOUS
  <2>1. Balance(journal', v) >= Balance(journal \ {row}, v)
    BY <1>1, <1>3, <1>4, <1>6, AddedRowLowersOwnOnly
  <2> QED
    BY <1>11, <2>1
<1>13. \A v \in Wallets : Balance(journal', v) >= 0
  <2> SUFFICES ASSUME NEW v \in Wallets
               PROVE  Balance(journal', v) >= 0
    OBVIOUS
  <2>1. Balance(journal \ {row}, v) >= 0
    BY <1>11 DEF TxInv, NonNegative
  <2> QED
    BY <1>1, <1>3, <1>4, <1>6, <2>1, CreditKeepsNonNegative
<1>14. Summable' /\ NonNegative'
  BY <1>9, <1>13 DEF Summable, NonNegative
<1>15. WithdrawalsAreDebits'
  BY <1>1, <1>4, LegsLeftAlone
<1>16. QueuedAfterCommit'
  BY <1>1 DEF TxInv, QueuedAfterCommit
<1>17. /\ pc'[t] = "idle" /\ lock' = Released(t)
       /\ \A u \in Txns \ {t} : pc'[u] = pc[u] /\ req'[u] = req[u]
  BY <1>1 DEF TxInv, TypeOK, Answer
<1>18. /\ \A q \in journal' \ journal : q.key[2] = r.user
       /\ withdrawals \subseteq withdrawals'
  BY <1>1, <1>4
<1> QED
  BY <1>1, <1>7, <1>8, <1>10, <1>12, <1>14, <1>15, <1>16, <1>17, <1>18,
     CommitStep

(* The payout of a committed bank withdrawal is queued.                    *)
LEMMA EnqueuePayoutStep ==
  ASSUME TxInv, NEW t \in Txns, EnqueuePayout(t)
  PROVE  TxInv'
<1>1. /\ pc[t] = "enqueue" /\ Answer(t, "created")
      /\ payoutQueue' = payoutQueue \cup {req[t]}
      /\ journal' = journal /\ withdrawals' = withdrawals
  BY DEF EnqueuePayout
<1>2. req[t].kind = "BANK" /\ req[t] \in withdrawals
  BY <1>1 DEF TxInv, RequestsStand, Stands
<1>3. TypeOK'
  BY <1>1, <1>2, AnswerTypes DEF TxInv, TypeOK, Responses
<1>4. Summable' /\ FundingRows' /\ NonNegative' /\ WithdrawalsAreDebits'
  BY <1>1 DEF TxInv, Summable, FundingRows, NonNegative, WithdrawalsAreDebits
<1>5. QueuedAfterCommit'
  BY <1>1, <1>2 DEF TxInv, QueuedAfterCommit
<1>6. /\ pc'[t] = "idle"
      /\ \A u \in Txns \ {t} : pc'[u] = pc[u] /\ req'[u] = req[u]
      /\ \A u \in Txns \ {t}, w \in Wallets : lock[w] = u => lock'[w] = u
  BY <1>1, NoTxAssumption DEF TxInv, TypeOK, Answer, Released
<1>7. LocksHeld'
  <2> SUFFICES ASSUME NEW u \in Txns, pc'[u] \in {"sum", "relookup", "write"},
                      NEW w \in ToLock(req'[u])
               PROVE  lock'[w] = u
    BY DEF LocksHeld, ToLock
  <2>1. u # t /\ req[u] \in Request
    BY <1>6 DEF TxInv, TypeOK
  <2>2. w \in Wallets /\ lock[w] = u
    BY <1>6, <2>1 DEF TxInv, LocksHeld, ToLock, Request
  <2> QED
    BY <1>6, <2>1, <2>2
<1>8. RequestsStand'
  BY <1>1, <1>6, IdleStands DEF TxInv, RequestsStand
<1>9. CheckedFundsStillThere' /\ PostedOnce'
  BY <1>1, <1>6 DEF TxInv, CheckedFundsStillThere, PostedOnce
<1> QED
  BY <1>3, <1>4, <1>5, <1>7, <1>8, <1>9 DEF TxInv

-----------------------------------------------------------------------------
(* Everything else reads.                                                  *)

(* The statement a handler runs next has what it takes for granted.        *)
LEMMA RequestOf ==
  ASSUME TxInv, NEW t \in Txns, pc[t] # "idle"
  PROVE  /\ req[t] \in Request
         /\ Stands(pc[t], req[t], journal, withdrawals)
BY DEF TxInv, TypeOK, RequestsStand

(* The statements that keep their locks: going on, or answering.           *)
LEMMA ReadStep ==
  ASSUME TxInv, NEW t \in Txns,
         \/ FindWithdrawal(t) \/ FindRow(t) \/ RecheckWithdrawal(t)
         \/ SumBalance(t) \/ RecheckRow(t) \/ UniqueViolation(t) \/ Abort(t)
  PROVE  TxInv'
<1>1. /\ pc[t] # "idle" /\ ReadOnly
      /\ req[t] \in Request
      /\ Stands(pc[t], req[t], journal, withdrawals)
  BY RequestOf DEF FindWithdrawal, FindRow, RecheckWithdrawal, SumBalance,
                   RecheckRow, UniqueViolation, Abort
<1>2. CASE \E a \in Responses : Answer(t, a)
  BY <1>1, <1>2, AnswerStep
<1>3. ASSUME NEW label \in Labels \ {"idle", "lookup", "enqueue"},
             Goto(t, label), UNCHANGED lock, Ready(t, label),
             label \in {"sum", "relookup", "write"} =>
               pc[t] \in {"sum", "relookup", "write"}
      PROVE  TxInv'
  <2>1. label \in {"sum", "relookup", "write"} =>
          \A w \in ToLock(req[t]) : lock'[w] = t
    BY <1>3 DEF TxInv, LocksHeld
  <2>2. /\ lock' \in [Wallets -> Txns \cup {NoTx}]
        /\ \A w \in Wallets : lock[w] # NoTx => lock'[w] = lock[w]
    BY <1>3 DEF TxInv, TypeOK
  <2> QED
    BY <1>1, <1>3, <2>1, <2>2, GotoStep
<1>4. CASE /\ FindWithdrawal(t) /\ Goto(t, "recheck") /\ UNCHANGED lock
           /\ req[t].kind = "WALLET" => req[t].to # req[t].user
  <2>1. Ready(t, "recheck")
    BY <1>1, <1>4 DEF Ready, Stands, FindWithdrawal
  <2> QED
    BY <1>3, <1>4, <2>1 DEF Labels, InTx
<1>5. CASE FindRow(t) /\ Goto(t, "lock") /\ UNCHANGED lock
  <2>1. Ready(t, "lock")
    BY <1>1, <1>5 DEF Ready, Stands, FindRow, IsWithdrawal
  <2> QED
    BY <1>3, <1>5, <2>1 DEF Labels, InTx
<1>6. CASE RecheckWithdrawal(t) /\ Goto(t, "lock") /\ UNCHANGED lock
  <2>1. Ready(t, "lock")
    BY <1>1, <1>6 DEF Ready, Stands, RecheckWithdrawal
  <2> QED
    BY <1>3, <1>6, <2>1 DEF Labels, InTx
<1>7. CASE /\ SumBalance(t) /\ Goto(t, "write") /\ UNCHANGED lock
           /\ ~ Balance(journal, req[t].user) < req[t].amount
  <2>1. Balance(journal, req[t].user) >= req[t].amount
    BY <1>1, <1>7, BalanceType, RequestTypes DEF TxInv, Summable
  <2>2. Ready(t, "write")
    BY <1>1, <1>7, <2>1 DEF Ready, Stands, SumBalance
  <2> QED
    BY <1>3, <1>7, <2>2 DEF Labels, InTx, SumBalance
<1>8. CASE /\ RecheckRow(t) /\ Goto(t, "write") /\ UNCHANGED lock
           /\ ~ RowPosted(journal, req[t])
  <2>1. Ready(t, "write")
    BY <1>1, <1>8 DEF Ready, Stands, RecheckRow
  <2> QED
    BY <1>3, <1>8, <2>1 DEF Labels, InTx, RecheckRow
<1>9. FindWithdrawal(t) =>
        \/ \E a \in Responses : Answer(t, a)
        \/ /\ Goto(t, "recheck") /\ UNCHANGED lock
           /\ req[t].kind = "WALLET" => req[t].to # req[t].user
  BY DEF FindWithdrawal, Responses
<1>10. FindRow(t) =>
         \/ \E a \in Responses : Answer(t, a)
         \/ Goto(t, "lock") /\ UNCHANGED lock
  BY DEF FindRow, Responses
<1>11. RecheckWithdrawal(t) =>
         \/ \E a \in Responses : Answer(t, a)
         \/ Goto(t, "lock") /\ UNCHANGED lock
  BY DEF RecheckWithdrawal, Responses
<1>12. SumBalance(t) =>
         \/ \E a \in Responses : Answer(t, a)
         \/ /\ Goto(t, "write") /\ UNCHANGED lock
            /\ ~ Balance(journal, req[t].user) < req[t].amount
  BY DEF SumBalance, Responses
<1>13. RecheckRow(t) =>
         \/ \E a \in Responses : Answer(t, a)
         \/ /\ Goto(t, "write") /\ UNCHANGED lock
            /\ ~ RowPosted(journal, req[t])
  BY DEF RecheckRow, Responses
<1>14. UniqueViolation(t) \/ Abort(t) => \E a \in Responses : Answer(t, a)
  BY DEF UniqueViolation, Abort, Responses
<1> QED
  BY <1>2, <1>4, <1>5, <1>6, <1>7, <1>8, <1>9, <1>10, <1>11, <1>12, <1>13, <1>14

(* A wallet row is locked; after the last one the handler holds them all.  *)
LEMMA LockWalletStep ==
  ASSUME TxInv, NEW t \in Txns, LockWallet(t)
  PROVE  TxInv'
<1>1. /\ pc[t] = "lock" /\ ReadOnly
      /\ req[t] \in Request
      /\ Stands("lock", req[t], journal, withdrawals)
  BY RequestOf DEF LockWallet
<1>2. PICK w \in Wallets :
        /\ lock[w] = NoTx
        /\ lock' = [lock EXCEPT ![w] = t]
        /\ IF ToLock(req[t]) \subseteq Held(t) \cup {w}
             THEN Goto(t, IF IsWithdrawal(req[t]) THEN "sum" ELSE "relookup")
             ELSE Goto(t, "lock")
  BY DEF LockWallet
<1>3. /\ lock' \in [Wallets -> Txns \cup {NoTx}]
      /\ \A v \in Wallets : lock[v] # NoTx => lock'[v] = lock[v]
  BY <1>2 DEF TxInv, TypeOK
<1>4. CASE ToLock(req[t]) \subseteq Held(t) \cup {w}
  <2> DEFINE label == IF IsWithdrawal(req[t]) THEN "sum" ELSE "relookup"
  <2>1. Goto(t, label) /\ label \in Labels \ {"idle", "lookup", "enqueue"}
    BY <1>2, <1>4 DEF Labels, InTx
  <2>2. Ready(t, label)
    BY <1>1 DEF Ready, Stands
  <2>3. \A v \in ToLock(req[t]) : lock'[v] = t
    BY <1>2, <1>4, <1>3 DEF TxInv, TypeOK, Held
  <2> HIDE DEF label
  <2> QED
    BY <1>1, <1>3, <2>1, <2>2, <2>3, GotoStep
<1>5. CASE ~ (ToLock(req[t]) \subseteq Held(t) \cup {w})
  <2>1. Goto(t, "lock") /\ Ready(t, "lock")
    BY <1>1, <1>2, <1>5 DEF Ready
  <2>2. "lock" \in Labels \ {"idle", "lookup", "enqueue"}
    BY DEF Labels, InTx
  <2> QED
    BY <1>1, <1>3, <2>1, <2>2, GotoStep
<1> QED
  BY <1>4, <1>5

(* A request arrives: a client's names no row, a job's a row that is there.*)
LEMMA ArriveStep ==
  ASSUME TxInv, NEW t \in Txns, Arrive(t)
  PROVE  TxInv'
<1>1. CASE Receive(t)
  <2>1. PICK r \in Offers : Begin(t, r)
    BY <1>1 DEF Receive
  <2>2. r \in Request /\ r.kind \in {"WALLET", "BANK", "FUND"}
    BY OffersAssumption
  <2>3. OriginalFound(journal, r)
    BY <2>2 DEF OriginalFound
  <2> QED
    BY <2>1, <2>2, <2>3, BeginStep
<1>2. CASE StartCompletion(t)
  <2>1. PICK row \in journal :
          /\ Leg(row) = "funding"
          /\ Begin(t, [kind |-> "COMPLETE", user |-> row.wallet,
                       key |-> row.key[3], to |-> row.wallet,
                       amount |-> row.amount])
    BY <1>2 DEF StartCompletion
  <2> DEFINE r == [kind |-> "COMPLETE", user |-> row.wallet,
                   key |-> row.key[3], to |-> row.wallet,
                   amount |-> row.amount]
  <2>2. row \in Row
    BY DEF TxInv, TypeOK
  <2>3. r \in Request
    BY <2>2 DEF Request, Kinds, Row, RowKey
  <2>4. RowOf(r) = PendingFunding(row.wallet, row.key[3], row.amount)
    BY DEF RowOf
  <2>5. RowOf(r) \in journal \/ Completed(RowOf(r)) \in journal
    BY <2>1, <2>4, ZenonT(40) DEF TxInv, FundingRows
  <2>6. OriginalFound(journal, r)
    BY DEF OriginalFound
  <2>7. Begin(t, r)
    BY <2>1
  <2> HIDE DEF r
  <2> QED
    BY <2>3, <2>5, <2>6, <2>7, BeginStep
<1>3. CASE StartReversal(t)
  <2>1. PICK w \in withdrawals :
          w.kind = "BANK" /\ Begin(t, [w EXCEPT !.kind = "REVERSE"])
    BY <1>3 DEF StartReversal
  <2> DEFINE r == [w EXCEPT !.kind = "REVERSE"]
  <2>2. w \in Request /\ LegsOf(w) \subseteq journal
    BY DEF TxInv, TypeOK, Withdrawal, WithdrawalsAreDebits
  <2>3. /\ r \in Request /\ r.kind = "REVERSE"
        /\ r.user = w.user /\ r.key = w.key /\ r.amount = w.amount
    BY <2>2 DEF Request, Kinds
  <2>4. BankDebit(w.user, w.key, w.amount) \in journal
    BY <2>1, <2>2 DEF LegsOf
  <2>5. Begin(t, r)
    BY <2>1
  <2> HIDE DEF r
  <2>6. OriginalFound(journal, r)
    BY <2>3, <2>4 DEF OriginalFound
  <2> QED
    BY <2>3, <2>5, <2>6, BeginStep
<1> QED
  BY <1>1, <1>2, <1>3 DEF Arrive

(* Every step keeps the invariant.                                         *)
LEMMA TxInvNext == TxInv /\ [Next]_vars => TxInv'
<1> SUFFICES ASSUME TxInv, [Next]_vars
             PROVE  TxInv'
  OBVIOUS
<1>1. CASE UNCHANGED vars
  BY <1>1 DEF vars, TxInv, TypeOK, Summable, FundingRows, LocksHeld, Held,
              RequestsStand, NonNegative, CheckedFundsStillThere, PostedOnce,
              WithdrawalsAreDebits, QueuedAfterCommit
<1>2. ASSUME NEW t \in Txns, Arrive(t)
      PROVE  TxInv'
  BY <1>2, ArriveStep
<1>3. ASSUME NEW t \in Txns, Work(t)
      PROVE  TxInv'
  BY <1>3, ReadStep, LockWalletStep, CommitP2pStep, CommitBankStep,
     CommitRowStep, CommitCompletionStep, EnqueuePayoutStep DEF Work
<1>4. ASSUME NEW t \in Txns, Abort(t)
      PROVE  TxInv'
  BY <1>4, ReadStep
<1> QED
  BY <1>1, <1>2, <1>3, <1>4 DEF Next

(* The invariant holds in every reachable state.                           *)
THEOREM TxInvariant == Spec => []TxInv
BY TxInvInit, TxInvNext, PTL DEF Spec

-----------------------------------------------------------------------------
(* Every state of the interleaved ledger is well typed.                    *)
THEOREM LedgerTxTypeCorrect == Spec => []TypeOK
<1>1. TxInv => TypeOK
  BY DEF TxInv
<1> QED
  BY <1>1, TxInvariant, PTL

(* No interleaving of handlers overdraws a wallet.                         *)
THEOREM RacingDebitsNeverOverdraw == Spec => []NonNegative
<1>1. TxInv => NonNegative
  BY DEF TxInv
<1> QED
  BY <1>1, TxInvariant, PTL

(* The balance a debit was checked against covers it until it is written.  *)
THEOREM CheckedFundsStay == Spec => []CheckedFundsStillThere
<1>1. TxInv => CheckedFundsStillThere
  BY DEF TxInv
<1> QED
  BY <1>1, TxInvariant, PTL

(* Nothing is posted twice by handlers that looked before they locked.     *)
THEOREM EverythingPostedOnce == Spec => []PostedOnce
<1>1. TxInv => PostedOnce
  BY DEF TxInv
<1> QED
  BY <1>1, TxInvariant, PTL

(* Withdrawals and debits answer each other, one withdrawal for each key.  *)
THEOREM WithdrawalsMatchDebits == Spec => []WithdrawalsAreDebits
<1>1. TxInv => WithdrawalsAreDebits
  BY DEF TxInv
<1> QED
  BY <1>1, TxInvariant, PTL

(* A payout is queued only for a committed bank withdrawal.                *)
THEOREM PayoutsFollowCommits == Spec => []QueuedAfterCommit
<1>1. TxInv => QueuedAfterCommit
  BY DEF TxInv
<1> QED
  BY <1>1, TxInvariant, PTL

-----------------------------------------------------------------------------
(* Each statement is a step of the atomic ledger, or leaves it alone.      *)

(* The atomic ledger's names for rows, keys and balances are the same.     *)
LEMMA SameJournal ==
  /\ \A w, k, a : /\ Atomic!PendingFunding(w, k, a) = PendingFunding(w, k, a)
                  /\ Atomic!P2pDebit(w, k, a) = P2pDebit(w, k, a)
                  /\ Atomic!BankDebit(w, k, a) = BankDebit(w, k, a)
                  /\ Atomic!Reversal(w, k, a) = Reversal(w, k, a)
  /\ \A s, d, k, a : Atomic!P2pCredit(s, d, k, a) = P2pCredit(s, d, k, a)
  /\ \A row : Atomic!Completed(row) = Completed(row)
  /\ \A rows, key : Atomic!HasKey(rows, key) <=> HasKey(rows, key)
  /\ \A rows, w : Atomic!Balance(rows, w) = Balance(rows, w)
<1>1. \A rows, w : Atomic!Balance(rows, w) = Balance(rows, w)
  <2>1. \A rows : Atomic!Kobo(rows) = Kobo(rows)
    BY Zenon DEF Atomic!Kobo, Kobo
  <2>2. \A rows : Atomic!SumAmount(rows) = SumAmount(rows)
    <3>1. \A S : Atomic!Cardinality(S) = Cardinality(S)
      BY Zenon DEF Atomic!Cardinality, Cardinality
    <3> QED
      BY <2>1, <3>1, Zenon DEF Atomic!SumAmount, SumAmount
  <2>3. \A rows, w, type : Atomic!Settled(rows, w, type) = Settled(rows, w, type)
    BY Zenon DEF Atomic!Settled, Settled
  <2> QED
    BY <2>2, <2>3, Zenon DEF Atomic!Balance, Balance
<1>2. \A rows, key : Atomic!HasKey(rows, key) <=> HasKey(rows, key)
  BY DEF Atomic!HasKey, HasKey
<1>3. /\ \A w, k, a : /\ Atomic!PendingFunding(w, k, a) = PendingFunding(w, k, a)
                      /\ Atomic!P2pDebit(w, k, a) = P2pDebit(w, k, a)
                      /\ Atomic!BankDebit(w, k, a) = BankDebit(w, k, a)
                      /\ Atomic!Reversal(w, k, a) = Reversal(w, k, a)
      /\ \A s, d, k, a : Atomic!P2pCredit(s, d, k, a) = P2pCredit(s, d, k, a)
  BY DEF Atomic!PendingFunding, Atomic!P2pDebit, Atomic!BankDebit,
         Atomic!Reversal, Atomic!P2pCredit, PendingFunding, P2pDebit,
         BankDebit, Reversal, P2pCredit
<1>4. \A row : Atomic!Completed(row) = Completed(row)
  BY DEF Atomic!Completed, Completed
<1> QED
  BY <1>1, <1>2, <1>3, <1>4

(* What no withdrawal has used as its key, no debit has.                   *)
LEMMA FreeKeyHasNoDebit ==
  ASSUME TxInv, NEW r \in Request, ~ KeyUsed(r)
  PROVE  /\ ~ HasKey(journal, <<"p2p-debit", r.user, r.key>>)
         /\ ~ HasKey(journal, <<"bank-debit", r.user, r.key>>)
<1> SUFFICES ASSUME NEW leg \in {"p2p-debit", "bank-debit"},
                    NEW row \in journal, row.key = <<leg, r.user, r.key>>
             PROVE  FALSE
  BY DEF HasKey
<1>1. PICK w \in withdrawals : row \in LegsOf(w)
  BY DEF TxInv, WithdrawalsAreDebits, Leg
<1>2. w \in Request
  BY DEF TxInv, TypeOK, Withdrawal
<1>3. SameKey(w, r)
  BY <1>1, <1>2, LegsTypes DEF SameKey
<1> QED
  BY <1>3 DEF KeyUsed

(* The commit of a transfer moves the money in one step.                   *)
LEMMA CommitP2pMoves ==
  ASSUME TxInv, NEW t \in Txns, CommitP2p(t)
  PROVE  Atomic!TransferP2p(req[t].user, req[t].to, req[t].key, req[t].amount)
<1> DEFINE r == req[t]
<1>1. /\ pc[t] = "write" /\ r.kind = "WALLET" /\ ~ KeyUsed(r)
      /\ journal' = journal \cup LegsOf(r)
  BY DEF CommitP2p
<1>2. r \in Request /\ r.user # r.to
  BY <1>1, RequestOf DEF Stands
<1>3. Balance(journal, r.user) >= r.amount
  BY <1>1 DEF TxInv, CheckedFundsStillThere, IsWithdrawal
<1>4. /\ ~ HasKey(journal, <<"p2p-debit", r.user, r.key>>)
      /\ ~ HasKey(journal, <<"bank-debit", r.user, r.key>>)
  BY <1>1, <1>2, FreeKeyHasNoDebit
<1>5. journal' = journal \cup {P2pDebit(r.user, r.key, r.amount),
                               P2pCredit(r.user, r.to, r.key, r.amount)}
  BY <1>1 DEF LegsOf
<1> QED
  BY <1>2, <1>3, <1>4, <1>5, SameJournal
     DEF Atomic!TransferP2p, Atomic!WithdrawalKeyFree

(* The commit of a bank withdrawal debits the wallet in one step.          *)
LEMMA CommitBankDebits ==
  ASSUME TxInv, NEW t \in Txns, CommitBank(t)
  PROVE  Atomic!DebitBank(req[t].user, req[t].key, req[t].amount)
<1> DEFINE r == req[t]
<1>1. /\ pc[t] = "write" /\ r.kind = "BANK" /\ ~ KeyUsed(r)
      /\ journal' = journal \cup LegsOf(r)
  BY DEF CommitBank
<1>2. r \in Request
  BY <1>1, RequestOf
<1>3. Balance(journal, r.user) >= r.amount
  BY <1>1 DEF TxInv, CheckedFundsStillThere, IsWithdrawal
<1>4. /\ ~ HasKey(journal, <<"p2p-debit", r.user, r.key>>)
      /\ ~ HasKey(journal, <<"bank-debit", r.user, r.key>>)
  BY <1>1, <1>2, FreeKeyHasNoDebit
<1>5. journal' = journal \cup {BankDebit(r.user, r.key, r.amount)}
  BY <1>1 DEF LegsOf
<1> QED
  BY <1>3, <1>4, <1>5, SameJournal DEF Atomic!DebitBank, Atomic!WithdrawalKeyFree

(* The insert of a row announces a funding, or reverses a debit that is    *)
(* in the journal.                                                         *)
LEMMA CommitRowPosts ==
  ASSUME TxInv, NEW t \in Txns, CommitRow(t)
  PROVE  \/ Atomic!PostPending(req[t].user, req[t].key, req[t].amount)
         \/ Atomic!PostReversal(req[t].user, req[t].key, req[t].amount)
<1> DEFINE r == req[t]
<1>1. /\ pc[t] = "write" /\ r.kind \in {"FUND", "REVERSE"}
      /\ ~ HasKey(journal, RowOf(r).key)
      /\ journal' = journal \cup {RowOf(r)}
  BY DEF CommitRow
<1>2. CASE r.kind = "FUND"
  <2>1. RowOf(r) = PendingFunding(r.user, r.key, r.amount)
    BY <1>2 DEF RowOf
  <2>2. RowOf(r).key = <<"funding", r.user, r.key>>
    BY <2>1 DEF PendingFunding
  <2> QED
    BY <1>1, <2>1, <2>2, SameJournal DEF Atomic!PostPending
<1>3. CASE r.kind = "REVERSE"
  <2>1. RowOf(r) = Reversal(r.user, r.key, r.amount)
    BY <1>3 DEF RowOf
  <2>2. RowOf(r).key = <<"reversal", r.user, r.key>>
    BY <2>1 DEF Reversal
  <2>3. BankDebit(r.user, r.key, r.amount) \in journal
    BY <1>1, <1>3, RequestOf DEF Stands, OriginalFound
  <2> QED
    BY <1>1, <2>1, <2>2, <2>3, SameJournal DEF Atomic!PostReversal
<1> QED
  BY <1>1, <1>2, <1>3

(* The update of a pending funding completes it: it is still pending.      *)
LEMMA CommitCompletionCredits ==
  ASSUME TxInv, NEW t \in Txns, CommitCompletion(t)
  PROVE  Atomic!CompleteCredit(req[t].user, req[t].key, req[t].amount)
<1> DEFINE r == req[t]
<1>1. /\ pc[t] = "write" /\ r.kind = "COMPLETE"
      /\ journal' = (journal \ {RowOf(r)}) \cup {Completed(RowOf(r))}
  BY DEF CommitCompletion
<1>2. RowOf(r) = PendingFunding(r.user, r.key, r.amount)
  BY <1>1 DEF RowOf
<1>3. RowOf(r) \in journal \/ Completed(RowOf(r)) \in journal
  BY <1>1, RequestOf DEF Stands
<1>4. Completed(RowOf(r)) \notin journal
  BY <1>1 DEF TxInv, PostedOnce, RowPosted, IsWithdrawal
<1> QED
  BY <1>1, <1>2, <1>3, <1>4, SameJournal DEF Atomic!CompleteCredit

(* Every other statement leaves the journal as it is.                      *)
LEMMA OthersKeepJournal ==
  ASSUME NEW t \in Txns,
         \/ Arrive(t) \/ Abort(t)
         \/ FindWithdrawal(t) \/ FindRow(t) \/ RecheckWithdrawal(t)
         \/ LockWallet(t) \/ SumBalance(t) \/ RecheckRow(t)
         \/ UniqueViolation(t) \/ EnqueuePayout(t)
  PROVE  UNCHANGED journal
<1>1. Arrive(t) => UNCHANGED journal
  BY DEF Arrive, Receive, StartCompletion, StartReversal, Begin
<1> QED
  BY <1>1 DEF Abort, FindWithdrawal, FindRow, RecheckWithdrawal, LockWallet,
              SumBalance, RecheckRow, UniqueViolation, EnqueuePayout, ReadOnly

(* A step of the interleaved ledger is a step of the atomic one.           *)
LEMMA StepIsAtomic ==
  ASSUME TxInv, [Next]_vars
  PROVE  [Atomic!Next]_journal
<1>1. CASE UNCHANGED vars
  BY <1>1 DEF vars
<1>2. ASSUME NEW t \in Txns, pc[t] # "idle",
             \/ Atomic!TransferP2p(req[t].user, req[t].to, req[t].key, req[t].amount)
             \/ Atomic!DebitBank(req[t].user, req[t].key, req[t].amount)
             \/ Atomic!PostPending(req[t].user, req[t].key, req[t].amount)
             \/ Atomic!PostReversal(req[t].user, req[t].key, req[t].amount)
             \/ Atomic!CompleteCredit(req[t].user, req[t].key, req[t].amount)
      PROVE  Atomic!Next
  <2>1. req[t] \in Request
    BY <1>2, RequestOf
  <2>2. /\ req[t].user \in Wallets /\ req[t].to \in Wallets
        /\ req[t].key \in Keys /\ req[t].amount \in Amounts
    BY <2>1, RequestTypes
  <2> QED
    BY <1>2, <2>2, Zenon DEF Atomic!Next
<1>3. ASSUME NEW t \in Txns, CommitP2p(t) \/ CommitBank(t)
      PROVE  Atomic!Next
  <2>1. pc[t] # "idle"
    BY <1>3 DEF CommitP2p, CommitBank
  <2> QED
    BY <1>2, <1>3, <2>1, CommitP2pMoves, CommitBankDebits
<1>4. ASSUME NEW t \in Txns, CommitRow(t) \/ CommitCompletion(t)
      PROVE  Atomic!Next
  <2>1. pc[t] # "idle"
    BY <1>4 DEF CommitRow, CommitCompletion
  <2> QED
    BY <1>2, <1>4, <2>1, CommitRowPosts, CommitCompletionCredits
<1> QED
  BY <1>1, <1>3, <1>4, OthersKeepJournal DEF Next, Work

(* The handlers together, statement by statement, are one atomic ledger:   *)
(* whatever is proved of the journal there holds of the program's.         *)
THEOREM StatementsAreAtomic == Spec => ImplementsLedger
<1>1. Init => Atomic!Init
  BY DEF Init, Atomic!Init
<1> QED
  BY <1>1, StepIsAtomic, TxInvariant, PTL DEF Spec, ImplementsLedger, Atomic!Spec

-----------------------------------------------------------------------------
(* The rows a handler still has to lock come after those it holds.  So a   *)
(* handler waits for one that, if it waits too, wants a larger row, and    *)
(* of finitely many handlers some wants no smaller row than the others:    *)
(* there is no deadlock.                                                   *)

(* A handler locks its rows in the order of their ids, and holds none      *)
(* outside its transaction.                                                *)
Ordered(t) ==
  \A w \in Held(t) :
    /\ pc[t] \in {"lock", "sum", "relookup", "write"}
    /\ pc[t] = "lock" => \A v \in ToLock(req[t]) \ Held(t) : w < v

LockOrder == \A t \in Txns : Ordered(t)

LEMMA LockOrderInit == Init => LockOrder
BY NoTxAssumption DEF Init, LockOrder, Ordered, Held

-----------------------------------------------------------------------------
(* A step of one handler leaves the rows of the others alone.              *)
LEMMA OthersStayOrdered ==
  ASSUME LockOrder, NEW t \in Txns, Ordered(t)',
         \A u \in Txns \ {t} : pc'[u] = pc[u] /\ req'[u] = req[u],
         \A w \in Wallets, u \in Txns \ {t} : lock'[w] = u <=> lock[w] = u
  PROVE  LockOrder'
<1>1. ASSUME NEW u \in Txns \ {t}
      PROVE  Ordered(u)'
  <2>1. Held(u)' = Held(u)
    BY DEF Held
  <2>2. pc'[u] = pc[u] /\ req'[u] = req[u]
    OBVIOUS
  <2>3. Ordered(u)
    BY DEF LockOrder
  <2> QED
    BY <2>1, <2>2, <2>3 DEF Ordered, ToLock
<1> QED
  BY <1>1 DEF LockOrder

(* A transaction that ends holds no row.                                   *)
LEMMA ReleaseOrdered ==
  ASSUME TxInv, LockOrder, NEW t \in Txns, lock' = Released(t),
         \A u \in Txns \ {t} : pc'[u] = pc[u] /\ req'[u] = req[u]
  PROVE  LockOrder'
<1>1. /\ \A w \in Wallets : lock'[w] # t
      /\ \A w \in Wallets, u \in Txns \ {t} : lock'[w] = u <=> lock[w] = u
  BY NoTxAssumption DEF Released
<1>2. Ordered(t)'
  BY <1>1 DEF Ordered, Held
<1> QED
  BY <1>1, <1>2, OthersStayOrdered

(* A handler that has no row yet, or is past the last one, moves on.       *)
LEMMA MoveOrdered ==
  ASSUME TxInv, LockOrder, NEW t \in Txns, UNCHANGED lock,
         \A u \in Txns \ {t} : pc'[u] = pc[u] /\ req'[u] = req[u],
         \/ pc[t] \in {"idle", "lookup", "recheck"}
         \/ pc'[t] \in {"sum", "relookup", "write"}
  PROVE  LockOrder'
<1>1. Held(t)' = Held(t) /\ Ordered(t)
  BY DEF Held, LockOrder
<1>2. Ordered(t)'
  BY <1>1 DEF Ordered
<1> QED
  BY <1>2, OthersStayOrdered

(* The next row is the smallest that is missing.                           *)
LEMMA LockOrdered ==
  ASSUME TxInv, LockOrder, NEW t \in Txns, LockWallet(t)
  PROVE  LockOrder'
<1>1. PICK w \in Wallets :
        /\ NextToLock(t, w) /\ lock[w] = NoTx
        /\ lock' = [lock EXCEPT ![w] = t]
        /\ Goto(t, IF ToLock(req[t]) \subseteq Held(t) \cup {w}
                     THEN IF IsWithdrawal(req[t]) THEN "sum" ELSE "relookup"
                     ELSE "lock")
  BY DEF LockWallet
<1>2. /\ pc \in [Txns -> Labels] /\ lock \in [Wallets -> Txns \cup {NoTx}]
      /\ pc[t] = "lock" /\ req[t] \in Request
  BY DEF TxInv, TypeOK, LockWallet
<1>3. /\ \A u \in Txns \ {t} : pc'[u] = pc[u] /\ req'[u] = req[u]
      /\ pc'[t] \in {"lock", "sum", "relookup"} /\ req' = req
  BY <1>1, <1>2 DEF Goto
<1>4. /\ \A v \in Wallets, u \in Txns \ {t} : lock'[v] = u <=> lock[v] = u
      /\ Held(t)' = Held(t) \cup {w}
  BY <1>1, <1>2, NoTxAssumption DEF Held
<1>5. ToLock(req[t]) \subseteq Nat /\ w \in Nat /\ Held(t) \subseteq Nat
  BY <1>2, RequestTypes, WalletsAssumption DEF ToLock, Held
<1>6. /\ \A v \in ToLock(req[t]) \ Held(t) : w <= v
      /\ \A x \in Held(t), v \in ToLock(req[t]) \ Held(t) : x < v
  BY <1>1, <1>2 DEF NextToLock, LockOrder, Ordered
<1>7. \A x \in Held(t) \cup {w}, v \in ToLock(req[t]) \ (Held(t) \cup {w}) : x < v
  BY <1>5, <1>6
<1>8. Ordered(t)'
  BY <1>3, <1>4, <1>7 DEF Ordered, ToLock
<1> QED
  BY <1>3, <1>4, <1>8, OthersStayOrdered

LEMMA LockOrderNext == TxInv /\ LockOrder /\ [Next]_vars => LockOrder'
<1> SUFFICES ASSUME TxInv, LockOrder, [Next]_vars
             PROVE  LockOrder'
  OBVIOUS
<1> USE DEF TxInv, TypeOK
<1>1. CASE UNCHANGED vars
  BY <1>1 DEF vars, LockOrder, Ordered, Held
<1>2. ASSUME NEW t \in Txns, NEW a, Answer(t, a)
      PROVE  LockOrder'
  <2>1. /\ lock' = Released(t)
        /\ \A u \in Txns \ {t} : pc'[u] = pc[u] /\ req'[u] = req[u]
    BY <1>2 DEF Answer
  <2> QED
    BY <2>1, ReleaseOrdered
<1>3. ASSUME NEW t \in Txns, NEW r, Begin(t, r)
      PROVE  LockOrder'
  <2>1. /\ UNCHANGED lock /\ pc[t] = "idle"
        /\ \A u \in Txns \ {t} : pc'[u] = pc[u] /\ req'[u] = req[u]
    BY <1>3 DEF Begin
  <2> QED
    BY <2>1, MoveOrdered
<1>4. ASSUME NEW t \in Txns, NEW label, Goto(t, label), UNCHANGED lock,
             pc[t] \in {"lookup", "recheck"} \/ label = "write"
      PROVE  LockOrder'
  <2>1. /\ pc'[t] = label
        /\ \A u \in Txns \ {t} : pc'[u] = pc[u] /\ req'[u] = req[u]
    BY <1>4 DEF Goto
  <2> QED
    BY <1>4, <2>1, MoveOrdered
<1>5. ASSUME NEW t \in Txns, CommitBank(t)
      PROVE  LockOrder'
  <2>1. /\ lock' = Released(t)
        /\ \A u \in Txns \ {t} : pc'[u] = pc[u] /\ req'[u] = req[u]
    BY <1>5 DEF CommitBank, Goto
  <2> QED
    BY <2>1, ReleaseOrdered
<1>6. ASSUME NEW t \in Txns, Arrive(t)
      PROVE  LockOrder'
  BY <1>3, <1>6 DEF Arrive, Receive, StartCompletion, StartReversal
<1>7. ASSUME NEW t \in Txns, Work(t)
      PROVE  LockOrder'
  <2>1. CASE FindWithdrawal(t) \/ FindRow(t) \/ RecheckWithdrawal(t)
    BY <2>1, <1>2, <1>4 DEF FindWithdrawal, FindRow, RecheckWithdrawal
  <2>2. CASE SumBalance(t) \/ RecheckRow(t)
    BY <2>2, <1>2, <1>4 DEF SumBalance, RecheckRow
  <2>3. CASE CommitP2p(t) \/ CommitRow(t) \/ CommitCompletion(t)
              \/ UniqueViolation(t) \/ EnqueuePayout(t)
    BY <2>3, <1>2 DEF CommitP2p, CommitRow, CommitCompletion, UniqueViolation,
                      EnqueuePayout
  <2> QED
    BY <1>7, <2>1, <2>2, <2>3, <1>5, LockOrdered DEF Work
<1>8. ASSUME NEW t \in Txns, Abort(t)
      PROVE  LockOrder'
  BY <1>2, <1>8 DEF Abort
<1> QED
  BY <1>1, <1>6, <1>7, <1>8 DEF Next

-----------------------------------------------------------------------------
(* Of a finite set of numbered handlers, some has none with a larger       *)
(* number.                                                                 *)
LEMMA SomeLargest ==
  ASSUME NEW S, IsFiniteSet(S), S # {}, NEW want \in [S -> Nat]
  PROVE  \E t \in S : \A u \in S : want[u] <= want[t]
<1> DEFINE Above(t) == {u \in S : want[u] > want[t]}
           T == {Above(t) : t \in S}
<1>1. IsWellFoundedOn(StrictSubsetOrdering(S), SUBSET S)
  BY FS_StrictSubsetOrderingWellFounded, FS_FiniteSubsetsOfFinite
<1>2. T \subseteq SUBSET S /\ T # {}
  <2>1. PICK t \in S : TRUE
    OBVIOUS
  <2>2. Above(t) \in T
    OBVIOUS
  <2>3. \A u \in S : Above(u) \in SUBSET S
    OBVIOUS
  <2> HIDE DEF Above
  <2> QED
    BY <2>2, <2>3
<1>3. PICK A \in T : \A B \in T : <<B, A>> \notin StrictSubsetOrdering(S)
  BY <1>1, <1>2, WFMin
<1>4. PICK t \in S : A = Above(t)
  OBVIOUS
<1>5. ASSUME NEW u \in S, want[u] > want[t]
      PROVE  FALSE
  <2>1. Above(u) \subseteq Above(t)
    BY <1>5
  <2>2. u \in Above(t) /\ u \notin Above(u)
    BY <1>5
  <2>3. <<Above(u), A>> \in StrictSubsetOrdering(S)
    BY <1>4, <2>1, <2>2 DEF StrictSubsetOrdering
  <2> QED
    BY <1>3, <2>3
<1> QED
  BY <1>5

(* The order of the locks leaves no circle of waits.                       *)
LEMMA OrderPreventsDeadlock == TxInv /\ LockOrder => NoDeadlock
<1> SUFFICES ASSUME TxInv, LockOrder,
                    NEW S \in (SUBSET Txns) \ {{}},
                    \A t \in S : \E u \in S : WaitsFor(t, u)
             PROVE  FALSE
  BY DEF NoDeadlock
<1> DEFINE Wanted(t, w) == pc[t] = "lock" /\ NextToLock(t, w) /\ \E u \in S : lock[w] = u
           want == [t \in S |-> CHOOSE w \in Wallets : Wanted(t, w)]
<1>1. IsFiniteSet(S)
  BY TxnsAssumption, FS_Subset
<1>2. \A t \in S : want[t] \in Wallets /\ Wanted(t, want[t])
  <2>1. \A t \in S : \E w \in Wallets : Wanted(t, w)
    BY DEF WaitsFor
  <2> HIDE DEF Wanted
  <2>2. \A t \in S : want[t] = CHOOSE w \in Wallets : Wanted(t, w)
    OBVIOUS
  <2> QED
    BY <2>1, <2>2
<1> HIDE DEF want
<1>3. want \in [S -> Nat]
  BY <1>2, WalletsAssumption DEF want
<1>4. PICK t \in S : \A u \in S : want[u] <= want[t]
  BY <1>1, <1>3, SomeLargest
<1>5. PICK u \in S : lock[want[t]] = u
  BY <1>2
<1>6. want[t] \in Held(u)
  BY <1>2, <1>5 DEF Held
<1>7. pc[u] = "lock" /\ want[u] \in ToLock(req[u]) \ Held(u)
  BY <1>2 DEF NextToLock
<1>8. want[t] < want[u]
  BY <1>6, <1>7 DEF LockOrder, Ordered
<1> QED
  BY <1>3, <1>4, <1>8

(* However the requests of any number of handlers interleave, some handler *)
(* of any set of them does not wait for the others (sortWalletIds).        *)
THEOREM HandlersNeverDeadlock == Spec => []NoDeadlock
<1>1. Spec => []LockOrder
  BY TxInvariant, LockOrderInit, LockOrderNext, PTL DEF Spec
<1> QED
  BY <1>1, TxInvariant, OrderPreventsDeadlock, PTL

-----------------------------------------------------------------------------
(* What was proved of the atomic ledger holds of the handlers' journal.     *)
Proved == INSTANCE LedgerProofs

(* The names for rows, keys and balances are the same again.               *)
LEMMA SameRows ==
  /\ \A w, k, a : /\ Proved!PendingFunding(w, k, a) = PendingFunding(w, k, a)
                  /\ Proved!P2pDebit(w, k, a) = P2pDebit(w, k, a)
                  /\ Proved!BankDebit(w, k, a) = BankDebit(w, k, a)
                  /\ Proved!Reversal(w, k, a) = Reversal(w, k, a)
  /\ \A s, d, k, a : Proved!P2pCredit(s, d, k, a) = P2pCredit(s, d, k, a)
  /\ \A row : Proved!Completed(row) = Completed(row)
  /\ \A rows, key : Proved!HasKey(rows, key) <=> HasKey(rows, key)
  /\ \A rows, w : Proved!Balance(rows, w) = Balance(rows, w)
<1>1. \A rows, w : Proved!Balance(rows, w) = Balance(rows, w)
  <2>1. \A rows : Proved!Kobo(rows) = Kobo(rows)
    BY Zenon DEF Proved!Kobo, Kobo
  <2>2. \A rows : Proved!SumAmount(rows) = SumAmount(rows)
    <3>1. \A S : Proved!Cardinality(S) = Cardinality(S)
      BY Zenon DEF Proved!Cardinality, Cardinality
    <3> QED
      BY <2>1, <3>1, Zenon DEF Proved!SumAmount, SumAmount
  <2>3. \A rows, w, type : Proved!Settled(rows, w, type) = Settled(rows, w, type)
    BY Zenon DEF Proved!Settled, Settled
  <2> QED
    BY <2>2, <2>3, Zenon DEF Proved!Balance, Balance
<1>2. \A rows, key : Proved!HasKey(rows, key) <=> HasKey(rows, key)
  BY DEF Proved!HasKey, HasKey
<1>3. /\ \A w, k, a : /\ Proved!PendingFunding(w, k, a) = PendingFunding(w, k, a)
                      /\ Proved!P2pDebit(w, k, a) = P2pDebit(w, k, a)
                      /\ Proved!BankDebit(w, k, a) = BankDebit(w, k, a)
                      /\ Proved!Reversal(w, k, a) = Reversal(w, k, a)
      /\ \A s, d, k, a : Proved!P2pCredit(s, d, k, a) = P2pCredit(s, d, k, a)
  BY DEF Proved!PendingFunding, Proved!P2pDebit, Proved!BankDebit,
         Proved!Reversal, Proved!P2pCredit, PendingFunding, P2pDebit,
         BankDebit, Reversal, P2pCredit
<1>4. \A row : Proved!Completed(row) = Completed(row)
  BY DEF Proved!Completed, Completed
<1> QED
  BY <1>1, <1>2, <1>3, <1>4

(* The handlers take steps of the ledger whose theorems are cited.         *)
LEMMA HandlersAreLedger == Spec => Proved!Spec
<1>1. Atomic!Init => Proved!Init
  BY DEF Atomic!Init, Proved!Init
<1>2. ASSUME NEW w \in Wallets, NEW k \in Keys, NEW a \in Amounts
      PROVE  /\ Atomic!PostPending(w, k, a) => Proved!PostPending(w, k, a)
             /\ Atomic!CompleteCredit(w, k, a) => Proved!CompleteCredit(w, k, a)
             /\ \A d \in Wallets :
                  Atomic!TransferP2p(w, d, k, a) => Proved!TransferP2p(w, d, k, a)
             /\ Atomic!DebitBank(w, k, a) => Proved!DebitBank(w, k, a)
             /\ Atomic!PostReversal(w, k, a) => Proved!PostReversal(w, k, a)
  <2>1. Atomic!PostPending(w, k, a) => Proved!PostPending(w, k, a)
    BY SameJournal, SameRows DEF Atomic!PostPending, Proved!PostPending
  <2>2. Atomic!CompleteCredit(w, k, a) => Proved!CompleteCredit(w, k, a)
    BY SameJournal, SameRows DEF Atomic!CompleteCredit, Proved!CompleteCredit
  <2>3. Atomic!WithdrawalKeyFree(w, k) => Proved!WithdrawalKeyFree(w, k)
    BY SameJournal, SameRows DEF Atomic!WithdrawalKeyFree, Proved!WithdrawalKeyFree
  <2>4. ASSUME NEW d \in Wallets, Atomic!TransferP2p(w, d, k, a)
        PROVE  Proved!TransferP2p(w, d, k, a)
    BY <2>3, <2>4, SameJournal, SameRows DEF Atomic!TransferP2p, Proved!TransferP2p
  <2>5. Atomic!DebitBank(w, k, a) => Proved!DebitBank(w, k, a)
    BY <2>3, SameJournal, SameRows DEF Atomic!DebitBank, Proved!DebitBank
  <2>6. Atomic!PostReversal(w, k, a) => Proved!PostReversal(w, k, a)
    BY SameJournal, SameRows DEF Atomic!PostReversal, Proved!PostReversal
  <2> QED
    BY <2>1, <2>2, <2>4, <2>5, <2>6
<1>3. [Atomic!Next]_journal => [Proved!Next]_journal
  BY <1>2 DEF Atomic!Next, Proved!Next
<1> QED
  BY <1>1, <1>3, StatementsAreAtomic, PTL DEF ImplementsLedger, Atomic!Spec, Proved!Spec

(* However the statements of the handlers interleave, abort and are tried  *)
(* again, no money is made or lost: executeP2p and executeBankAccept,      *)
(* postPending, completeSuccessful and postReversal.                       *)
THEOREM StatementsConserveMoney == Spec => []Proved!MoneyConserved
BY HandlersAreLedger, Proved!MoneyAlwaysConserved, WalletsAssumption,
   AmountsAssumption, PTL

(* No transfer is committed with one leg, and no reversal without a debit. *)
THEOREM StatementsPairLegs == Spec => []Proved!LegsPaired
BY HandlersAreLedger, Proved!LegsAlwaysPaired, WalletsAssumption,
   AmountsAssumption, PTL

(* No handler removes or changes a committed row, but to complete it.      *)
THEOREM StatementsOnlyAppend == Spec => Proved!AppendOnly
BY HandlersAreLedger, Proved!JournalAppendOnly, WalletsAssumption,
   AmountsAssumption, PTL

(* The account holders see stored balances, each changed in one step.      *)
THEOREM StatementsKeepBooks == Spec => Proved!ImplementsAccounts
BY HandlersAreLedger, Proved!SumsAreBalances, WalletsAssumption,
   AmountsAssumption, PTL
=============================================================================
