---------------------------- MODULE LedgerProofs ----------------------------
(***************************************************************************)
(* The ledger's safety, for any wallets, keys and amounts.                 *)
(***************************************************************************)
EXTENDS Ledger, JournalLemmas

(* The journal has finitely many rows, of finite amounts: a sum over it is *)
(* a number.                                                               *)
Summable == IsFiniteSet(Kobo(journal))

(* The inductive invariant.  NonNegative needs to know that sums are       *)
(* numbers, and TypeOK that a row's amount is one.                         *)
LedgerInv == TypeOK /\ Summable /\ NonNegative

-----------------------------------------------------------------------------
(* The empty journal satisfies the invariant.                              *)
LEMMA LedgerInvInit == Init => LedgerInv
<1> SUFFICES ASSUME Init PROVE LedgerInv
  OBVIOUS
<1>1. TypeOK
  BY DEF Init, TypeOK
<1>2. Kobo({}) = {}
  BY DEF Kobo
<1>3. Summable
  BY <1>2, FS_EmptySet, Zenon DEF Init, Summable
<1>4. NonNegative
  <2> SUFFICES ASSUME NEW w \in Wallets PROVE Balance(journal, w) >= 0
    BY DEF NonNegative
  <2>1. \A type : Settled(journal, w, type) = {}
    BY DEF Init, Settled
  <2>2. SumAmount({}) = 0
    BY <1>2, FS_EmptySet, Zenon DEF SumAmount
  <2>3. SumAmount(Settled(journal, w, "CREDIT")) = 0
    BY <2>1, <2>2, Zenon
  <2>4. SumAmount(Settled(journal, w, "DEBIT")) = 0
    BY <2>1, <2>2, Zenon
  <2> QED
    BY <2>3, <2>4 DEF Balance
<1> QED
  BY <1>1, <1>3, <1>4 DEF LedgerInv

(* Every operation keeps the invariant.                                    *)
LEMMA LedgerInvStep == LedgerInv /\ [Next]_journal => LedgerInv'
<1> SUFFICES ASSUME LedgerInv, [Next]_journal PROVE LedgerInv'
  OBVIOUS
<1>0. /\ journal \subseteq Row
      /\ IsFiniteSet(Kobo(journal))
      /\ \A w \in Wallets : Balance(journal, w) >= 0
  BY DEF LedgerInv, TypeOK, Summable, NonNegative
<1>q. ASSUME /\ journal' \subseteq Row
             /\ IsFiniteSet(Kobo(journal'))
             /\ \A w \in Wallets : Balance(journal', w) >= 0
      PROVE  LedgerInv'
  BY <1>q DEF LedgerInv, TypeOK, Summable, NonNegative
<1>1. CASE UNCHANGED journal
  <2>1. journal' = journal
    BY <1>1
  <2> QED
    BY <1>0, <1>q, <2>1
<1>2. ASSUME NEW w \in Wallets, NEW k \in Keys, NEW a \in Amounts,
             PostPending(w, k, a)
      PROVE  LedgerInv'
  <2> DEFINE r == PendingFunding(w, k, a)
  <2>1. r \in Row /\ r.status # "SUCCESSFUL"
    BY RowTypes DEF PendingFunding
  <2>2. journal' = journal \cup {r}
    BY <1>2 DEF PostPending
  <2> HIDE DEF r
  <2>3. journal \cup {r} \subseteq Row /\ IsFiniteSet(Kobo(journal \cup {r}))
    BY <1>0, <2>1, AddedRow
  <2>4. \A v \in Wallets : Balance(journal \cup {r}, v) >= 0
    BY <1>0, <2>1, CreditKeepsNonNegative
  <2> QED
    BY <1>q, <2>2, <2>3, <2>4
<1>3. ASSUME NEW w \in Wallets, NEW k \in Keys, NEW a \in Amounts,
             CompleteCredit(w, k, a)
      PROVE  LedgerInv'
  <2> DEFINE p == PendingFunding(w, k, a)
             c == Completed(p)
             R == journal \ {p}
  <2>1. /\ p.status # "SUCCESSFUL"
        /\ c \in Row /\ c.type = "CREDIT"
    BY RowTypes DEF PendingFunding, Completed
  <2>2. journal' = R \cup {c}
    BY <1>3 DEF CompleteCredit
  <2> HIDE DEF p, c
  <2>3. R \subseteq Row /\ R \subseteq journal
    BY <1>0
  <2>4. IsFiniteSet(Kobo(R))
    BY <1>0, <2>3, SumOfPart
  <2>5. \A v \in Wallets : Balance(R, v) >= 0
    <3>1. \A v : Balance(journal \ {p}, v) = Balance(journal, v)
      BY <2>1, BalanceOfOthers
    <3> QED
      BY <1>0, <3>1
  <2> HIDE DEF R
  <2>6. R \cup {c} \subseteq Row /\ IsFiniteSet(Kobo(R \cup {c}))
    BY <2>1, <2>3, <2>4, AddedRow
  <2>7. \A v \in Wallets : Balance(R \cup {c}, v) >= 0
    BY <2>1, <2>4, <2>5, CreditKeepsNonNegative
  <2> QED
    BY <1>q, <2>2, <2>6, <2>7
<1>4. ASSUME NEW s \in Wallets, NEW d \in Wallets, NEW k \in Keys,
             NEW a \in Amounts, TransferP2p(s, d, k, a)
      PROVE  LedgerInv'
  <2> DEFINE b == P2pDebit(s, k, a)
             c == P2pCredit(s, d, k, a)
             R == journal \cup {b}
  <2>1. /\ b \in Row /\ b.status = "SUCCESSFUL" /\ b.type = "DEBIT"
        /\ b.wallet = s /\ b.amount = a
        /\ c \in Row /\ c.type = "CREDIT"
    BY RowTypes DEF P2pDebit, P2pCredit
  <2>2. journal' = R \cup {c}
    BY <1>4 DEF TransferP2p
  <2>3. b \notin journal
    BY <1>4 DEF TransferP2p, WithdrawalKeyFree, HasKey, P2pDebit
  <2>4. Balance(journal, b.wallet) >= b.amount
    BY <1>4, <2>1 DEF TransferP2p
  <2> HIDE DEF b, c
  <2>5. R \subseteq Row /\ IsFiniteSet(Kobo(R))
    BY <1>0, <2>1, AddedRow
  <2>6. \A v \in Wallets : Balance(R, v) >= 0
    BY <1>0, <2>1, <2>3, <2>4, CoveredDebitKeepsNonNegative
  <2> HIDE DEF R
  <2>7. R \cup {c} \subseteq Row /\ IsFiniteSet(Kobo(R \cup {c}))
    BY <2>1, <2>5, AddedRow
  <2>8. \A v \in Wallets : Balance(R \cup {c}, v) >= 0
    BY <2>1, <2>5, <2>6, CreditKeepsNonNegative
  <2> QED
    BY <1>q, <2>2, <2>7, <2>8
<1>5. ASSUME NEW w \in Wallets, NEW k \in Keys, NEW a \in Amounts,
             DebitBank(w, k, a)
      PROVE  LedgerInv'
  <2> DEFINE b == BankDebit(w, k, a)
  <2>1. /\ b \in Row /\ b.status = "SUCCESSFUL" /\ b.type = "DEBIT"
        /\ b.wallet = w /\ b.amount = a
    BY RowTypes DEF BankDebit
  <2>2. journal' = journal \cup {b}
    BY <1>5 DEF DebitBank
  <2>3. b \notin journal
    BY <1>5 DEF DebitBank, WithdrawalKeyFree, HasKey, BankDebit
  <2>4. Balance(journal, b.wallet) >= b.amount
    BY <1>5, <2>1 DEF DebitBank
  <2> HIDE DEF b
  <2>5. journal \cup {b} \subseteq Row /\ IsFiniteSet(Kobo(journal \cup {b}))
    BY <1>0, <2>1, AddedRow
  <2>6. \A v \in Wallets : Balance(journal \cup {b}, v) >= 0
    BY <1>0, <2>1, <2>3, <2>4, CoveredDebitKeepsNonNegative
  <2> QED
    BY <1>q, <2>2, <2>5, <2>6
<1>6. ASSUME NEW w \in Wallets, NEW k \in Keys, NEW a \in Amounts,
             PostReversal(w, k, a)
      PROVE  LedgerInv'
  <2> DEFINE r == Reversal(w, k, a)
  <2>1. r \in Row /\ r.type = "CREDIT"
    BY RowTypes DEF Reversal
  <2>2. journal' = journal \cup {r}
    BY <1>6 DEF PostReversal
  <2> HIDE DEF r
  <2>3. journal \cup {r} \subseteq Row /\ IsFiniteSet(Kobo(journal \cup {r}))
    BY <1>0, <2>1, AddedRow
  <2>4. \A v \in Wallets : Balance(journal \cup {r}, v) >= 0
    BY <1>0, <2>1, CreditKeepsNonNegative
  <2> QED
    BY <1>q, <2>2, <2>3, <2>4
<1> QED
  BY <1>1, <1>2, <1>3, <1>4, <1>5, <1>6 DEF Next

(* The journal only ever holds well-formed rows.                           *)
THEOREM LedgerTypeCorrect == Spec => []TypeOK
<1>1. LedgerInv => TypeOK
  BY DEF LedgerInv
<1> QED
  BY LedgerInvInit, LedgerInvStep, <1>1, PTL DEF Spec

(* No wallet is ever overdrawn.                                            *)
THEOREM NeverOverdrawn == Spec => []NonNegative
<1>1. LedgerInv => NonNegative
  BY DEF LedgerInv
<1> QED
  BY LedgerInvInit, LedgerInvStep, <1>1, PTL DEF Spec

-----------------------------------------------------------------------------
(* The rows of the journal, and how they belong together.                  *)

(* Row r is one that the program writes, and what it answers is in J.      *)
Known(J, r) ==
  LET u == r.key[2]  k == r.key[3]  a == r.amount
  IN  \/ r \in {PendingFunding(u, k, a), Completed(PendingFunding(u, k, a))}
      \/ r = P2pDebit(u, k, a) /\ \E d \in Wallets \ {u} : P2pCredit(u, d, k, a) \in J
      \/ r = P2pCredit(u, r.wallet, k, a) /\ r.wallet # u /\ P2pDebit(u, k, a) \in J
      \/ r = BankDebit(u, k, a)
      \/ r = Reversal(u, k, a) /\ BankDebit(u, k, a) \in J

(* The key of a known row tells which it is.                               *)
LEMMA KnownByLeg ==
  ASSUME NEW J, NEW r, Known(J, r)
  PROVE  LET u == r.key[2]  k == r.key[3]  a == r.amount
         IN  /\ r.key[1] \in Legs
             /\ r.key[1] = "funding" =>
                  r \in {PendingFunding(u, k, a), Completed(PendingFunding(u, k, a))}
             /\ r.key[1] = "p2p-debit" =>
                  /\ r = P2pDebit(u, k, a)
                  /\ \E d \in Wallets \ {u} : P2pCredit(u, d, k, a) \in J
             /\ r.key[1] = "p2p-credit" =>
                  /\ r = P2pCredit(u, r.wallet, k, a)
                  /\ r.wallet # u
                  /\ P2pDebit(u, k, a) \in J
             /\ r.key[1] = "bank-debit" => r = BankDebit(u, k, a)
             /\ r.key[1] = "reversal" =>
                  r = Reversal(u, k, a) /\ BankDebit(u, k, a) \in J
<1> DEFINE u == r.key[2]
           k == r.key[3]
           a == r.amount
<1>1. /\ PendingFunding(u, k, a).key[1] = "funding"
      /\ Completed(PendingFunding(u, k, a)).key[1] = "funding"
      /\ P2pDebit(u, k, a).key[1] = "p2p-debit"
      /\ P2pCredit(u, r.wallet, k, a).key[1] = "p2p-credit"
      /\ BankDebit(u, k, a).key[1] = "bank-debit"
      /\ Reversal(u, k, a).key[1] = "reversal"
  BY DEF PendingFunding, Completed, P2pDebit, P2pCredit, BankDebit, Reversal
<1> QED
  BY <1>1 DEF Known, Legs

(* LegsPaired says that every row is known.                                *)
LEMMA PairedIsKnown ==
  ASSUME TypeOK, LegsPaired, NEW r \in journal
  PROVE  Known(journal, r)
<1>1. r.key[1] \in Legs
  BY DEF TypeOK, Row, RowKey
<1>2. CASE r.key[1] = "funding"
  BY <1>2 DEF LegsPaired, Known, Leg
<1>3. CASE r.key[1] = "p2p-debit"
  BY <1>3 DEF LegsPaired, Known, Leg
<1>4. CASE r.key[1] = "p2p-credit"
  BY <1>4 DEF LegsPaired, Known, Leg
<1>5. CASE r.key[1] = "bank-debit"
  BY <1>5 DEF LegsPaired, Known, Leg
<1>6. CASE r.key[1] = "reversal"
  BY <1>6 DEF LegsPaired, Known, Leg
<1> QED
  BY <1>1, <1>2, <1>3, <1>4, <1>5, <1>6 DEF Legs

(* A funding is known, before and after it is completed.                   *)
LEMMA FundingKnown ==
  ASSUME NEW J, NEW w, NEW k, NEW a
  PROVE  /\ Known(J, PendingFunding(w, k, a))
         /\ Known(J, Completed(PendingFunding(w, k, a)))
<1>1. /\ PendingFunding(w, k, a).key = <<"funding", w, k>>
      /\ PendingFunding(w, k, a).amount = a
      /\ Completed(PendingFunding(w, k, a)).key = <<"funding", w, k>>
      /\ Completed(PendingFunding(w, k, a)).amount = a
  BY DEF PendingFunding, Completed
<1> QED
  BY <1>1 DEF Known

(* The legs of a transfer know each other.                                 *)
LEMMA TransferKnown ==
  ASSUME NEW J, NEW s, NEW d \in Wallets, NEW k, NEW a, s # d,
         P2pDebit(s, k, a) \in J, P2pCredit(s, d, k, a) \in J
  PROVE  Known(J, P2pDebit(s, k, a)) /\ Known(J, P2pCredit(s, d, k, a))
<1>1. /\ P2pDebit(s, k, a).key = <<"p2p-debit", s, k>>
      /\ P2pDebit(s, k, a).amount = a
      /\ P2pCredit(s, d, k, a).key = <<"p2p-credit", s, k>>
      /\ P2pCredit(s, d, k, a).amount = a
      /\ P2pCredit(s, d, k, a).wallet = d
  BY DEF P2pDebit, P2pCredit
<1> QED
  BY <1>1 DEF Known

(* A reversal knows its debit.                                             *)
LEMMA BankKnown ==
  ASSUME NEW J, NEW w, NEW k, NEW a, BankDebit(w, k, a) \in J
  PROVE  Known(J, BankDebit(w, k, a)) /\ Known(J, Reversal(w, k, a))
<1>1. /\ BankDebit(w, k, a).key = <<"bank-debit", w, k>>
      /\ BankDebit(w, k, a).amount = a
      /\ Reversal(w, k, a).key = <<"reversal", w, k>>
      /\ Reversal(w, k, a).amount = a
  BY DEF BankDebit, Reversal
<1> QED
  BY <1>1 DEF Known

(* Every operation takes away only what it completes ...                   *)
LEMMA RowsKept ==
  ASSUME [Next]_journal, NEW r \in journal
  PROVE  r \in journal' \/ (r.status = "PENDING" /\ Completed(r) \in journal')
<1>1. ASSUME NEW w \in Wallets, NEW k \in Keys, NEW a \in Amounts,
             CompleteCredit(w, k, a), r \notin journal'
      PROVE  r.status = "PENDING" /\ Completed(r) \in journal'
  <2>1. r = PendingFunding(w, k, a) /\ Completed(r) \in journal'
    BY <1>1 DEF CompleteCredit
  <2>2. PendingFunding(w, k, a).status = "PENDING"
    BY DEF PendingFunding
  <2> QED
    BY <2>1, <2>2
<1>2. ASSUME NEW w \in Wallets, NEW d \in Wallets, NEW k \in Keys, NEW a \in Amounts,
             \/ PostPending(w, k, a) \/ TransferP2p(w, d, k, a)
             \/ DebitBank(w, k, a) \/ PostReversal(w, k, a)
      PROVE  r \in journal'
  BY <1>2 DEF PostPending, TransferP2p, DebitBank, PostReversal
<1>3. CASE UNCHANGED journal
  BY <1>3
<1> QED
  BY <1>1, <1>2, <1>3 DEF Next

(* ... and adds only what is known.                                        *)
LEMMA RowsAdded ==
  ASSUME [Next]_journal, NEW r \in journal', r \notin journal
  PROVE  Known(journal', r)
<1>1. ASSUME NEW w \in Wallets, NEW k \in Keys, NEW a \in Amounts,
             PostPending(w, k, a) \/ CompleteCredit(w, k, a)
      PROVE  Known(journal', r)
  BY <1>1, FundingKnown DEF PostPending, CompleteCredit
<1>2. ASSUME NEW w \in Wallets, NEW d \in Wallets, NEW k \in Keys, NEW a \in Amounts,
             TransferP2p(w, d, k, a)
      PROVE  Known(journal', r)
  <2>1. /\ w # d /\ r \in {P2pDebit(w, k, a), P2pCredit(w, d, k, a)}
        /\ P2pDebit(w, k, a) \in journal' /\ P2pCredit(w, d, k, a) \in journal'
    BY <1>2 DEF TransferP2p
  <2> QED
    BY <2>1, TransferKnown
<1>3. ASSUME NEW w \in Wallets, NEW k \in Keys, NEW a \in Amounts,
             DebitBank(w, k, a) \/ PostReversal(w, k, a)
      PROVE  Known(journal', r)
  <2>1. /\ r \in {BankDebit(w, k, a), Reversal(w, k, a)}
        /\ BankDebit(w, k, a) \in journal'
    BY <1>3 DEF DebitBank, PostReversal
  <2> QED
    BY <2>1, BankKnown
<1> QED
  BY <1>1, <1>2, <1>3 DEF Next

(* So all rows stay known.                                                 *)
LEMMA PairedStep == TypeOK /\ LegsPaired /\ TypeOK' /\ [Next]_journal => LegsPaired'
<1> SUFFICES ASSUME TypeOK, LegsPaired, TypeOK', [Next]_journal PROVE LegsPaired'
  OBVIOUS
<1>1. \A r \in journal : Known(journal, r)
  BY PairedIsKnown
<1>2. \A q \in journal : q.status = "SUCCESSFUL" => q \in journal'
  BY RowsKept
<1>3. ASSUME NEW r \in journal PROVE Known(journal', r)
  BY <1>1, <1>2 DEF Known, P2pDebit, P2pCredit, BankDebit
<1>4. \A r \in journal' : Known(journal', r)
  BY <1>3, RowsAdded
<1> QED
  BY <1>4, KnownByLeg DEF LegsPaired, Leg, Legs

(* A debit is added only with a key that no debit has.                     *)
LEMMA OneDebitStep ==
  TypeOK /\ LegsPaired /\ OneDebitPerKey /\ [Next]_journal => OneDebitPerKey'
<1> SUFFICES ASSUME TypeOK, LegsPaired, OneDebitPerKey, [Next]_journal
             PROVE  OneDebitPerKey'
  OBVIOUS
<1>1. ASSUME NEW q \in journal, q.type = "DEBIT",
             NEW u, NEW k, q.key[2] = u, q.key[3] = k, WithdrawalKeyFree(u, k)
      PROVE  FALSE
  <2>1. Known(journal, q)
    BY PairedIsKnown
  <2>2. q.key \in {<<"p2p-debit", u, k>>, <<"bank-debit", u, k>>}
    BY <1>1, <2>1 DEF Known, PendingFunding, Completed, P2pDebit, P2pCredit,
                      BankDebit, Reversal
  <2> QED
    BY <1>1, <2>2 DEF WithdrawalKeyFree, HasKey
<1>2. CASE \A r \in journal' : r.type = "DEBIT" => r \in journal
  BY <1>2 DEF OneDebitPerKey
<1>3. ASSUME NEW b, NEW u, NEW k, b.key[2] = u, b.key[3] = k,
             WithdrawalKeyFree(u, k),
             \A r \in journal' : r.type = "DEBIT" => r \in journal \/ r = b
      PROVE  OneDebitPerKey'
  <2> SUFFICES ASSUME NEW r \in journal', NEW q \in journal',
                      r.type = "DEBIT", q.type = "DEBIT",
                      r.key[2] = q.key[2], r.key[3] = q.key[3]
               PROVE  r = q
    BY DEF OneDebitPerKey
  <2>1. (r \in journal \/ r = b) /\ (q \in journal \/ q = b)
    BY <1>3
  <2>2. CASE r \in journal /\ q \in journal
    BY <2>2 DEF OneDebitPerKey
  <2>3. CASE r \in journal /\ q = b
    BY <1>1, <1>3, <2>3
  <2>4. CASE r = b /\ q \in journal
    BY <1>1, <1>3, <2>4
  <2> QED
    BY <2>1, <2>2, <2>3, <2>4
<1>4. ASSUME NEW s \in Wallets, NEW d \in Wallets, NEW k \in Keys, NEW a \in Amounts,
             TransferP2p(s, d, k, a)
      PROVE  OneDebitPerKey'
  <2>1. \A r \in journal' : r.type = "DEBIT" => r \in journal \/ r = P2pDebit(s, k, a)
    BY <1>4 DEF TransferP2p, P2pCredit
  <2>2. P2pDebit(s, k, a).key[2] = s /\ P2pDebit(s, k, a).key[3] = k
    BY DEF P2pDebit
  <2> QED
    BY <1>3, <1>4, <2>1, <2>2 DEF TransferP2p
<1>5. ASSUME NEW w \in Wallets, NEW k \in Keys, NEW a \in Amounts, DebitBank(w, k, a)
      PROVE  OneDebitPerKey'
  <2>1. \A r \in journal' : r.type = "DEBIT" => r \in journal \/ r = BankDebit(w, k, a)
    BY <1>5 DEF DebitBank
  <2>2. BankDebit(w, k, a).key[2] = w /\ BankDebit(w, k, a).key[3] = k
    BY DEF BankDebit
  <2> QED
    BY <1>3, <1>5, <2>1, <2>2 DEF DebitBank
<1>6. ASSUME NEW w \in Wallets, NEW k \in Keys, NEW a \in Amounts,
             PostPending(w, k, a) \/ CompleteCredit(w, k, a) \/ PostReversal(w, k, a)
      PROVE  OneDebitPerKey'
  <2>1. \A r \in journal' : r.type = "DEBIT" => r \in journal
    BY <1>6 DEF PostPending, CompleteCredit, PostReversal, PendingFunding, Completed,
                Reversal
  <2> QED
    BY <1>2, <2>1
<1> QED
  BY <1>2, <1>4, <1>5, <1>6 DEF Next

-----------------------------------------------------------------------------
(* Transfers cancel out: their credits sum to what their debits do.        *)
TransfersCancel == SumAmount(OfLeg("p2p-credit")) = SumAmount(OfLeg("p2p-debit"))

LEMMA CancelStep ==
  /\ LedgerInv /\ LegsPaired /\ TransfersCancel /\ [Next]_journal
  => TransfersCancel'
<1> SUFFICES ASSUME LedgerInv, LegsPaired, TransfersCancel, [Next]_journal
             PROVE  TransfersCancel'
  OBVIOUS
<1>0. TypeOK /\ IsFiniteSet(Kobo(journal))
  BY DEF LedgerInv, Summable
<1>1. ASSUME NEW s \in Wallets, NEW d \in Wallets, NEW k \in Keys, NEW a \in Amounts,
             TransferP2p(s, d, k, a)
      PROVE  TransfersCancel'
  <2> DEFINE b == P2pDebit(s, k, a)
             c == P2pCredit(s, d, k, a)
             B == OfLeg("p2p-debit")
             C == OfLeg("p2p-credit")
  <2>1. /\ b.key = <<"p2p-debit", s, k>> /\ b.status = "SUCCESSFUL" /\ b.amount = a
        /\ c.key = <<"p2p-credit", s, k>> /\ c.status = "SUCCESSFUL" /\ c.amount = a
    BY DEF P2pDebit, P2pCredit
  <2>2. b \notin journal
    BY <1>1, <2>1 DEF TransferP2p, WithdrawalKeyFree, HasKey
  <2>3. c \notin journal
    <3> SUFFICES ASSUME c \in journal PROVE FALSE
      OBVIOUS
    <3>1. Known(journal, c)
      BY <1>0, PairedIsKnown
    <3>2. P2pDebit(s, k, a) \in journal
      BY <2>1, <3>1, KnownByLeg
    <3> QED
      BY <2>2, <3>2
  <2>4. journal' = journal \cup {b, c}
    BY <1>1 DEF TransferP2p
  <2> HIDE DEF b, c
  <2>5. B' = B \cup {b}
    BY <2>1, <2>4 DEF OfLeg, Leg
  <2>6. C' = C \cup {c}
    BY <2>1, <2>4 DEF OfLeg, Leg
  <2>7. B \subseteq journal /\ C \subseteq journal
    BY DEF OfLeg
  <2>8. SumAmount(B) = SumAmount(C)
    BY DEF TransfersCancel
  <2>9. a \in Nat
    BY AmountsAssumption
  <2> HIDE DEF B, C
  <2>10. IsFiniteSet(Kobo(B)) /\ IsFiniteSet(Kobo(C))
    BY <1>0, <2>7, SumOfPart
  <2>11. SumAmount(B \cup {b}) = SumAmount(B) + a
    BY <2>1, <2>2, <2>7, <2>9, <2>10, SumWithRow
  <2>12. SumAmount(C \cup {c}) = SumAmount(C) + a
    BY <2>1, <2>3, <2>7, <2>9, <2>10, SumWithRow
  <2>13. SumAmount(B') = SumAmount(C')
    BY <2>5, <2>6, <2>8, <2>11, <2>12
  <2> QED
    BY <2>13 DEF B, C, TransfersCancel
<1>2. ASSUME \A r : r.key[1] \in {"p2p-debit", "p2p-credit"} =>
                      (r \in journal' <=> r \in journal)
      PROVE  TransfersCancel'
  <2>1. OfLeg("p2p-debit")' = OfLeg("p2p-debit")
    BY <1>2 DEF OfLeg, Leg
  <2>2. OfLeg("p2p-credit")' = OfLeg("p2p-credit")
    BY <1>2 DEF OfLeg, Leg
  <2> QED
    BY <2>1, <2>2 DEF TransfersCancel
<1>3. ASSUME NEW w \in Wallets, NEW k \in Keys, NEW a \in Amounts,
             \/ PostPending(w, k, a) \/ CompleteCredit(w, k, a)
             \/ DebitBank(w, k, a) \/ PostReversal(w, k, a)
      PROVE  TransfersCancel'
  <2>1. /\ PendingFunding(w, k, a).key[1] = "funding"
        /\ Completed(PendingFunding(w, k, a)).key[1] = "funding"
        /\ BankDebit(w, k, a).key[1] = "bank-debit"
        /\ Reversal(w, k, a).key[1] = "reversal"
    BY DEF PendingFunding, Completed, BankDebit, Reversal
  <2> QED
    BY <1>2, <1>3, <2>1 DEF PostPending, CompleteCredit, DebitBank, PostReversal
<1>4. CASE UNCHANGED journal
  BY <1>2, <1>4
<1> QED
  BY <1>1, <1>3, <1>4 DEF Next

(* The credits are fundings, reversals and transfers; the debits are bank  *)
(* withdrawals and transfers.                                              *)
LEMMA ConservedBySums ==
  LedgerInv /\ LegsPaired /\ TransfersCancel => MoneyConserved
<1> SUFFICES ASSUME LedgerInv, LegsPaired, TransfersCancel PROVE MoneyConserved
  OBVIOUS
<1>1. TypeOK /\ IsFiniteSet(Kobo(journal))
  BY DEF LedgerInv, Summable
<1>2. \A r \in journal : /\ r.key[1] \in Legs
                         /\ r.type = "CREDIT" <=>
                              r.key[1] \in {"funding", "reversal", "p2p-credit"}
                         /\ r.type = "DEBIT" <=>
                              r.key[1] \in {"bank-debit", "p2p-debit"}
  <2> TAKE r \in journal
  <2>1. Known(journal, r)
    BY <1>1, PairedIsKnown
  <2> QED
    BY <2>1 DEF Known, Legs, PendingFunding, Completed, P2pDebit, P2pCredit, BankDebit,
                Reversal
<1> DEFINE F == OfLeg("funding")
           R == OfLeg("reversal")
           C == OfLeg("p2p-credit")
           B == OfLeg("bank-debit")
           D == OfLeg("p2p-debit")
<1>3. SettledOf("CREDIT") = (F \cup R) \cup C
  BY <1>2 DEF SettledOf, OfLeg, Leg
<1>4. SettledOf("DEBIT") = B \cup D
  BY <1>2 DEF SettledOf, OfLeg, Leg
<1>5. F \cap R = {} /\ (F \cup R) \cap C = {} /\ B \cap D = {}
  BY DEF OfLeg, Leg
<1>6. \A leg : OfLeg(leg) \subseteq journal
  BY DEF OfLeg
<1>7. SumAmount(C) = SumAmount(D)
  BY DEF TransfersCancel
<1>8. /\ IsFiniteSet(Kobo(F)) /\ IsFiniteSet(Kobo(R)) /\ IsFiniteSet(Kobo(C))
      /\ IsFiniteSet(Kobo(B)) /\ IsFiniteSet(Kobo(D))
      /\ SumAmount(F) \in Nat /\ SumAmount(R) \in Nat /\ SumAmount(C) \in Nat
      /\ SumAmount(B) \in Nat /\ SumAmount(D) \in Nat
  BY <1>1, <1>6, SumOfPart
<1> HIDE DEF F, R, C, B, D
<1>9. /\ IsFiniteSet(Kobo(F \cup R))
      /\ SumAmount(F \cup R) = SumAmount(F) + SumAmount(R)
  BY <1>5, <1>8, SumOfUnion
<1>10. SumAmount((F \cup R) \cup C) = SumAmount(F \cup R) + SumAmount(C)
  BY <1>5, <1>8, <1>9, SumOfUnion
<1>11. SumAmount(B \cup D) = SumAmount(B) + SumAmount(D)
  BY <1>5, <1>8, SumOfUnion
<1>12. SumAmount(SettledOf("CREDIT")) - SumAmount(SettledOf("DEBIT"))
         = SumAmount(F) + SumAmount(R) - SumAmount(B)
  <2> DEFINE credits == SumAmount(SettledOf("CREDIT"))
             debits == SumAmount(SettledOf("DEBIT"))
  <2>1. credits = SumAmount((F \cup R) \cup C)
    BY <1>3, Zenon
  <2>2. debits = SumAmount(B \cup D)
    BY <1>4, Zenon
  <2> HIDE DEF credits, debits
  <2>3. credits - debits = SumAmount(F) + SumAmount(R) - SumAmount(B)
    BY <1>7, <1>8, <1>9, <1>10, <1>11, <2>1, <2>2
  <2> QED
    BY <2>3 DEF credits, debits
<1> QED
  BY <1>12 DEF MoneyConserved, F, R, B

-----------------------------------------------------------------------------
(* The invariant of the rows, on top of that of the sums.                  *)
RowsInv == LedgerInv /\ LegsPaired /\ OneDebitPerKey /\ TransfersCancel

(* The invariant holds in every reachable state.                           *)
THEOREM RowsInvariant == Spec => []RowsInv
<1>1. Init => RowsInv
  <2> SUFFICES ASSUME Init PROVE RowsInv
    OBVIOUS
  <2>1. OfLeg("p2p-credit") = {} /\ OfLeg("p2p-debit") = {}
    BY DEF Init, OfLeg
  <2>2. LegsPaired /\ OneDebitPerKey
    BY DEF Init, LegsPaired, OneDebitPerKey
  <2> QED
    BY <2>1, <2>2, LedgerInvInit DEF RowsInv, TransfersCancel
<1>2. RowsInv /\ [Next]_journal => RowsInv'
  BY LedgerInvStep, PairedStep, OneDebitStep, CancelStep DEF RowsInv, LedgerInv
<1> QED
  BY <1>1, <1>2, PTL DEF Spec

(* Every credit that is not a funding answers a debit, and no transfer has *)
(* a debit alone (executeP2p, postReversal).                               *)
THEOREM LegsAlwaysPaired == Spec => []LegsPaired
<1>1. RowsInv => LegsPaired
  BY DEF RowsInv
<1> QED
  BY <1>1, RowsInvariant, PTL

(* One client key never debits twice (the unique index of withdrawals).    *)
THEOREM OneDebitForEachKey == Spec => []OneDebitPerKey
<1>1. RowsInv => OneDebitPerKey
  BY DEF RowsInv
<1> QED
  BY <1>1, RowsInvariant, PTL

(* Money is neither made nor lost, whatever was transferred, withdrawn and *)
(* reversed.                                                               *)
THEOREM MoneyAlwaysConserved == Spec => []MoneyConserved
<1>1. RowsInv => MoneyConserved
  BY ConservedBySums DEF RowsInv
<1> QED
  BY <1>1, RowsInvariant, PTL

(* A row that was written stays, or is completed.                          *)
THEOREM JournalAppendOnly == Spec => AppendOnly
<1>1. [Next]_journal => [\A r \in journal :
                           \/ r \in journal'
                           \/ r.status = "PENDING" /\ Completed(r) \in journal']_journal
  BY RowsKept
<1> QED
  BY <1>1, PTL DEF Spec, AppendOnly

-----------------------------------------------------------------------------
(* The journal as the account holder's book.                               *)

(* A funding has one row, pending or complete.                             *)
FundingOnce ==
  \A q, r \in journal : q.key[1] = "funding" /\ q.key = r.key => q = r

(* A completion takes the place of the pending row.                        *)
LEMMA FundingOnceStep == FundingOnce /\ [Next]_journal => FundingOnce'
<1> SUFFICES ASSUME FundingOnce, [Next]_journal PROVE FundingOnce'
  OBVIOUS
<1>1. ASSUME NEW w \in Wallets, NEW k \in Keys, NEW a \in Amounts, PostPending(w, k, a)
      PROVE  FundingOnce'
  <2>1. \A q \in journal : q.key # PendingFunding(w, k, a).key
    BY <1>1 DEF PostPending, HasKey, PendingFunding
  <2> QED
    BY <1>1, <2>1 DEF PostPending, FundingOnce
<1>2. ASSUME NEW w \in Wallets, NEW k \in Keys, NEW a \in Amounts, CompleteCredit(w, k, a)
      PROVE  FundingOnce'
  <2> DEFINE p == PendingFunding(w, k, a)
             c == Completed(p)
  <2>1. p \in journal /\ journal' = (journal \ {p}) \cup {c}
    BY <1>2 DEF CompleteCredit
  <2>2. p.key[1] = "funding" /\ c.key = p.key
    BY DEF PendingFunding, Completed
  <2> HIDE DEF p, c
  <2>3. \A q \in journal \ {p} : q.key # c.key
    BY <2>1, <2>2 DEF FundingOnce
  <2> QED
    BY <2>1, <2>3 DEF FundingOnce
<1>3. ASSUME \A r \in journal' : r.key[1] = "funding" => r \in journal
      PROVE  FundingOnce'
  BY <1>3 DEF FundingOnce
<1>4. ASSUME NEW w \in Wallets, NEW d \in Wallets, NEW k \in Keys, NEW a \in Amounts,
             TransferP2p(w, d, k, a) \/ DebitBank(w, k, a) \/ PostReversal(w, k, a)
      PROVE  FundingOnce'
  BY <1>3, <1>4 DEF TransferP2p, DebitBank, PostReversal, P2pDebit, P2pCredit,
                    BankDebit, Reversal
<1> QED
  BY <1>1, <1>2, <1>3, <1>4 DEF Next

(* The rows of one leg of wallet w among the rows J, and the bank debits   *)
(* that are not reversed.                                                  *)
LegOf(J, leg, w) == {r \in J : r.key[1] = leg /\ r.status = "SUCCESSFUL" /\ r.wallet = w}

Open(J, w) ==
  {r \in LegOf(J, "bank-debit", w) : ~ HasKey(J, <<"reversal", w, r.key[3]>>)}

(* What was debited is what came back and what is open.                    *)
RefundsAnswer(J, w) ==
  SumAmount(LegOf(J, "bank-debit", w))
    = SumAmount(LegOf(J, "reversal", w)) + SumAmount(Open(J, w))

RefundsMatch == \A w \in Wallets : RefundsAnswer(journal, w)

(* These sums are numbers.                                                 *)
LEMMA LegSums ==
  ASSUME NEW J, IsFiniteSet(Kobo(J)), NEW w
  PROVE  /\ \A leg : /\ IsFiniteSet(Kobo(LegOf(J, leg, w)))
                     /\ SumAmount(LegOf(J, leg, w)) \in Nat
         /\ IsFiniteSet(Kobo(Open(J, w)))
         /\ SumAmount(Open(J, w)) \in Nat
<1>1. \A leg : LegOf(J, leg, w) \subseteq J
  BY DEF LegOf
<1>2. Open(J, w) \subseteq J
  BY DEF Open, LegOf
<1> QED
  BY <1>1, <1>2, SumOfPart

(* A new debit is open.                                                    *)
LEMMA DebitOpens ==
  ASSUME NEW J, IsFiniteSet(Kobo(J)), NEW w, NEW k, NEW a \in Amounts,
         BankDebit(w, k, a) \notin J, ~ HasKey(J, <<"reversal", w, k>>),
         RefundsAnswer(J, w)
  PROVE  RefundsAnswer(J \cup {BankDebit(w, k, a)}, w)
<1> DEFINE d == BankDebit(w, k, a)
           D == LegOf(J, "bank-debit", w)
           R == LegOf(J, "reversal", w)
           O == Open(J, w)
<1>1. /\ d.key = <<"bank-debit", w, k>> /\ d.status = "SUCCESSFUL"
      /\ d.wallet = w /\ d.amount = a /\ a \in Nat
  BY AmountsAssumption DEF BankDebit
<1> HIDE DEF d
<1>2. LegOf(J \cup {d}, "bank-debit", w) = D \cup {d}
  BY <1>1 DEF LegOf
<1>3. LegOf(J \cup {d}, "reversal", w) = R
  BY <1>1 DEF LegOf
<1>4. \A x : HasKey(J \cup {d}, <<"reversal", w, x>>) <=> HasKey(J, <<"reversal", w, x>>)
  BY <1>1 DEF HasKey
<1>5. Open(J \cup {d}, w) = O \cup {d}
  BY <1>1, <1>2, <1>4 DEF Open
<1>6. d \notin D /\ d \notin O
  BY DEF d, LegOf, Open
<1>7. SumAmount(D) = SumAmount(R) + SumAmount(O)
  BY DEF RefundsAnswer
<1>8. /\ IsFiniteSet(Kobo(D)) /\ IsFiniteSet(Kobo(O))
      /\ SumAmount(D) \in Nat /\ SumAmount(R) \in Nat /\ SumAmount(O) \in Nat
  BY LegSums
<1> HIDE DEF D, R, O
<1>9. SumAmount(D \cup {d}) = SumAmount(D) + a
  BY <1>1, <1>6, <1>8, SumWithRow
<1>10. SumAmount(O \cup {d}) = SumAmount(O) + a
  BY <1>1, <1>6, <1>8, SumWithRow
<1>11. SumAmount(D \cup {d}) = SumAmount(R) + SumAmount(O \cup {d})
  BY <1>1, <1>7, <1>8, <1>9, <1>10
<1> QED
  BY <1>2, <1>3, <1>5, <1>11 DEF RefundsAnswer, d

(* A reversal closes the one debit it names.                               *)
LEMMA ReversalCloses ==
  ASSUME NEW J, IsFiniteSet(Kobo(J)), NEW w, NEW k, NEW a \in Amounts,
         BankDebit(w, k, a) \in J, ~ HasKey(J, <<"reversal", w, k>>),
         \A q \in LegOf(J, "bank-debit", w) :
           q.key[3] = k => q = BankDebit(w, k, a),
         RefundsAnswer(J, w)
  PROVE  /\ SumAmount(Open(J, w)) >= a
         /\ RefundsAnswer(J \cup {Reversal(w, k, a)}, w)
<1> DEFINE d == BankDebit(w, k, a)
           r == Reversal(w, k, a)
           D == LegOf(J, "bank-debit", w)
           R == LegOf(J, "reversal", w)
           O == Open(J, w)
           P == O \ {d}
<1>1. /\ d.key = <<"bank-debit", w, k>> /\ d.status = "SUCCESSFUL"
      /\ d.wallet = w /\ d.amount = a /\ a \in Nat
      /\ r.key = <<"reversal", w, k>> /\ r.status = "SUCCESSFUL"
      /\ r.wallet = w /\ r.amount = a
  BY AmountsAssumption DEF BankDebit, Reversal
<1>2. r \notin J
  BY <1>1 DEF HasKey
<1>3. d \in O
  BY <1>1 DEF Open, LegOf
<1>4. \A q \in D : q.key[3] = k => q = d
  OBVIOUS
<1> HIDE DEF d, r
<1>5. LegOf(J \cup {r}, "bank-debit", w) = D
  BY <1>1 DEF LegOf
<1>6. LegOf(J \cup {r}, "reversal", w) = R \cup {r}
  BY <1>1 DEF LegOf
<1>7. \A x : HasKey(J \cup {r}, <<"reversal", w, x>>)
               <=> x = k \/ HasKey(J, <<"reversal", w, x>>)
  BY <1>1 DEF HasKey
<1>8. d.key[3] = k
  BY <1>1
<1>9. Open(J \cup {r}, w) = P
  <2>1. Open(J \cup {r}, w) = {q \in D : ~ HasKey(J \cup {r}, <<"reversal", w, q.key[3]>>)}
    BY <1>5 DEF Open
  <2>2. O = {q \in D : ~ HasKey(J, <<"reversal", w, q.key[3]>>)}
    BY DEF Open
  <2> HIDE DEF D, O
  <2> QED
    BY <1>4, <1>7, <1>8, <2>1, <2>2
<1>10. /\ r \notin R /\ d \notin P /\ O = P \cup {d} /\ P \subseteq O
  BY <1>2, <1>3 DEF LegOf
<1>11. SumAmount(D) = SumAmount(R) + SumAmount(O)
  BY DEF RefundsAnswer
<1>12. /\ IsFiniteSet(Kobo(R)) /\ IsFiniteSet(Kobo(O))
       /\ SumAmount(D) \in Nat /\ SumAmount(R) \in Nat /\ SumAmount(O) \in Nat
  BY LegSums
<1> HIDE DEF D, R, O, P
<1>13. IsFiniteSet(Kobo(P)) /\ SumAmount(P) \in Nat
  BY <1>10, <1>12, SumOfPart
<1>14. SumAmount(P \cup {d}) = SumAmount(P) + a
  BY <1>1, <1>10, <1>13, SumWithRow
<1>15. SumAmount(R \cup {r}) = SumAmount(R) + a
  BY <1>1, <1>10, <1>12, SumWithRow
<1>16. SumAmount(O) = SumAmount(P) + a
  BY <1>10, <1>14
<1>17. SumAmount(D) = SumAmount(R \cup {r}) + SumAmount(P) /\ SumAmount(O) >= a
  BY <1>1, <1>11, <1>12, <1>13, <1>15, <1>16
<1> QED
  BY <1>5, <1>6, <1>9, <1>17 DEF RefundsAnswer, r, O

(* Rows of other wallets, and of other legs, change neither.               *)
LEMMA OthersLeaveRefunds ==
  ASSUME NEW J, NEW K, NEW w,
         \A r : /\ r.key[1] \in {"bank-debit", "reversal"}
                /\ r.key[2] = w \/ r.wallet = w
                => (r \in K <=> r \in J)
  PROVE  /\ \A leg \in {"bank-debit", "reversal"} : LegOf(K, leg, w) = LegOf(J, leg, w)
         /\ Open(K, w) = Open(J, w)
         /\ RefundsAnswer(K, w) <=> RefundsAnswer(J, w)
<1>1. \A leg \in {"bank-debit", "reversal"} : LegOf(K, leg, w) = LegOf(J, leg, w)
  BY DEF LegOf
<1>2. \A x : HasKey(K, <<"reversal", w, x>>) <=> HasKey(J, <<"reversal", w, x>>)
  BY DEF HasKey
<1>3. Open(K, w) = Open(J, w)
  BY <1>1, <1>2 DEF Open
<1> QED
  BY <1>1, <1>3 DEF RefundsAnswer

(* What the account holder's book needs of the rows.                       *)
BookInv == RowsInv /\ FundingOnce /\ RefundsMatch

(* Nothing is reversed of a key that was not debited.                      *)
LEMMA FreshDebit ==
  ASSUME RowsInv, NEW w \in Wallets, NEW k \in Keys, NEW a \in Amounts,
         WithdrawalKeyFree(w, k)
  PROVE  /\ BankDebit(w, k, a) \notin journal
         /\ ~ HasKey(journal, <<"reversal", w, k>>)
<1>1. \A b : BankDebit(w, k, b).key = <<"bank-debit", w, k>>
  BY DEF BankDebit
<1>2. \A b : BankDebit(w, k, b) \notin journal
  BY <1>1 DEF WithdrawalKeyFree, HasKey
<1>3. ASSUME NEW q \in journal, q.key = <<"reversal", w, k>>
      PROVE  FALSE
  <2>1. Known(journal, q)
    BY PairedIsKnown DEF RowsInv, LedgerInv
  <2>2. BankDebit(w, k, q.amount) \in journal
    BY <1>3, <2>1, KnownByLeg
  <2> QED
    BY <1>2, <2>2
<1> QED
  BY <1>2, <1>3 DEF HasKey

(* One bank debit has the key of a reversal.                               *)
LEMMA ReversedDebit ==
  ASSUME RowsInv, NEW w \in Wallets, NEW k \in Keys, NEW a \in Amounts,
         BankDebit(w, k, a) \in journal
  PROVE  \A q \in LegOf(journal, "bank-debit", w) :
           q.key[3] = k => q = BankDebit(w, k, a)
<1> SUFFICES ASSUME NEW q \in journal, q.key[1] = "bank-debit", q.wallet = w,
                    q.key[3] = k
             PROVE  q = BankDebit(w, k, a)
  BY DEF LegOf
<1>1. Known(journal, q)
  BY PairedIsKnown DEF RowsInv, LedgerInv
<1>2. q = BankDebit(q.key[2], k, q.amount)
  BY <1>1, KnownByLeg
<1>3. q.type = "DEBIT" /\ q.key[2] = w
  BY <1>2 DEF BankDebit
<1>4. /\ BankDebit(w, k, a).type = "DEBIT" /\ BankDebit(w, k, a).key[2] = w
      /\ BankDebit(w, k, a).key[3] = k
  BY DEF BankDebit
<1> QED
  BY <1>3, <1>4 DEF RowsInv, OneDebitPerKey

(* What the steps do to the bank debits and their reversals.               *)
LEMMA RefundsStep == BookInv /\ [Next]_journal => RefundsMatch'
<1> SUFFICES ASSUME BookInv, [Next]_journal, NEW v \in Wallets
             PROVE  RefundsAnswer(journal', v)
  BY DEF RefundsMatch
<1>0. RefundsAnswer(journal, v) /\ IsFiniteSet(Kobo(journal))
  BY DEF BookInv, RefundsMatch, RowsInv, LedgerInv, Summable
<1>1. ASSUME \A r : /\ r.key[1] \in {"bank-debit", "reversal"}
                    /\ r.key[2] = v \/ r.wallet = v
                    => (r \in journal' <=> r \in journal)
      PROVE  RefundsAnswer(journal', v)
  BY <1>0, <1>1, OthersLeaveRefunds
<1>2. ASSUME NEW w \in Wallets, NEW k \in Keys, NEW a \in Amounts, DebitBank(w, k, a)
      PROVE  RefundsAnswer(journal', v)
  <2>1. CASE v = w
    BY <1>0, <1>2, <2>1, FreshDebit, DebitOpens DEF DebitBank, BookInv
  <2>2. CASE v # w
    BY <1>1, <1>2, <2>2 DEF DebitBank, BankDebit
  <2> QED
    BY <2>1, <2>2
<1>3. ASSUME NEW w \in Wallets, NEW k \in Keys, NEW a \in Amounts, PostReversal(w, k, a)
      PROVE  RefundsAnswer(journal', v)
  <2>1. CASE v = w
    BY <1>0, <1>3, <2>1, ReversedDebit, ReversalCloses DEF PostReversal, BookInv
  <2>2. CASE v # w
    BY <1>1, <1>3, <2>2 DEF PostReversal, Reversal
  <2> QED
    BY <2>1, <2>2
<1>4. ASSUME NEW w \in Wallets, NEW d \in Wallets, NEW k \in Keys, NEW a \in Amounts,
             \/ PostPending(w, k, a) \/ CompleteCredit(w, k, a)
             \/ TransferP2p(w, d, k, a)
      PROVE  RefundsAnswer(journal', v)
  <2>1. /\ PendingFunding(w, k, a).key[1] = "funding"
        /\ Completed(PendingFunding(w, k, a)).key[1] = "funding"
        /\ P2pDebit(w, k, a).key[1] = "p2p-debit"
        /\ P2pCredit(w, d, k, a).key[1] = "p2p-credit"
    BY DEF PendingFunding, Completed, P2pDebit, P2pCredit
  <2> QED
    BY <1>1, <1>4, <2>1 DEF PostPending, CompleteCredit, TransferP2p
<1>5. CASE UNCHANGED journal
  BY <1>0, <1>5
<1> QED
  BY <1>2, <1>3, <1>4, <1>5 DEF Next

(* It holds in every reachable state.                                      *)
LEMMA BookInvariant == Spec => []BookInv
<1>1. Init => FundingOnce /\ RefundsMatch
  <2> SUFFICES ASSUME Init, NEW w \in Wallets
               PROVE  FundingOnce /\ RefundsAnswer(journal, w)
    BY DEF RefundsMatch, Init, FundingOnce
  <2>1. /\ \A leg : LegOf(journal, leg, w) = {}
        /\ Open(journal, w) = {}
    BY DEF Init, LegOf, Open
  <2>2. Kobo({}) = {}
    BY DEF Kobo
  <2>3. SumAmount({}) = 0
    BY <2>2, FS_EmptySet, Zenon DEF SumAmount
  <2>4. /\ SumAmount(LegOf(journal, "bank-debit", w)) = 0
        /\ SumAmount(LegOf(journal, "reversal", w)) = 0
        /\ SumAmount(Open(journal, w)) = 0
    BY <2>1, <2>3, Zenon
  <2> QED
    BY <2>4 DEF Init, FundingOnce, RefundsAnswer
<1>2. BookInv /\ [Next]_journal => FundingOnce' /\ RefundsMatch'
  BY FundingOnceStep, RefundsStep DEF BookInv
<1>3. RowsInv /\ FundingOnce /\ RefundsMatch <=> BookInv
  BY DEF BookInv
<1> QED
  BY <1>1, <1>2, <1>3, RowsInvariant, PTL DEF Spec

-----------------------------------------------------------------------------
(* Each step of the ledger as a step of the book.                          *)

(* The balances and the amounts paid out, of the rows J.                   *)
Balances(J) == [w \in Wallets |-> Balance(J, w)]

NetPaid(J, w) ==
  SumAmount(LegOf(J, "bank-debit", w)) - SumAmount(LegOf(J, "reversal", w))

NetPayments(J) == [w \in Wallets |-> NetPaid(J, w)]

(* A step of the book, by what it does to these functions.                 *)
LEMMA BookIs ==
  /\ \A w \in Wallets : PaidOut(w) = NetPaid(journal, w)
  /\ [w \in Wallets |-> Balance(journal, w)] = Balances(journal)
  /\ [w \in Wallets |-> PaidOut(w)] = NetPayments(journal)
<1>1. \A w : PaidOut(w) = NetPaid(journal, w)
  <2> TAKE w
  <2>1. \A leg : {r \in OfLeg(leg) : r.wallet = w} = LegOf(journal, leg, w)
    BY DEF OfLeg, LegOf, Leg
  <2> QED
    BY <2>1, Zenon DEF PaidOut, NetPaid
<1> QED
  BY <1>1 DEF Balances, NetPayments

(* What is open bounds what can come back.                                 *)
LEMMA OpenIsPaidOut ==
  ASSUME NEW J, IsFiniteSet(Kobo(J)), NEW w, RefundsAnswer(J, w)
  PROVE  NetPaid(J, w) = SumAmount(Open(J, w))
BY LegSums DEF RefundsAnswer, NetPaid

(* The same, of the state after a step.                                    *)
LEMMA BookWillBe ==
  /\ [w \in Wallets |-> Balance(journal, w)]' = Balances(journal')
  /\ [w \in Wallets |-> PaidOut(w)]' = NetPayments(journal')
<1>1. \A w : PaidOut(w)' = NetPaid(journal', w)
  <2> TAKE w
  <2>1. \A leg : {r \in OfLeg(leg)' : r.wallet = w} = LegOf(journal', leg, w)
    BY DEF OfLeg, LegOf, Leg
  <2> QED
    BY <2>1, Zenon DEF PaidOut, NetPaid
<1> QED
  BY <1>1 DEF Balances, NetPayments

(* The steps of the book, by what they do to the sums over the rows.       *)
LEMMA BookSteps ==
  ASSUME NEW w \in Wallets, NEW d \in Wallets, NEW a \in Amounts
  PROVE  /\ /\ Balances(journal') = [Balances(journal) EXCEPT ![w] = @ + a]
            /\ NetPayments(journal') = NetPayments(journal)
            => Book!Deposit(w, a)
         /\ /\ w # d /\ Balance(journal, w) >= a
            /\ Balances(journal') = [Balances(journal) EXCEPT ![w] = @ - a, ![d] = @ + a]
            /\ NetPayments(journal') = NetPayments(journal)
            => Book!Move(w, d, a)
         /\ /\ Balance(journal, w) >= a
            /\ Balances(journal') = [Balances(journal) EXCEPT ![w] = @ - a]
            /\ NetPayments(journal') = [NetPayments(journal) EXCEPT ![w] = @ + a]
            => Book!PayOut(w, a)
         /\ /\ NetPaid(journal, w) >= a
            /\ Balances(journal') = [Balances(journal) EXCEPT ![w] = @ + a]
            /\ NetPayments(journal') = [NetPayments(journal) EXCEPT ![w] = @ - a]
            => Book!Refund(w, a)
         /\ /\ Balances(journal') = Balances(journal)
            /\ NetPayments(journal') = NetPayments(journal)
            => UNCHANGED Book!vars
<1>1. /\ Balances(journal)[w] = Balance(journal, w)
      /\ NetPayments(journal)[w] = NetPaid(journal, w)
  BY DEF Balances, NetPayments
<1>2. /\ [v \in Wallets |-> Balance(journal, v)] = Balances(journal)
      /\ [v \in Wallets |-> PaidOut(v)] = NetPayments(journal)
  BY BookIs
<1>3. /\ [v \in Wallets |-> Balance(journal, v)]' = Balances(journal')
      /\ [v \in Wallets |-> PaidOut(v)]' = NetPayments(journal')
  BY BookWillBe
<1> QED
  BY <1>1, <1>2, <1>3, Zenon
     DEF Book!Deposit, Book!Move, Book!PayOut, Book!Refund, Book!vars

(* Sums that change for one wallet only.                                   *)
LEMMA OneBalanceChanges ==
  ASSUME NEW J, NEW K, NEW w \in Wallets, NEW n \in Int,
         Balance(K, w) = Balance(J, w) + n,
         \A v \in Wallets \ {w} : Balance(K, v) = Balance(J, v)
  PROVE  Balances(K) = [Balances(J) EXCEPT ![w] = @ + n]
BY DEF Balances

(* The same of the payments.                                              *)
LEMMA OnePaymentChanges ==
  ASSUME NEW J, NEW K, NEW w \in Wallets, NEW n \in Int,
         NetPaid(K, w) = NetPaid(J, w) + n,
         \A v \in Wallets \ {w} : NetPaid(K, v) = NetPaid(J, v)
  PROVE  NetPayments(K) = [NetPayments(J) EXCEPT ![w] = @ + n]
BY DEF NetPayments

(* Payments are left alone by what leaves bank debits and reversals alone. *)
LEMMA OthersLeavePayments ==
  ASSUME NEW J, NEW K, NEW w,
         \A r : /\ r.key[1] \in {"bank-debit", "reversal"}
                /\ r.key[2] = w \/ r.wallet = w
                => (r \in K <=> r \in J)
  PROVE  NetPaid(K, w) = NetPaid(J, w)
BY OthersLeaveRefunds, Zenon DEF NetPaid

(* A bank debit pays its amount out, a reversal takes it back.             *)
LEMMA DebitPays ==
  ASSUME NEW J, IsFiniteSet(Kobo(J)), NEW w, NEW k, NEW a \in Amounts,
         BankDebit(w, k, a) \notin J
  PROVE  NetPaid(J \cup {BankDebit(w, k, a)}, w) = NetPaid(J, w) + a
<1> DEFINE d == BankDebit(w, k, a)
           D == LegOf(J, "bank-debit", w)
           R == LegOf(J, "reversal", w)
<1>1. /\ d.key = <<"bank-debit", w, k>> /\ d.status = "SUCCESSFUL"
      /\ d.wallet = w /\ d.amount = a /\ a \in Nat
  BY AmountsAssumption DEF BankDebit
<1> HIDE DEF d
<1>2. LegOf(J \cup {d}, "bank-debit", w) = D \cup {d}
  BY <1>1 DEF LegOf
<1>3. LegOf(J \cup {d}, "reversal", w) = R
  BY <1>1 DEF LegOf
<1>4. d \notin D
  BY DEF d, LegOf
<1>5. IsFiniteSet(Kobo(D)) /\ SumAmount(D) \in Nat /\ SumAmount(R) \in Nat
  BY LegSums
<1>6. NetPaid(J, w) = SumAmount(D) - SumAmount(R)
  BY DEF NetPaid
<1> HIDE DEF D, R
<1>7. SumAmount(D \cup {d}) = SumAmount(D) + a
  BY <1>1, <1>4, <1>5, SumWithRow
<1>8. NetPaid(J \cup {d}, w) = SumAmount(D \cup {d}) - SumAmount(R)
  BY <1>2, <1>3 DEF NetPaid
<1>9. NetPaid(J \cup {d}, w) = NetPaid(J, w) + a
  BY <1>1, <1>5, <1>6, <1>7, <1>8
<1> QED
  BY <1>9 DEF d

(* A reversal lowers what is paid out by its amount.                       *)
LEMMA ReversalTakesBack ==
  ASSUME NEW J, IsFiniteSet(Kobo(J)), NEW w, NEW k, NEW a \in Amounts,
         Reversal(w, k, a) \notin J
  PROVE  NetPaid(J \cup {Reversal(w, k, a)}, w) = NetPaid(J, w) - a
<1> DEFINE r == Reversal(w, k, a)
           D == LegOf(J, "bank-debit", w)
           R == LegOf(J, "reversal", w)
<1>1. /\ r.key = <<"reversal", w, k>> /\ r.status = "SUCCESSFUL"
      /\ r.wallet = w /\ r.amount = a /\ a \in Nat
  BY AmountsAssumption DEF Reversal
<1> HIDE DEF r
<1>2. LegOf(J \cup {r}, "bank-debit", w) = D
  BY <1>1 DEF LegOf
<1>3. LegOf(J \cup {r}, "reversal", w) = R \cup {r}
  BY <1>1 DEF LegOf
<1>4. r \notin R
  BY DEF r, LegOf
<1>5. IsFiniteSet(Kobo(R)) /\ SumAmount(D) \in Nat /\ SumAmount(R) \in Nat
  BY LegSums
<1>6. NetPaid(J, w) = SumAmount(D) - SumAmount(R)
  BY DEF NetPaid
<1> HIDE DEF D, R
<1>7. SumAmount(R \cup {r}) = SumAmount(R) + a
  BY <1>1, <1>4, <1>5, SumWithRow
<1>8. NetPaid(J \cup {r}, w) = SumAmount(D) - SumAmount(R \cup {r})
  BY <1>2, <1>3 DEF NetPaid
<1>9. NetPaid(J \cup {r}, w) = NetPaid(J, w) - a
  BY <1>1, <1>5, <1>6, <1>7, <1>8
<1> QED
  BY <1>9 DEF r

-----------------------------------------------------------------------------
(* A funding that is announced changes nothing for the account holder.     *)
LEMMA PendingIsNothing ==
  ASSUME BookInv, NEW w \in Wallets, NEW k \in Keys, NEW a \in Amounts,
         PostPending(w, k, a)
  PROVE  UNCHANGED Book!vars
<1> DEFINE p == PendingFunding(w, k, a)
<1>1. journal' = journal \cup {p}
  BY DEF PostPending
<1>2. p.key[1] = "funding" /\ p.status = "PENDING"
  BY DEF PendingFunding
<1> HIDE DEF p
<1>3. \A v : Balance(journal', v) = Balance(journal, v)
  BY <1>1, <1>2, BalanceOfOthers
<1>4. \A v : NetPaid(journal', v) = NetPaid(journal, v)
  BY <1>1, <1>2, OthersLeavePayments
<1>5. /\ Balances(journal') = Balances(journal)
      /\ NetPayments(journal') = NetPayments(journal)
  BY <1>3, <1>4, Zenon DEF Balances, NetPayments
<1> QED
  BY <1>5, BookSteps

(* A completed funding is a deposit.                                       *)
LEMMA CompletionIsDeposit ==
  ASSUME BookInv, NEW w \in Wallets, NEW k \in Keys, NEW a \in Amounts,
         CompleteCredit(w, k, a)
  PROVE  Book!Deposit(w, a)
<1> DEFINE p == PendingFunding(w, k, a)
           c == Completed(p)
           J == journal \ {p}
<1>1. p \in journal /\ journal' = J \cup {c}
  BY DEF CompleteCredit
<1>2. /\ p.key[1] = "funding" /\ p.status = "PENDING"
      /\ c.key = p.key /\ c.status = "SUCCESSFUL" /\ c.type = "CREDIT"
      /\ c.wallet = w /\ c.amount = a /\ a \in Nat
  BY AmountsAssumption DEF PendingFunding, Completed
<1> HIDE DEF p, c
<1>3. c \notin J
  BY <1>1, <1>2 DEF BookInv, FundingOnce
<1>4. IsFiniteSet(Kobo(J))
  BY SumOfPart DEF BookInv, RowsInv, LedgerInv, Summable
<1>5. \A v : Balance(J, v) = Balance(journal, v)
  BY <1>2, BalanceOfOthers
<1> HIDE DEF J
<1>6. Balance(journal', w) = Balance(journal, w) + a
  BY <1>1, <1>2, <1>3, <1>4, <1>5, BalanceWithCredit
<1>7. \A v \in Wallets \ {w} : Balance(journal', v) = Balance(journal, v)
  BY <1>1, <1>2, <1>5, BalanceOfOthers
<1>8. Balances(journal') = [Balances(journal) EXCEPT ![w] = @ + a]
  BY <1>2, <1>6, <1>7, OneBalanceChanges
<1>9. \A v : NetPaid(journal', v) = NetPaid(journal, v)
  BY <1>1, <1>2, OthersLeavePayments DEF J
<1>10. NetPayments(journal') = NetPayments(journal)
  BY <1>9, Zenon DEF NetPayments
<1> QED
  BY <1>8, <1>10, BookSteps

(* A transfer between wallets is a move.                                   *)
LEMMA TransferIsMove ==
  ASSUME BookInv, NEW s \in Wallets, NEW d \in Wallets, NEW k \in Keys,
         NEW a \in Amounts, TransferP2p(s, d, k, a)
  PROVE  Book!Move(s, d, a)
<1> DEFINE b == P2pDebit(s, k, a)
           c == P2pCredit(s, d, k, a)
           J == journal \cup {b}
<1>1. /\ s # d /\ Balance(journal, s) >= a /\ journal' = J \cup {c}
      /\ WithdrawalKeyFree(s, k)
  BY DEF TransferP2p
<1>2. /\ b.key = <<"p2p-debit", s, k>> /\ b.status = "SUCCESSFUL"
      /\ b.type = "DEBIT" /\ b.wallet = s /\ b.amount = a /\ a \in Nat
      /\ c.key = <<"p2p-credit", s, k>> /\ c.status = "SUCCESSFUL"
      /\ c.type = "CREDIT" /\ c.wallet = d /\ c.amount = a
  BY AmountsAssumption DEF P2pDebit, P2pCredit
<1>3. b \notin journal
  BY <1>1, <1>2 DEF WithdrawalKeyFree, HasKey
<1>4. c \notin J
  <2>1. c # b
    BY <1>2
  <2>2. ASSUME c \in journal PROVE FALSE
    <3>1. Known(journal, c)
      BY <2>2, PairedIsKnown DEF BookInv, RowsInv, LedgerInv
    <3>2. P2pDebit(s, k, a) \in journal
      BY <1>2, <3>1, KnownByLeg
    <3> QED
      BY <1>3, <3>2
  <2> QED
    BY <2>1, <2>2
<1>5. IsFiniteSet(Kobo(journal))
  BY DEF BookInv, RowsInv, LedgerInv, Summable
<1> HIDE DEF b, c
<1>6. IsFiniteSet(Kobo(J))
  BY <1>2, <1>3, <1>5, SumWithRow
<1>7. /\ Balance(J, s) = Balance(journal, s) - a
      /\ \A v \in Wallets \ {s} : Balance(J, v) = Balance(journal, v)
  BY <1>2, <1>3, <1>5, BalanceWithDebit, BalanceOfOthers
<1>8. \A r : r.key[1] \in {"bank-debit", "reversal"} => (r \in journal' <=> r \in journal)
  BY <1>1, <1>2
<1> HIDE DEF J
<1>9. /\ Balance(journal', d) = Balance(J, d) + a
      /\ \A v \in Wallets \ {d} : Balance(journal', v) = Balance(J, v)
  BY <1>1, <1>2, <1>4, <1>6, BalanceWithCredit, BalanceOfOthers
<1>10. /\ Balance(journal', s) = Balance(journal, s) - a
       /\ Balance(journal', d) = Balance(journal, d) + a
       /\ \A v \in Wallets \ {s, d} : Balance(journal', v) = Balance(journal, v)
  BY <1>1, <1>7, <1>9
<1>11. Balances(journal') = [Balances(journal) EXCEPT ![s] = @ - a, ![d] = @ + a]
  BY <1>1, <1>10 DEF Balances
<1>12. \A v : NetPaid(journal', v) = NetPaid(journal, v)
  BY <1>8, OthersLeavePayments
<1>13. NetPayments(journal') = NetPayments(journal)
  BY <1>12, Zenon DEF NetPayments
<1> QED
  BY <1>1, <1>11, <1>13, BookSteps

(* A bank debit is a payment to the outside.                               *)
LEMMA DebitIsPayOut ==
  ASSUME BookInv, NEW w \in Wallets, NEW k \in Keys, NEW a \in Amounts,
         DebitBank(w, k, a)
  PROVE  Book!PayOut(w, a)
<1> DEFINE d == BankDebit(w, k, a)
<1>1. /\ Balance(journal, w) >= a /\ journal' = journal \cup {d}
      /\ WithdrawalKeyFree(w, k)
  BY DEF DebitBank
<1>2. /\ d.key = <<"bank-debit", w, k>> /\ d.status = "SUCCESSFUL"
      /\ d.type = "DEBIT" /\ d.wallet = w /\ d.amount = a /\ a \in Nat
  BY AmountsAssumption DEF BankDebit
<1>3. d \notin journal
  BY <1>1, <1>2 DEF WithdrawalKeyFree, HasKey
<1>4. IsFiniteSet(Kobo(journal))
  BY DEF BookInv, RowsInv, LedgerInv, Summable
<1>5. NetPaid(journal', w) = NetPaid(journal, w) + a
  BY <1>1, <1>3, <1>4, DebitPays
<1> HIDE DEF d
<1>6. /\ Balance(journal', w) = Balance(journal, w) - a
      /\ \A v \in Wallets \ {w} : Balance(journal', v) = Balance(journal, v)
  BY <1>1, <1>2, <1>3, <1>4, BalanceWithDebit, BalanceOfOthers
<1>7. Balances(journal') = [Balances(journal) EXCEPT ![w] = @ - a]
  BY <1>6 DEF Balances
<1>8. \A v \in Wallets \ {w} : NetPaid(journal', v) = NetPaid(journal, v)
  BY <1>1, <1>2, OthersLeavePayments
<1>9. NetPayments(journal') = [NetPayments(journal) EXCEPT ![w] = @ + a]
  BY <1>2, <1>5, <1>8, OnePaymentChanges
<1> QED
  BY <1>1, <1>7, <1>9, BookSteps

(* A reversal is a refund, of money that was paid out.                     *)
LEMMA ReversalIsRefund ==
  ASSUME BookInv, NEW w \in Wallets, NEW k \in Keys, NEW a \in Amounts,
         PostReversal(w, k, a)
  PROVE  Book!Refund(w, a)
<1> DEFINE r == Reversal(w, k, a)
<1>1. /\ journal' = journal \cup {r}
      /\ BankDebit(w, k, a) \in journal /\ ~ HasKey(journal, <<"reversal", w, k>>)
  BY DEF PostReversal
<1>2. /\ r.key = <<"reversal", w, k>> /\ r.status = "SUCCESSFUL"
      /\ r.type = "CREDIT" /\ r.wallet = w /\ r.amount = a /\ a \in Nat
  BY AmountsAssumption DEF Reversal
<1>3. r \notin journal
  BY <1>1, <1>2 DEF HasKey
<1>4. IsFiniteSet(Kobo(journal)) /\ RefundsAnswer(journal, w)
  BY DEF BookInv, RowsInv, LedgerInv, Summable, RefundsMatch
<1>5. NetPaid(journal, w) >= a
  <2>1. SumAmount(Open(journal, w)) >= a
    BY <1>1, <1>4, ReversedDebit, ReversalCloses DEF BookInv
  <2> QED
    BY <1>4, <2>1, OpenIsPaidOut
<1>6. NetPaid(journal', w) = NetPaid(journal, w) - a
  BY <1>1, <1>3, <1>4, ReversalTakesBack
<1> HIDE DEF r
<1>7. /\ Balance(journal', w) = Balance(journal, w) + a
      /\ \A v \in Wallets \ {w} : Balance(journal', v) = Balance(journal, v)
  <2>1. Balance(journal \cup {r}, w) = Balance(journal, w) + a
    BY <1>2, <1>3, <1>4, BalanceWithCredit
  <2>2. \A v \in Wallets \ {w} : Balance(journal \cup {r}, v) = Balance(journal, v)
    BY <1>2, BalanceOfOthers
  <2> QED
    BY <1>1, <2>1, <2>2
<1>8. Balances(journal') = [Balances(journal) EXCEPT ![w] = @ + a]
  BY <1>2, <1>7, OneBalanceChanges
<1>9. \A v \in Wallets \ {w} : NetPaid(journal', v) = NetPaid(journal, v)
  BY <1>1, <1>2, OthersLeavePayments
<1>10. NetPayments(journal') = [NetPayments(journal) EXCEPT ![w] = @ - a]
  BY <1>6, <1>9 DEF NetPayments
<1> QED
  BY <1>5, <1>8, <1>10, BookSteps

(* A step of the ledger is a step of the book, or nothing.                 *)
LEMMA StepOfBook ==
  ASSUME BookInv, [Next]_journal
  PROVE  [Book!Next]_(Book!vars)
<1>1. ASSUME NEW w \in Wallets, NEW k \in Keys, NEW a \in Amounts,
             PostPending(w, k, a)
      PROVE  UNCHANGED Book!vars
  BY <1>1, PendingIsNothing
<1>2. ASSUME NEW w \in Wallets, NEW d \in Wallets, NEW k \in Keys, NEW a \in Amounts,
             \/ CompleteCredit(w, k, a) \/ TransferP2p(w, d, k, a)
             \/ DebitBank(w, k, a) \/ PostReversal(w, k, a)
      PROVE  Book!Next
  <2>1. \/ Book!Deposit(w, a) \/ Book!Move(w, d, a)
        \/ Book!PayOut(w, a) \/ Book!Refund(w, a)
    BY <1>2, CompletionIsDeposit, TransferIsMove, DebitIsPayOut, ReversalIsRefund
  <2> QED
    BY <2>1, Zenon DEF Book!Next
<1>3. CASE UNCHANGED journal
  BY <1>3, BookSteps, BookIs, BookWillBe DEF Book!vars
<1> QED
  BY <1>1, <1>2, <1>3 DEF Next

(* The sums over the journal are balances that are kept and checked, and   *)
(* no more is refunded than was paid out.                                  *)
THEOREM SumsAreBalances == Spec => ImplementsAccounts
<1>1. Init => Book!Init
  <2> SUFFICES ASSUME Init PROVE Book!Init
    OBVIOUS
  <2>1. /\ \A w, type : Settled(journal, w, type) = {}
        /\ \A w, leg : LegOf(journal, leg, w) = {}
    BY DEF Init, Settled, LegOf
  <2>2. Kobo({}) = {}
    BY DEF Kobo
  <2>3. SumAmount({}) = 0
    BY <2>2, FS_EmptySet, Zenon DEF SumAmount
  <2>4. \A w, type : SumAmount(Settled(journal, w, type)) = 0
    BY <2>1, <2>3, Zenon
  <2>5. \A w, leg : SumAmount(LegOf(journal, leg, w)) = 0
    BY <2>1, <2>3, Zenon
  <2>6. \A w : Balance(journal, w) = 0 /\ NetPaid(journal, w) = 0
    BY <2>4, <2>5 DEF Balance, NetPaid
  <2>7. \A w \in Wallets : PaidOut(w) = 0
    BY <2>6, BookIs
  <2> QED
    BY <2>6, <2>7, Zenon DEF Book!Init
<1> QED
  BY <1>1, StepOfBook, BookInvariant, PTL DEF Spec, ImplementsAccounts, Book!Spec
=============================================================================
