--------------------------- MODULE MoneyFlowProofs ---------------------------
(***************************************************************************)
(* Where the money is: for any wallets, keys and amounts, what customers   *)
(* paid is what the wallets hold, what banks paid out, and what is on its  *)
(* way between them.                                                       *)
(***************************************************************************)
EXTENDS MoneyFlow, LedgerProofs

(* What the jobs are answered restricts the ledger's steps and adds none.  *)
LEMMA FlowStepsLedger == [FlowNext]_flowVars => [Next]_journal
<1> SUFFICES ASSUME [FlowNext]_flowVars PROVE [Next]_journal
  OBVIOUS
<1>1. CASE UNCHANGED flowVars
  BY <1>1 DEF flowVars
<1>2. ASSUME NEW w \in Wallets, NEW k \in Keys, NEW a \in Amounts,
             \/ PostPending(w, k, a) \/ Credit(w, k, a)
             \/ DebitBank(w, k, a) \/ GiveBack(w, k, a)
             \/ \E d \in Wallets : TransferP2p(w, d, k, a)
      PROVE  Next
  BY <1>2 DEF Credit, GiveBack, Next
<1>3. ASSUME NEW w \in Wallets, NEW k \in Keys, NEW a \in Amounts,
             TakePayment(w, k, a) \/ PayOut(w, k, a) \/ Refuse(w, k, a)
      PROVE  UNCHANGED journal
  BY <1>3 DEF TakePayment, PayOut, Refuse
<1> QED
  BY <1>1, <1>2, <1>3 DEF FlowNext

(* So whatever is proved of the ledger holds here.                         *)
THEOREM FlowIsLedger == FlowSpec => Spec
<1>1. FlowInit => Init
  BY DEF FlowInit
<1> QED
  BY <1>1, FlowStepsLedger, PTL DEF FlowSpec, Spec

-----------------------------------------------------------------------------
(* Nothing is credited that the provider did not take, and it takes only   *)
(* payments of fundings that were announced.                               *)
CreditsTaken ==
  /\ taken \subseteq Row
  /\ IsFiniteSet(Kobo(taken))
  /\ \A r \in taken : /\ r.key[1] = "funding" /\ r.status = "SUCCESSFUL"
                       /\ HasKey(journal, r.key)
  /\ OfLeg("funding") \subseteq taken

(* No key leaves the journal.                                              *)
LEMMA KeysKept ==
  ASSUME [Next]_journal, NEW key, HasKey(journal, key)
  PROVE  HasKey(journal', key)
<1>1. PICK r \in journal : r.key = key
  BY DEF HasKey
<1>2. Completed(r).key = r.key
  BY DEF Completed
<1> QED
  BY <1>1, <1>2, RowsKept DEF HasKey

LEMMA CreditsTakenStep ==
  RowsInv /\ CreditsTaken /\ [FlowNext]_flowVars => CreditsTaken'
<1> SUFFICES ASSUME RowsInv, CreditsTaken, [FlowNext]_flowVars PROVE CreditsTaken'
  OBVIOUS
<1>0. \A key : HasKey(journal, key) => HasKey(journal', key)
  BY FlowStepsLedger, KeysKept
<1>1. ASSUME taken' = taken,
             \A r \in journal' : r.key[1] = "funding" /\ r.status = "SUCCESSFUL"
                                   => r \in journal \/ r \in taken
      PROVE  CreditsTaken'
  <2>1. OfLeg("funding")' \subseteq taken
    BY <1>1 DEF OfLeg, Leg, CreditsTaken
  <2> QED
    BY <1>0, <1>1, <2>1 DEF CreditsTaken
<1>2. ASSUME NEW w \in Wallets, NEW k \in Keys, NEW a \in Amounts, TakePayment(w, k, a)
      PROVE  CreditsTaken'
  <2> DEFINE c == Credited(w, k, a)
  <2>1. /\ c \in Row /\ c.key[1] = "funding" /\ c.status = "SUCCESSFUL"
    BY RowTypes DEF Credited, Completed, PendingFunding
  <2>2. /\ taken' = taken \cup {c} /\ journal' = journal
        /\ HasKey(journal, c.key)
    BY <1>2 DEF TakePayment, HasKey, Credited, Completed, PendingFunding
  <2> HIDE DEF c
  <2>3. taken' \subseteq Row /\ IsFiniteSet(Kobo(taken'))
    BY <2>1, <2>2, AddedRow DEF CreditsTaken
  <2>4. OfLeg("funding")' = OfLeg("funding")
    BY <2>2 DEF OfLeg
  <2> QED
    BY <2>1, <2>2, <2>3, <2>4 DEF CreditsTaken
<1>3. ASSUME NEW w \in Wallets, NEW k \in Keys, NEW a \in Amounts, Credit(w, k, a)
      PROVE  CreditsTaken'
  <2>1. Credited(w, k, a) \in taken
    BY <1>3 DEF Credit, VerifiedSuccessful
  <2>2. /\ taken' = taken
        /\ \A r \in journal' : r \in journal \/ r = Credited(w, k, a)
    BY <1>3 DEF Credit, OutsideUnchanged, CompleteCredit, Credited
  <2> QED
    BY <1>1, <2>1, <2>2
<1>4. ASSUME NEW w \in Wallets, NEW k \in Keys, NEW a \in Amounts,
             \/ PostPending(w, k, a) /\ OutsideUnchanged
             \/ \E d \in Wallets : TransferP2p(w, d, k, a) /\ OutsideUnchanged
             \/ DebitBank(w, k, a) /\ OutsideUnchanged
             \/ GiveBack(w, k, a)
      PROVE  CreditsTaken'
  <2>1. taken' = taken
    BY <1>4 DEF GiveBack, OutsideUnchanged
  <2>2. /\ PendingFunding(w, k, a).status = "PENDING"
        /\ P2pDebit(w, k, a).key[1] = "p2p-debit"
        /\ \A d : P2pCredit(w, d, k, a).key[1] = "p2p-credit"
        /\ BankDebit(w, k, a).key[1] = "bank-debit"
        /\ Reversal(w, k, a).key[1] = "reversal"
    BY DEF PendingFunding, P2pDebit, P2pCredit, BankDebit, Reversal
  <2>3. \A r \in journal' : r.key[1] = "funding" /\ r.status = "SUCCESSFUL"
                              => r \in journal
    BY <1>4, <2>2 DEF PostPending, TransferP2p, DebitBank, GiveBack, PostReversal
  <2> QED
    BY <1>1, <2>1, <2>3
<1>5. ASSUME NEW w \in Wallets, NEW k \in Keys, NEW a \in Amounts,
             PayOut(w, k, a) \/ Refuse(w, k, a)
      PROVE  CreditsTaken'
  BY <1>1, <1>5 DEF PayOut, Refuse
<1>6. CASE UNCHANGED flowVars
  BY <1>1, <1>6 DEF flowVars
<1> QED
  BY <1>2, <1>3, <1>4, <1>5, <1>6 DEF FlowNext

-----------------------------------------------------------------------------
(* No transfer was both paid out and refused, and what came back of one    *)
(* was refused.                                                            *)
AnswersFinal ==
  /\ banked \cap refused = {}
  /\ \A w \in Wallets, k \in Keys, a \in Amounts :
       Reversal(w, k, a) \in journal => BankDebit(w, k, a) \in refused

LEMMA AnswersFinalStep ==
  AnswersFinal /\ [FlowNext]_flowVars => AnswersFinal'
<1> SUFFICES ASSUME AnswersFinal, [FlowNext]_flowVars PROVE AnswersFinal'
  OBVIOUS
<1>1. ASSUME UNCHANGED <<banked, refused>>,
             \A r \in journal' : r.key[1] = "reversal" => r \in journal
      PROVE  AnswersFinal'
  <2>1. \A u, x, b : Reversal(u, x, b).key[1] = "reversal"
    BY DEF Reversal
  <2>2. \A u, x, b : Reversal(u, x, b) \in journal' => Reversal(u, x, b) \in journal
    BY <1>1, <2>1
  <2> QED
    BY <1>1, <2>2 DEF AnswersFinal
<1>2. ASSUME NEW w \in Wallets, NEW k \in Keys, NEW a \in Amounts,
             \/ PostPending(w, k, a) /\ OutsideUnchanged
             \/ TakePayment(w, k, a)
             \/ Credit(w, k, a)
             \/ \E d \in Wallets : TransferP2p(w, d, k, a) /\ OutsideUnchanged
             \/ DebitBank(w, k, a) /\ OutsideUnchanged
      PROVE  AnswersFinal'
  <2>1. UNCHANGED <<banked, refused>>
    BY <1>2 DEF TakePayment, Credit, OutsideUnchanged
  <2>2. /\ PendingFunding(w, k, a).key[1] = "funding"
        /\ Completed(PendingFunding(w, k, a)).key[1] = "funding"
        /\ P2pDebit(w, k, a).key[1] = "p2p-debit"
        /\ \A d : P2pCredit(w, d, k, a).key[1] = "p2p-credit"
        /\ BankDebit(w, k, a).key[1] = "bank-debit"
    BY DEF PendingFunding, Completed, P2pDebit, P2pCredit, BankDebit
  <2>3. \A r \in journal' : r.key[1] = "reversal" => r \in journal
    BY <1>2, <2>2 DEF PostPending, TakePayment, Credit, CompleteCredit, TransferP2p,
      DebitBank
  <2> QED
    BY <1>1, <2>1, <2>3
<1>3. ASSUME NEW w \in Wallets, NEW k \in Keys, NEW a \in Amounts,
             PayOut(w, k, a) \/ Refuse(w, k, a)
      PROVE  AnswersFinal'
  <2>1. journal' = journal /\ banked' \cap refused' = {} /\ refused \subseteq refused'
    BY <1>3 DEF PayOut, Refuse, AnswersFinal
  <2> QED
    BY <2>1 DEF AnswersFinal
<1>4. ASSUME NEW w \in Wallets, NEW k \in Keys, NEW a \in Amounts, GiveBack(w, k, a)
      PROVE  AnswersFinal'
  <2>1. /\ UNCHANGED <<banked, refused>> /\ BankDebit(w, k, a) \in refused
        /\ journal' = journal \cup {Reversal(w, k, a)}
    BY <1>4 DEF GiveBack, AnsweredFailed, PostReversal, OutsideUnchanged
  <2>2. \A u, x, b : Reversal(u, x, b) = Reversal(w, k, a) => u = w /\ x = k /\ b = a
    BY DEF Reversal
  <2> QED
    BY <2>1, <2>2 DEF AnswersFinal
<1>5. CASE UNCHANGED flowVars
  BY <1>1, <1>5 DEF flowVars
<1> QED
  BY <1>2, <1>3, <1>4, <1>5 DEF FlowNext

-----------------------------------------------------------------------------
(* What was debited for banks came back, was paid out, or is unsettled.    *)
WithdrawalsSplit ==
  /\ banked \subseteq OfLeg("bank-debit")
  /\ IsFiniteSet(Kobo(banked))
  /\ SumAmount(OfLeg("bank-debit"))
       = SumAmount(OfLeg("reversal")) + SumAmount(banked) + SumAmount(Unsettled)

(* These sums are numbers.                                                 *)
LEMMA SplitSums ==
  ASSUME RowsInv, WithdrawalsSplit
  PROVE  /\ \A leg : /\ IsFiniteSet(Kobo(OfLeg(leg)))
                     /\ SumAmount(OfLeg(leg)) \in Nat
         /\ IsFiniteSet(Kobo(banked)) /\ SumAmount(banked) \in Nat
         /\ IsFiniteSet(Kobo(Unsettled)) /\ SumAmount(Unsettled) \in Nat
<1>1. IsFiniteSet(Kobo(journal))
  BY DEF RowsInv, LedgerInv, Summable
<1>2. \A leg : OfLeg(leg) \subseteq journal
  BY DEF OfLeg
<1>3. Unsettled \subseteq journal
  BY <1>2 DEF Unsettled
<1> QED
  BY <1>1, <1>2, <1>3, SumOfPart DEF WithdrawalsSplit

(* A debit that is accepted is unsettled.                                  *)
LEMMA AcceptSplits ==
  ASSUME RowsInv, WithdrawalsSplit, NEW w \in Wallets, NEW k \in Keys,
         NEW a \in Amounts, DebitBank(w, k, a), OutsideUnchanged
  PROVE  WithdrawalsSplit'
<1> DEFINE d == BankDebit(w, k, a)
           B == OfLeg("bank-debit")
           U == Unsettled
<1>1. Reversal(w, k, a).key = <<"reversal", w, k>>
  BY DEF Reversal
<1>2. d \notin journal /\ d \notin banked /\ Reversal(w, k, a) \notin journal
  BY <1>1, FreshDebit DEF DebitBank, HasKey, WithdrawalsSplit, OfLeg
<1>3. /\ d.key = <<"bank-debit", w, k>> /\ d.status = "SUCCESSFUL"
      /\ d.wallet = w /\ d.amount = a /\ a \in Nat
  BY AmountsAssumption DEF BankDebit
<1>4. \A u, x, b : Reversal(u, x, b) # d
  BY DEF BankDebit, Reversal
<1>5. journal' = journal \cup {d} /\ banked' = banked
  BY DEF DebitBank, OutsideUnchanged
<1> HIDE DEF d
<1>6. B' = B \cup {d} /\ OfLeg("reversal")' = OfLeg("reversal")
  BY <1>3, <1>5 DEF OfLeg, Leg
<1>7. U' = U \cup {d}
  BY <1>2, <1>3, <1>4, <1>5, <1>6 DEF Unsettled
<1>8. d \notin B /\ d \notin U
  BY <1>2 DEF OfLeg, Unsettled
<1> HIDE DEF B, U
<1>9. /\ IsFiniteSet(Kobo(B)) /\ SumAmount(B) \in Nat
      /\ IsFiniteSet(Kobo(U)) /\ SumAmount(U) \in Nat
      /\ SumAmount(OfLeg("reversal")) \in Nat /\ SumAmount(banked) \in Nat
  BY SplitSums DEF B, U
<1>10. /\ SumAmount(B \cup {d}) = SumAmount(B) + a
       /\ SumAmount(U \cup {d}) = SumAmount(U) + a
  BY <1>3, <1>8, <1>9, SumWithRow
<1>11. SumAmount(B) = SumAmount(OfLeg("reversal")) + SumAmount(banked) + SumAmount(U)
  BY DEF WithdrawalsSplit, B, U
<1>12. SumAmount(B \cup {d})
         = SumAmount(OfLeg("reversal")) + SumAmount(banked) + SumAmount(U \cup {d})
  BY <1>3, <1>9, <1>10, <1>11
<1> QED
  BY <1>5, <1>6, <1>7, <1>12 DEF WithdrawalsSplit, B, U

(* Taking debit d out of the unsettled ones leaves the sum of the others.  *)
LEMMA Settling ==
  ASSUME RowsInv, WithdrawalsSplit, NEW d \in Unsettled
  PROVE  /\ d.amount \in Nat
         /\ SumAmount(Unsettled \ {d}) \in Nat
         /\ SumAmount(Unsettled) = SumAmount(Unsettled \ {d}) + d.amount
<1> DEFINE U == Unsettled
           V == U \ {d}
<1>1. IsFiniteSet(Kobo(U))
  BY SplitSums
<1>2. d \in Row
  BY DEF Unsettled, OfLeg, RowsInv, LedgerInv, TypeOK
<1>3. d.amount \in Nat
  BY <1>2, AmountsAssumption DEF Row
<1>4. U = V \cup {d} /\ V \subseteq U /\ d \notin V
  OBVIOUS
<1> HIDE DEF U, V
<1>5. IsFiniteSet(Kobo(V)) /\ SumAmount(V) \in Nat
  BY <1>1, <1>4, SumOfPart
<1>6. SumAmount(V \cup {d}) = SumAmount(V) + d.amount
  BY <1>3, <1>4, <1>5, SumWithRow
<1> QED
  BY <1>3, <1>4, <1>5, <1>6 DEF U, V

(* A debit that a bank pays out is not unsettled any more.                 *)
LEMMA PayOutSplits ==
  ASSUME RowsInv, AnswersFinal, WithdrawalsSplit, NEW w \in Wallets, NEW k \in Keys,
         NEW a \in Amounts, PayOut(w, k, a), BankDebit(w, k, a) \notin banked
  PROVE  WithdrawalsSplit'
<1> DEFINE d == BankDebit(w, k, a)
           U == Unsettled
<1>2. d \in journal /\ d \notin banked /\ Reversal(w, k, a) \notin journal
  BY DEF PayOut, AnswersFinal
<1>3. /\ d.key = <<"bank-debit", w, k>> /\ d.status = "SUCCESSFUL"
      /\ d.wallet = w /\ d.amount = a /\ d \in Row
  BY RowTypes DEF BankDebit
<1>4. banked' = banked \cup {d} /\ journal' = journal
  BY DEF PayOut
<1> HIDE DEF d
<1>5. d \in U
  BY <1>2, <1>3 DEF Unsettled, OfLeg, Leg
<1>6. \A leg : OfLeg(leg)' = OfLeg(leg)
  BY <1>4 DEF OfLeg
<1>7. U' = U \ {d}
  BY <1>4, <1>6 DEF Unsettled
<1>8. /\ SumAmount(U \ {d}) \in Nat
      /\ SumAmount(U) = SumAmount(U \ {d}) + a /\ a \in Nat
  BY <1>3, <1>5, Settling
<1>9. /\ IsFiniteSet(Kobo(banked)) /\ SumAmount(banked) \in Nat
      /\ SumAmount(OfLeg("reversal")) \in Nat
  BY SplitSums
<1>10. /\ IsFiniteSet(Kobo(banked \cup {d}))
       /\ SumAmount(banked \cup {d}) = SumAmount(banked) + a
  BY <1>2, <1>3, <1>8, <1>9, SumWithRow
<1>11. SumAmount(OfLeg("bank-debit"))
         = SumAmount(OfLeg("reversal")) + SumAmount(banked) + SumAmount(U)
  BY DEF WithdrawalsSplit
<1> HIDE DEF U
<1>12. SumAmount(OfLeg("bank-debit"))
         = SumAmount(OfLeg("reversal")) + SumAmount(banked \cup {d})
             + SumAmount(U \ {d})
  BY <1>8, <1>9, <1>10, <1>11
<1>13. banked' \subseteq OfLeg("bank-debit")'
  BY <1>4, <1>5, <1>6 DEF WithdrawalsSplit, U, Unsettled
<1> QED
  BY <1>4, <1>6, <1>7, <1>10, <1>12, <1>13 DEF WithdrawalsSplit, U

(* A debit that is given back is not unsettled any more either, and it is  *)
(* the only one.                                                           *)
LEMMA GiveBackSplits ==
  ASSUME RowsInv, AnswersFinal, WithdrawalsSplit, NEW w \in Wallets, NEW k \in Keys,
         NEW a \in Amounts, GiveBack(w, k, a)
  PROVE  WithdrawalsSplit'
<1> DEFINE d == BankDebit(w, k, a)
           r == Reversal(w, k, a)
           R == OfLeg("reversal")
           U == Unsettled
<1>1. r.key = <<"reversal", w, k>>
  BY DEF Reversal
<1>2. d \in journal /\ d \notin banked /\ r \notin journal
  BY <1>1 DEF GiveBack, AnsweredFailed, AnswersFinal, PostReversal, HasKey
<1>3. /\ d.key = <<"bank-debit", w, k>> /\ d.status = "SUCCESSFUL"
      /\ d.wallet = w /\ d.amount = a
      /\ r.key = <<"reversal", w, k>> /\ r.status = "SUCCESSFUL"
      /\ r.wallet = w /\ r.amount = a
  BY DEF BankDebit, Reversal
<1>4. journal' = journal \cup {r} /\ banked' = banked
  BY DEF GiveBack, PostReversal, OutsideUnchanged
<1>5. \A q \in OfLeg("bank-debit") : Reversal(q.wallet, q.key[3], q.amount) = r <=> q = d
  <2> TAKE q \in OfLeg("bank-debit")
  <2>1. q \in journal /\ q.key[1] = "bank-debit"
    BY DEF OfLeg, Leg
  <2>2. Known(journal, q)
    BY <2>1, PairedIsKnown DEF RowsInv, LedgerInv
  <2>3. q = BankDebit(q.key[2], q.key[3], q.amount)
    BY <2>1, <2>2, KnownByLeg
  <2>4. q.wallet = q.key[2]
    BY <2>3 DEF BankDebit
  <2>5. \A u, x, b : /\ Reversal(u, x, b).wallet = u /\ Reversal(u, x, b).amount = b
                     /\ Reversal(u, x, b).key[3] = x
    BY DEF Reversal
  <2>6. ASSUME Reversal(q.wallet, q.key[3], q.amount) = r
        PROVE  q = d
    <3>1. q.wallet = w /\ q.key[3] = k /\ q.amount = a
      BY <2>5, <2>6
    <3> QED
      BY <2>3, <2>4, <3>1
  <2> QED
    BY <1>3, <2>6
<1> HIDE DEF d, r
<1>6. d \in U
  BY <1>2, <1>3, <1>5 DEF Unsettled, OfLeg, Leg
<1>7. R' = R \cup {r} /\ OfLeg("bank-debit")' = OfLeg("bank-debit")
  BY <1>3, <1>4 DEF OfLeg, Leg
<1>8. U' = U \ {d}
  BY <1>4, <1>5, <1>7 DEF Unsettled
<1>9. /\ SumAmount(U \ {d}) \in Nat
      /\ SumAmount(U) = SumAmount(U \ {d}) + a /\ a \in Nat
  BY <1>3, <1>6, Settling
<1>10. r \notin R
  BY <1>2 DEF OfLeg
<1> HIDE DEF R
<1>11. /\ IsFiniteSet(Kobo(R)) /\ SumAmount(R) \in Nat /\ SumAmount(banked) \in Nat
  BY SplitSums DEF R
<1>12. SumAmount(R \cup {r}) = SumAmount(R) + a
  BY <1>3, <1>9, <1>10, <1>11, SumWithRow
<1>13. SumAmount(OfLeg("bank-debit"))
         = SumAmount(R) + SumAmount(banked) + SumAmount(U)
  BY DEF WithdrawalsSplit, R
<1> HIDE DEF U
<1>14. SumAmount(OfLeg("bank-debit"))
         = SumAmount(R \cup {r}) + SumAmount(banked) + SumAmount(U \ {d})
  BY <1>9, <1>11, <1>12, <1>13
<1> QED
  BY <1>4, <1>7, <1>8, <1>14 DEF WithdrawalsSplit, U, R

LEMMA WithdrawalsSplitStep ==
  RowsInv /\ AnswersFinal /\ WithdrawalsSplit /\ [FlowNext]_flowVars => WithdrawalsSplit'
<1> SUFFICES ASSUME RowsInv, AnswersFinal, WithdrawalsSplit, [FlowNext]_flowVars
             PROVE  WithdrawalsSplit'
  OBVIOUS
<1>1. ASSUME banked' = banked,
             \A r : r.key[1] \in {"bank-debit", "reversal"} =>
                      (r \in journal' <=> r \in journal)
      PROVE  WithdrawalsSplit'
  <2>1. /\ OfLeg("bank-debit")' = OfLeg("bank-debit")
        /\ OfLeg("reversal")' = OfLeg("reversal")
    BY <1>1 DEF OfLeg, Leg
  <2>2. \A u, x, b : Reversal(u, x, b).key[1] = "reversal"
    BY DEF Reversal
  <2>3. Unsettled' = Unsettled
    BY <1>1, <2>1, <2>2 DEF Unsettled
  <2> QED
    BY <1>1, <2>1, <2>3 DEF WithdrawalsSplit
<1>2. ASSUME NEW w \in Wallets, NEW k \in Keys, NEW a \in Amounts,
             \/ PostPending(w, k, a) /\ OutsideUnchanged
             \/ Credit(w, k, a)
             \/ \E d \in Wallets : TransferP2p(w, d, k, a) /\ OutsideUnchanged
             \/ TakePayment(w, k, a) \/ Refuse(w, k, a)
      PROVE  WithdrawalsSplit'
  <2>1. banked' = banked
    BY <1>2 DEF Credit, TakePayment, Refuse, OutsideUnchanged
  <2>2. /\ PendingFunding(w, k, a).key[1] = "funding"
        /\ Completed(PendingFunding(w, k, a)).key[1] = "funding"
        /\ P2pDebit(w, k, a).key[1] = "p2p-debit"
        /\ \A d : P2pCredit(w, d, k, a).key[1] = "p2p-credit"
    BY DEF PendingFunding, Completed, P2pDebit, P2pCredit
  <2>3. \A r : r.key[1] \in {"bank-debit", "reversal"} =>
                 (r \in journal' <=> r \in journal)
    BY <1>2, <2>2 DEF PostPending, Credit, CompleteCredit, TransferP2p, TakePayment,
      Refuse
  <2> QED
    BY <1>1, <2>1, <2>3
<1>3. ASSUME NEW w \in Wallets, NEW k \in Keys, NEW a \in Amounts, PayOut(w, k, a)
      PROVE  WithdrawalsSplit'
  <2>1. CASE BankDebit(w, k, a) \in banked
    <3>1. banked' = banked /\ journal' = journal
      BY <1>3, <2>1 DEF PayOut
    <3> QED
      BY <1>1, <3>1
  <2>2. CASE BankDebit(w, k, a) \notin banked
    BY <1>3, <2>2, PayOutSplits
  <2> QED
    BY <2>1, <2>2
<1>4. CASE UNCHANGED flowVars
  BY <1>1, <1>4 DEF flowVars
<1> QED
  BY <1>2, <1>3, <1>4, AcceptSplits, GiveBackSplits DEF FlowNext

-----------------------------------------------------------------------------
(* The invariant of the money, inside the ledger and outside.              *)
FlowInv == RowsInv /\ CreditsTaken /\ AnswersFinal /\ WithdrawalsSplit

(* The invariant holds in every reachable state.                           *)
THEOREM FlowInvariant == FlowSpec => []FlowInv
<1>1. FlowInit => CreditsTaken /\ AnswersFinal /\ WithdrawalsSplit
  <2> SUFFICES ASSUME FlowInit PROVE CreditsTaken /\ AnswersFinal /\ WithdrawalsSplit
    OBVIOUS
  <2>1. /\ \A leg : OfLeg(leg) = {}
        /\ journal = {} /\ taken = {} /\ banked = {}
    BY DEF FlowInit, Init, OfLeg
  <2>2. Unsettled = {}
    BY <2>1 DEF Unsettled
  <2>3. Kobo({}) = {}
    BY DEF Kobo
  <2>4. IsFiniteSet(Kobo({})) /\ SumAmount({}) = 0
    BY <2>3, FS_EmptySet, Zenon DEF SumAmount
  <2> QED
    BY <2>1, <2>2, <2>4 DEF CreditsTaken, AnswersFinal, WithdrawalsSplit
<1>2. /\ RowsInv /\ CreditsTaken /\ AnswersFinal /\ WithdrawalsSplit
      /\ [FlowNext]_flowVars
      => CreditsTaken' /\ AnswersFinal' /\ WithdrawalsSplit'
  BY CreditsTakenStep, AnswersFinalStep, WithdrawalsSplitStep
<1> QED
  BY <1>1, <1>2, FlowIsLedger, RowsInvariant, PTL DEF FlowSpec, FlowInv

(* What was taken is credited or waits for it.                             *)
LEMMA AccountedBySums == FlowInv => EveryKoboAccounted
<1> SUFFICES ASSUME FlowInv PROVE EveryKoboAccounted
  OBVIOUS
<1>0. RowsInv /\ CreditsTaken /\ WithdrawalsSplit
  BY DEF FlowInv
<1> DEFINE F == OfLeg("funding")
           R == OfLeg("reversal")
           B == OfLeg("bank-debit")
           W == Waiting
           U == Unsettled
           held == SumAmount(SettledOf("CREDIT")) - SumAmount(SettledOf("DEBIT"))
<1>1. taken = F \cup W /\ F \cap W = {} /\ W \subseteq taken
  BY <1>0 DEF CreditsTaken, Waiting, OfLeg, Leg
<1>2. /\ IsFiniteSet(Kobo(F)) /\ SumAmount(F) \in Nat
      /\ SumAmount(R) \in Nat /\ SumAmount(B) \in Nat
      /\ SumAmount(U) \in Nat /\ SumAmount(banked) \in Nat
  BY <1>0, SplitSums
<1>3. held = SumAmount(F) + SumAmount(R) - SumAmount(B)
  BY <1>0, ConservedBySums DEF RowsInv, MoneyConserved
<1>4. SumAmount(B) = SumAmount(R) + SumAmount(banked) + SumAmount(U)
  BY <1>0 DEF WithdrawalsSplit
<1> HIDE DEF F, R, B, W, U, held
<1>5. IsFiniteSet(Kobo(W)) /\ SumAmount(W) \in Nat
  BY <1>0, <1>1, SumOfPart DEF CreditsTaken
<1>6. SumAmount(F \cup W) = SumAmount(F) + SumAmount(W)
  BY <1>1, <1>2, <1>5, SumOfUnion
<1>7. SumAmount(taken) = SumAmount(F) + SumAmount(W)
  BY <1>1, <1>6
<1>8. SumAmount(taken) = held + SumAmount(banked) + SumAmount(U) + SumAmount(W)
  BY <1>2, <1>3, <1>4, <1>5, <1>7
<1> QED
  BY <1>8 DEF EveryKoboAccounted, held, U, W

(* What customers paid is in a wallet, at a bank, held for a bank, or      *)
(* about to be credited: executeP2p, executeBankAccept, postReversal and   *)
(* completeSuccessful neither lose nor make a kobo, if the provider is     *)
(* truthful and final.                                                     *)
THEOREM EveryKoboIsAccounted == FlowSpec => []EveryKoboAccounted
BY FlowInvariant, AccountedBySums, PTL

=============================================================================
