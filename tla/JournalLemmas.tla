--------------------------- MODULE JournalLemmas ---------------------------
(***************************************************************************)
(* Facts about the journal's sums, for every set of rows: how the sum and  *)
(* the balance of a set change when a row is added to it or taken away.    *)
(* A sum counts kobo, so each of them is a fact about cardinalities.       *)
(***************************************************************************)
EXTENDS Journal, FiniteSetTheorems, TLAPS

(* Fewer rows stand for fewer kobo.                                        *)
LEMMA KoboSubset ==
  ASSUME NEW R, NEW S, S \subseteq R
  PROVE  Kobo(S) \subseteq Kobo(R)
BY DEF Kobo

(* The kobo of two sets of rows together.                                  *)
LEMMA KoboUnion ==
  ASSUME NEW R, NEW S
  PROVE  Kobo(R \cup S) = Kobo(R) \cup Kobo(S)
BY DEF Kobo

(* Different rows stand for different kobo.                                *)
LEMMA KoboDisjoint ==
  ASSUME NEW R, NEW S, R \cap S = {}
  PROVE  Kobo(R) \cap Kobo(S) = {}
BY DEF Kobo

(* One row stands for its amount.                                          *)
LEMMA SumOfRow ==
  ASSUME NEW r, r.amount \in Nat
  PROVE  /\ IsFiniteSet(Kobo({r}))
         /\ SumAmount({r}) = r.amount
<1>1. Kobo({r}) = {r} \X (1 .. r.amount)
  BY DEF Kobo
<1>2. IsFiniteSet({r}) /\ Cardinality({r}) = 1
  BY FS_Singleton
<1>3. IsFiniteSet(1 .. r.amount) /\ Cardinality(1 .. r.amount) = r.amount
  BY FS_Interval
<1>4. /\ IsFiniteSet({r} \X (1 .. r.amount))
      /\ Cardinality({r} \X (1 .. r.amount)) = 1 * r.amount
  BY <1>2, <1>3, FS_Product, ZenonT(40)
<1>5. Cardinality({r} \X (1 .. r.amount)) = r.amount
  BY <1>4
<1> QED
  BY <1>1, <1>4, <1>5, Zenon DEF SumAmount

(* A sum of finitely many kobo is a natural number, and a part of the rows *)
(* sums to no more than the whole.                                         *)
LEMMA SumOfPart ==
  ASSUME NEW R, IsFiniteSet(Kobo(R)), NEW S, S \subseteq R
  PROVE  /\ IsFiniteSet(Kobo(S))
         /\ SumAmount(S) \in Nat
         /\ SumAmount(R) \in Nat
         /\ SumAmount(S) <= SumAmount(R)
<1>1. Kobo(S) \in SUBSET Kobo(R)
  BY KoboSubset
<1>2. IsFiniteSet(Kobo(S)) /\ Cardinality(Kobo(S)) <= Cardinality(Kobo(R))
  BY <1>1, FS_Subset
<1> QED
  BY <1>2, FS_CardinalityType DEF SumAmount

(* The sum of two disjoint sets of rows is the sum of their sums.          *)
LEMMA SumOfUnion ==
  ASSUME NEW R, IsFiniteSet(Kobo(R)), NEW S, IsFiniteSet(Kobo(S)),
         R \cap S = {}
  PROVE  /\ IsFiniteSet(Kobo(R \cup S))
         /\ SumAmount(R \cup S) = SumAmount(R) + SumAmount(S)
<1>1. Kobo(R \cup S) = Kobo(R) \cup Kobo(S)
  BY KoboUnion
<1>2. Kobo(R) \cap Kobo(S) = {}
  BY KoboDisjoint
<1>3. /\ IsFiniteSet(Kobo(R) \cup Kobo(S))
      /\ Cardinality(Kobo(R) \cup Kobo(S))
           = Cardinality(Kobo(R)) + Cardinality(Kobo(S)) - Cardinality({})
  BY <1>2, FS_Union
<1>4. /\ Cardinality({}) = 0
      /\ Cardinality(Kobo(R)) \in Nat
      /\ Cardinality(Kobo(S)) \in Nat
  BY FS_EmptySet, FS_CardinalityType
<1>5. Cardinality(Kobo(R) \cup Kobo(S))
        = Cardinality(Kobo(R)) + Cardinality(Kobo(S))
  BY <1>3, <1>4
<1> QED
  BY <1>1, <1>3, <1>5, Zenon DEF SumAmount

(* A row more adds its amount to the sum.                                  *)
LEMMA SumWithRow ==
  ASSUME NEW R, IsFiniteSet(Kobo(R)), NEW r, r \notin R, r.amount \in Nat
  PROVE  /\ IsFiniteSet(Kobo(R \cup {r}))
         /\ SumAmount(R \cup {r}) = SumAmount(R) + r.amount
<1>1. IsFiniteSet(Kobo({r})) /\ SumAmount({r}) = r.amount
  BY SumOfRow
<1>2. R \cap {r} = {}
  OBVIOUS
<1>3. /\ IsFiniteSet(Kobo(R \cup {r}))
      /\ SumAmount(R \cup {r}) = SumAmount(R) + SumAmount({r})
  BY <1>1, <1>2, SumOfUnion
<1> QED
  BY <1>1, <1>3

(* The sums a balance is made of are natural numbers.                      *)
LEMMA SettledSums ==
  ASSUME NEW R, IsFiniteSet(Kobo(R)), NEW w, NEW type
  PROVE  /\ IsFiniteSet(Kobo(Settled(R, w, type)))
         /\ SumAmount(Settled(R, w, type)) \in Nat
<1>1. Settled(R, w, type) \subseteq R
  BY DEF Settled
<1> QED
  BY <1>1, SumOfPart

(* A balance is an integer.                                                *)
LEMMA BalanceType ==
  ASSUME NEW R, IsFiniteSet(Kobo(R)), NEW w
  PROVE  Balance(R, w) \in Int
BY SettledSums DEF Balance

(* A row that is not settled, or of another wallet, leaves a balance       *)
(* alone, whether it comes or goes.                                        *)
LEMMA BalanceOfOthers ==
  ASSUME NEW R, NEW r, NEW w, r.wallet # w \/ r.status # "SUCCESSFUL"
  PROVE  /\ Balance(R \cup {r}, w) = Balance(R, w)
         /\ Balance(R \ {r}, w) = Balance(R, w)
<1>1. \A type : /\ Settled(R \cup {r}, w, type) = Settled(R, w, type)
                /\ Settled(R \ {r}, w, type) = Settled(R, w, type)
  BY DEF Settled
<1> QED
  BY <1>1 DEF Balance

(* A new settled credit raises the balance of its wallet by its amount.    *)
LEMMA BalanceWithCredit ==
  ASSUME NEW R, IsFiniteSet(Kobo(R)), NEW r, r \notin R, r.amount \in Nat,
         r.status = "SUCCESSFUL", r.type = "CREDIT", NEW w, r.wallet = w
  PROVE  Balance(R \cup {r}, w) = Balance(R, w) + r.amount
<1>1. Settled(R \cup {r}, w, "CREDIT") = Settled(R, w, "CREDIT") \cup {r}
  BY DEF Settled
<1>2. Settled(R \cup {r}, w, "DEBIT") = Settled(R, w, "DEBIT")
  BY DEF Settled
<1>3. r \notin Settled(R, w, "CREDIT")
  BY DEF Settled
<1>4. /\ IsFiniteSet(Kobo(Settled(R, w, "CREDIT")))
      /\ SumAmount(Settled(R, w, "CREDIT")) \in Nat
      /\ SumAmount(Settled(R, w, "DEBIT")) \in Nat
  BY SettledSums
<1>5. SumAmount(Settled(R, w, "CREDIT") \cup {r})
        = SumAmount(Settled(R, w, "CREDIT")) + r.amount
  BY <1>3, <1>4, SumWithRow
<1>6. SumAmount(Settled(R \cup {r}, w, "CREDIT"))
        = SumAmount(Settled(R, w, "CREDIT")) + r.amount
  BY <1>1, <1>5, Zenon
<1>7. SumAmount(Settled(R \cup {r}, w, "DEBIT"))
        = SumAmount(Settled(R, w, "DEBIT"))
  BY <1>2, Zenon
<1> QED
  BY <1>4, <1>6, <1>7 DEF Balance

(* A new settled debit lowers the balance of its wallet by its amount.     *)
LEMMA BalanceWithDebit ==
  ASSUME NEW R, IsFiniteSet(Kobo(R)), NEW r, r \notin R, r.amount \in Nat,
         r.status = "SUCCESSFUL", r.type = "DEBIT", NEW w, r.wallet = w
  PROVE  Balance(R \cup {r}, w) = Balance(R, w) - r.amount
<1>1. Settled(R \cup {r}, w, "DEBIT") = Settled(R, w, "DEBIT") \cup {r}
  BY DEF Settled
<1>2. Settled(R \cup {r}, w, "CREDIT") = Settled(R, w, "CREDIT")
  BY DEF Settled
<1>3. r \notin Settled(R, w, "DEBIT")
  BY DEF Settled
<1>4. /\ IsFiniteSet(Kobo(Settled(R, w, "DEBIT")))
      /\ SumAmount(Settled(R, w, "CREDIT")) \in Nat
      /\ SumAmount(Settled(R, w, "DEBIT")) \in Nat
  BY SettledSums
<1>5. SumAmount(Settled(R, w, "DEBIT") \cup {r})
        = SumAmount(Settled(R, w, "DEBIT")) + r.amount
  BY <1>3, <1>4, SumWithRow
<1>6. SumAmount(Settled(R \cup {r}, w, "DEBIT"))
        = SumAmount(Settled(R, w, "DEBIT")) + r.amount
  BY <1>1, <1>5, Zenon
<1>7. SumAmount(Settled(R \cup {r}, w, "CREDIT"))
        = SumAmount(Settled(R, w, "CREDIT"))
  BY <1>2, Zenon
<1> QED
  BY <1>4, <1>6, <1>7 DEF Balance

(* A settled credit, new or not, never lowers a balance.                   *)
LEMMA CreditsRaise ==
  ASSUME NEW R, IsFiniteSet(Kobo(R)), NEW r, r.amount \in Nat,
         r.status = "SUCCESSFUL", r.type = "CREDIT", NEW w
  PROVE  Balance(R \cup {r}, w) >= Balance(R, w)
<1>0. Balance(R, w) \in Int
  BY BalanceType
<1>1. CASE r \in R
  <2>1. R \cup {r} = R
    BY <1>1
  <2> QED
    BY <1>0, <2>1
<1>2. CASE r \notin R /\ r.wallet = w
  BY <1>0, <1>2, BalanceWithCredit
<1>3. CASE r.wallet # w
  BY <1>0, <1>3, BalanceOfOthers
<1> QED
  BY <1>1, <1>2, <1>3

-----------------------------------------------------------------------------
USE AmountsAssumption

(* The rows the program writes are rows.                                   *)
LEMMA RowTypes ==
  ASSUME NEW w \in Wallets, NEW d \in Wallets, NEW k \in Keys, NEW a \in Amounts
  PROVE  /\ PendingFunding(w, k, a) \in Row
         /\ Completed(PendingFunding(w, k, a)) \in Row
         /\ P2pDebit(w, k, a) \in Row
         /\ P2pCredit(w, d, k, a) \in Row
         /\ BankDebit(w, k, a) \in Row
         /\ Reversal(w, k, a) \in Row
<1>1. \A leg \in Legs : <<leg, w, k>> \in RowKey
  BY DEF RowKey
<1>2. {"funding", "p2p-debit", "p2p-credit", "bank-debit", "reversal"}
        \subseteq Legs
  BY DEF Legs
<1> QED
  BY <1>1, <1>2 DEF Row, PendingFunding, Completed, P2pDebit, P2pCredit,
                    BankDebit, Reversal

(* Adding one row keeps the journal well typed and its sums finite.        *)
LEMMA AddedRow ==
  ASSUME NEW R, R \subseteq Row, IsFiniteSet(Kobo(R)), NEW r \in Row
  PROVE  R \cup {r} \subseteq Row /\ IsFiniteSet(Kobo(R \cup {r}))
<1>1. r.amount \in Nat
  BY DEF Row
<1>2. CASE r \in R
  <2>1. R \cup {r} = R
    BY <1>2
  <2> QED
    BY <2>1
<1>3. CASE r \notin R
  BY <1>1, <1>3, SumWithRow
<1> QED
  BY <1>2, <1>3

(* Adding a credit, or any row that is not settled, overdraws no wallet.   *)
LEMMA CreditKeepsNonNegative ==
  ASSUME NEW R, IsFiniteSet(Kobo(R)), NEW r \in Row,
         r.status # "SUCCESSFUL" \/ r.type = "CREDIT",
         NEW w, Balance(R, w) >= 0
  PROVE  Balance(R \cup {r}, w) >= 0
<1>1. r.amount \in Nat
  BY DEF Row
<1>2. Balance(R, w) \in Int /\ Balance(R \cup {r}, w) \in Int
  <2>1. IsFiniteSet(Kobo(R \cup {r}))
    <3>1. CASE r \in R
      <4>1. R \cup {r} = R
        BY <3>1
      <4> QED
        BY <4>1
    <3>2. CASE r \notin R
      BY <1>1, <3>2, SumWithRow
    <3> QED
      BY <3>1, <3>2
  <2> QED
    BY <2>1, BalanceType
<1>3. CASE r.status # "SUCCESSFUL"
  <2>1. Balance(R \cup {r}, w) = Balance(R, w)
    BY <1>3, BalanceOfOthers
  <2> QED
    BY <2>1
<1>4. CASE r.status = "SUCCESSFUL" /\ r.type = "CREDIT"
  <2>1. Balance(R \cup {r}, w) >= Balance(R, w)
    BY <1>1, <1>4, CreditsRaise
  <2> QED
    BY <1>2, <2>1
<1> QED
  BY <1>3, <1>4

(* Adding a debit that the balance of its wallet covers overdraws none.    *)
LEMMA CoveredDebitKeepsNonNegative ==
  ASSUME NEW R, IsFiniteSet(Kobo(R)), NEW r \in Row, r \notin R,
         r.status = "SUCCESSFUL", r.type = "DEBIT",
         Balance(R, r.wallet) >= r.amount,
         NEW w, Balance(R, w) >= 0
  PROVE  Balance(R \cup {r}, w) >= 0
<1>1. r.amount \in Nat
  BY DEF Row
<1>2. CASE r.wallet # w
  <2>1. Balance(R \cup {r}, w) = Balance(R, w)
    BY <1>2, BalanceOfOthers
  <2> QED
    BY <2>1
<1>3. CASE r.wallet = w
  <2>1. Balance(R \cup {r}, w) = Balance(R, w) - r.amount
    BY <1>1, <1>3, BalanceWithDebit
  <2>2. Balance(R, w) \in Int
    BY BalanceType
  <2>3. Balance(R, w) >= r.amount
    BY <1>3
  <2> QED
    BY <1>1, <2>1, <2>2, <2>3
<1> QED
  BY <1>2, <1>3

(* Whatever row is added, a wallet is at most debited if the row is its.   *)
LEMMA AddedRowLowersOwnOnly ==
  ASSUME NEW R, IsFiniteSet(Kobo(R)), NEW r \in Row, NEW w,
         r.wallet # w \/ r.status # "SUCCESSFUL" \/ r.type = "CREDIT"
  PROVE  Balance(R \cup {r}, w) >= Balance(R, w)
<1>1. r.amount \in Nat /\ Balance(R, w) \in Int
  BY BalanceType DEF Row
<1>2. CASE r.wallet # w \/ r.status # "SUCCESSFUL"
  <2>1. Balance(R \cup {r}, w) = Balance(R, w)
    BY <1>2, BalanceOfOthers
  <2> QED
    BY <1>1, <2>1
<1>3. CASE r.status = "SUCCESSFUL" /\ r.type = "CREDIT"
  BY <1>1, <1>3, CreditsRaise
<1> QED
  BY <1>2, <1>3
=============================================================================
