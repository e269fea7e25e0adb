--------------------------- MODULE StatementProofs ---------------------------
(***************************************************************************)
(* Theorems about Statement, for any number of rows, times and page sizes. *)
(*                                                                         *)
(* The cursor splits the rows: what was listed is the cursor's row or      *)
(* newer, and what was asked for and is not listed yet is older.  Rows     *)
(* that are inserted on either side do not disturb this.                   *)
(***************************************************************************)
EXTENDS Statement, FiniteSetTheorems, TLAPS

CursorSplits ==
  \A c \in cursor :
    /\ \A q \in listed \cup page : q = c \/ Newer(q, c)
    /\ \A r \in asked \ (listed \cup page) : Newer(c, r)

StatementInv ==
  /\ TypeOK
  /\ IsFiniteSet(rows)
  /\ PagesInOrder
  /\ CursorSplits
  /\ NothingSkipped

-----------------------------------------------------------------------------
LEMMA NewerIsTransitive ==
  ASSUME NEW q \in Row, NEW r \in Row, NEW s \in Row, Newer(q, r), Newer(r, s)
  PROVE  Newer(q, s)
<1>1. /\ q.createdAt \in Int /\ r.createdAt \in Int /\ s.createdAt \in Int
      /\ q.id \in Int /\ r.id \in Int /\ s.id \in Int
  BY OrderAssumption DEF Row
<1> QED
  BY <1>1 DEF Newer

(* A page without a cursor is all there is after the last one; a page with *)
(* a cursor ends with the cursor's row, and all the rest comes after it.   *)
LEMMA PageIsTop ==
  ASSUME StatementInv, NEW c \in SUBSET rows, NEW limit \in Limits,
         NEW slice \in SUBSET rows, NEW next \in Cursors,
         GetPage(c, limit, slice, next)
  PROVE  /\ slice \subseteq After(c)
         /\ Cardinality(slice) <= limit
         /\ next = {} => slice = After(c)
         /\ \A last \in next :
              /\ last \in slice
              /\ \A q \in slice : q = last \/ Newer(q, last)
              /\ \A r \in After(c) \ slice : Newer(last, r)
<1>1. PICK found \in SUBSET After(c) :
        IsTop(found, After(c), Take(limit)) /\ Cut(found, limit, slice, next)
  BY DEF GetPage
<1>2. limit \in Nat
  BY LimitsAssumption
<1>3. Cardinality(slice) \in Nat
  BY FS_Subset, FS_CardinalityType DEF StatementInv
<1>4. CASE Cardinality(found) <= limit /\ slice = found /\ next = {}
  <2>1. Cardinality(found) # Take(limit)
    BY <1>2, <1>3, <1>4 DEF Take
  <2>2. found = After(c)
    BY <1>1, <2>1 DEF IsTop
  <2> QED
    BY <1>4, <2>2
<1>5. ASSUME IsTop(slice, found, limit), NEW last \in slice,
             \A q \in slice \ {last} : Newer(q, last),
             next = {last}
      PROVE  /\ slice \subseteq After(c)
             /\ Cardinality(slice) <= limit
             /\ \A r \in After(c) \ slice : Newer(last, r)
  <2>1. slice \subseteq found /\ Cardinality(slice) <= limit
    BY <1>2, <1>3, <1>5 DEF IsTop
  <2>2. \A r \in found \ slice : Newer(last, r)
    BY <1>5 DEF IsTop
  <2>3. \A r \in After(c) \ found : Newer(last, r)
    BY <1>1, <2>1 DEF IsTop
  <2> QED
    BY <2>1, <2>2, <2>3
<1> QED
  BY <1>1, <1>4, <1>5 DEF Cut

-----------------------------------------------------------------------------
LEMMA InsertStep ==
  ASSUME StatementInv, NEW id \in Ids, NEW time \in Times, Insert(id, time)
  PROVE  StatementInv'
<1> DEFINE new == [id |-> id, createdAt |-> time]
<1>1. /\ \A r \in rows : r.id # id
      /\ rows' = rows \cup {new}
      /\ UNCHANGED <<asked, listed, page, cursor>>
  BY DEF Insert
<1>2. new \in Row /\ new.id = id
  BY DEF Row
<1>3. IsFiniteSet(rows')
  BY <1>1, FS_AddElement DEF StatementInv
<1> HIDE DEF new
<1>4. TypeOK'
  BY <1>1, <1>2 DEF StatementInv, TypeOK
<1>5. PagesInOrder' /\ CursorSplits' /\ NothingSkipped'
  BY <1>1 DEF StatementInv, PagesInOrder, CursorSplits, NothingSkipped, Newer
<1> QED
  BY <1>3, <1>4, <1>5 DEF StatementInv

LEMMA FirstPageStep ==
  ASSUME StatementInv, NEW limit \in Limits, FirstPage(limit)
  PROVE  StatementInv'
<1>1. PICK slice \in SUBSET rows, next \in Cursors :
        GetPage({}, limit, slice, next) /\ page' = slice /\ cursor' = next
  BY DEF FirstPage
<1>2. listed' = {} /\ asked' = rows /\ rows' = rows
  BY DEF FirstPage
<1>3. After({}) = rows
  BY DEF After
<1>4. /\ Cardinality(slice) <= limit
      /\ next = {} => slice = rows
      /\ \A last \in next :
           /\ last \in slice
           /\ \A q \in slice : q = last \/ Newer(q, last)
           /\ \A r \in rows \ slice : Newer(last, r)
  BY <1>1, <1>3, PageIsTop, ZenonT(40)
<1>5. TypeOK'
  BY <1>1, <1>2, <1>4 DEF StatementInv, TypeOK, Cursors
<1>6. PagesInOrder' /\ NothingSkipped'
  BY <1>1, <1>2, <1>4 DEF PagesInOrder, NothingSkipped
<1>7. CursorSplits'
  BY <1>1, <1>2, <1>4 DEF CursorSplits, Newer
<1> QED
  BY <1>2, <1>5, <1>6, <1>7 DEF StatementInv

LEMMA NextPageStep ==
  ASSUME StatementInv, NEW limit \in Limits, NextPage(limit)
  PROVE  StatementInv'
<1>1. PICK slice \in SUBSET rows, next \in Cursors :
        GetPage(cursor, limit, slice, next) /\ page' = slice /\ cursor' = next
  BY DEF NextPage
<1>2. listed' = listed \cup page /\ asked' = asked /\ rows' = rows
  BY DEF NextPage
<1>3. PICK c \in rows : cursor = {c}
  BY DEF NextPage, StatementInv, TypeOK
<1>4. After(cursor) = {r \in rows : Newer(c, r)}
  BY <1>3 DEF After
<1>5. /\ slice \subseteq After(cursor)
      /\ Cardinality(slice) <= limit
      /\ next = {} => slice = After(cursor)
      /\ \A last \in next :
           /\ last \in slice
           /\ \A q \in slice : q = last \/ Newer(q, last)
           /\ \A r \in After(cursor) \ slice : Newer(last, r)
  <2>1. cursor \in SUBSET rows
    BY <1>3
  <2> QED
    BY <1>1, <2>1, PageIsTop
<1>6. /\ \A q \in listed \cup page : q \in Row /\ (q = c \/ Newer(q, c))
      /\ \A r \in asked \ (listed \cup page) : r \in After(cursor)
      /\ c \in Row /\ slice \subseteq Row
  BY <1>1, <1>3, <1>4 DEF StatementInv, TypeOK, CursorSplits
<1>7. \A q \in listed \cup page, r \in slice : Newer(q, r)
  BY <1>4, <1>5, <1>6, NewerIsTransitive
<1>8. TypeOK'
  BY <1>1, <1>2, <1>5 DEF StatementInv, TypeOK, Cursors
<1>9. PagesInOrder'
  BY <1>1, <1>2, <1>7 DEF PagesInOrder, Newer
<1>10. CursorSplits'
  BY <1>1, <1>2, <1>5, <1>6, <1>7 DEF CursorSplits, Newer
<1>11. NothingSkipped'
  BY <1>1, <1>2, <1>5, <1>6 DEF NothingSkipped
<1> QED
  BY <1>2, <1>8, <1>9, <1>10, <1>11 DEF StatementInv

LEMMA StatementInitKeeps == Init => StatementInv
BY FS_EmptySet DEF Init, StatementInv, TypeOK, PagesInOrder, CursorSplits, NothingSkipped

LEMMA StatementStepKeeps == StatementInv /\ [Next]_vars => StatementInv'
<1> SUFFICES ASSUME StatementInv, [Next]_vars PROVE StatementInv'
  OBVIOUS
<1>1. CASE UNCHANGED vars
  BY <1>1 DEF vars, StatementInv, TypeOK, PagesInOrder, CursorSplits, NothingSkipped, Newer
<1> QED
  BY <1>1, InsertStep, FirstPageStep, NextPageStep DEF Next

-----------------------------------------------------------------------------
(* The cursor splits the rows that the client asked for.                   *)
THEOREM StatementInvariant == Spec => []StatementInv
BY StatementInitKeeps, StatementStepKeeps, PTL DEF Spec

(* Every state is well typed: no page is larger than was asked for.        *)
THEOREM StatementTypeCorrect == Spec => []TypeOK
<1>1. StatementInv => TypeOK
  BY DEF StatementInv
<1> QED
  BY <1>1, StatementInvariant, PTL

(* No row comes twice and every page goes on where the last one ended,     *)
(* whatever is inserted (listByWalletId).                                  *)
THEOREM PagesStayInOrder == Spec => []PagesInOrder
<1>1. StatementInv => PagesInOrder
  BY DEF StatementInv
<1> QED
  BY <1>1, StatementInvariant, PTL

(* The last page makes the statement complete (listByWalletId).            *)
THEOREM NothingIsSkipped == Spec => []NothingSkipped
<1>1. StatementInv => NothingSkipped
  BY DEF StatementInv
<1> QED
  BY <1>1, StatementInvariant, PTL
=============================================================================
