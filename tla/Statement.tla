----------------------------- MODULE Statement -----------------------------
(***************************************************************************)
(* The statement of a wallet, GET /wallets/me/transactions: its rows of    *)
(* the journal, newest first, in pages.  A page ends with a cursor, the id *)
(* of its last row, and the next request asks for what comes after it.     *)
(*                                                                         *)
(* Rows are inserted while a client pages.  A row gets its createdAt some  *)
(* time before its transaction commits, by the clock of whoever inserts    *)
(* it, so rows become visible in another order than that of their times;   *)
(* rows of the same time are told apart by their ids, which say nothing    *)
(* about their order.                                                      *)
(***************************************************************************)
EXTENDS Integers, FiniteSets

CONSTANTS
  Ids,     \* the ids of rows of the wallet (cuids, ordered as strings are)
  Times,   \* the times rows may have
  Limits   \* the page sizes a client may ask for

ASSUME OrderAssumption == Ids \subseteq Int /\ Times \subseteq Int
ASSUME LimitsAssumption == Limits \subseteq Nat \ {0}

VARIABLES
  rows,    \* the rows of the wallet that are committed
  asked,   \* those of them that were there when the first page was asked for
  listed,  \* the rows of the pages the client has got before the last one
  page,    \* the rows of the last page
  cursor   \* the cursor of the last page: the row it names, or nothing

vars == <<rows, asked, listed, page, cursor>>

Row == [id : Ids, createdAt : Times]

TypeOK ==
  /\ rows \subseteq Row
  /\ \A q, r \in rows : q.id = r.id => q = r
  /\ asked \subseteq rows
  /\ listed \subseteq rows
  /\ page \subseteq rows
  /\ page # {} => \E n \in Limits : Cardinality(page) <= n
  /\ cursor \in {{}} \cup {{r} : r \in rows}

Init ==
  /\ rows = {}
  /\ asked = {}
  /\ listed = {}
  /\ page = {}
  /\ cursor = {}

-----------------------------------------------------------------------------
(* A transaction that inserts a row commits.                               *)
Insert(id, time) ==
  /\ \A r \in rows : r.id # id
  /\ rows' = rows \cup {[id |-> id, createdAt |-> time]}
  /\ UNCHANGED <<asked, listed, page, cursor>>

-----------------------------------------------------------------------------
(* listByWalletId.                                                         *)

(* Slip: rows of the same time are in no order.                            *)
NewerByTimeOnly(q, r) == q.createdAt > r.createdAt

(* orderBy: createdAt, then id, both descending.                           *)
Newer(q, r) ==
  \/ q.createdAt > r.createdAt
  \/ q.createdAt = r.createdAt /\ q.id > r.id

(* top is what LIMIT n leaves of the set S when it is in this order.       *)
IsTop(top, S, n) ==
  /\ top \subseteq S
  /\ \A q \in top, r \in S \ top : Newer(q, r)
  /\ \/ Cardinality(top) = n
     \/ Cardinality(top) < n /\ top = S

(* Slip: the row of the cursor is not skipped.                             *)
AfterUnskipped(c) == {r \in rows : \A last \in c : r = last \/ Newer(last, r)}

(* Slip: the cursor is not passed to the query.                            *)
AfterIgnoringCursor(c) == rows

(* The rows after the cursor: it is where the query starts, and is skipped.*)
(* Without a cursor, all rows.                                             *)
After(c) == {r \in rows : \A last \in c : Newer(last, r)}

(* Slip: as many rows are asked for as the page has.                       *)
TakeNoMore(limit) == limit

(* One row more than the page has is asked for, to know if there are more. *)
Take(limit) == limit + 1

(* Slip: the row that shows that there are more is handed out.             *)
CutNothing(found, limit, slice, next) ==
  /\ slice = found
  /\ \/ Cardinality(found) <= limit /\ next = {}
     \/ /\ Cardinality(found) > limit
        /\ \E last \in slice : /\ \A q \in slice \ {last} : Newer(q, last)
                              /\ next = {last}

(* The page that is cut from the rows found, and its cursor, if there are  *)
(* more than fit.                                                          *)
Cut(found, limit, slice, next) ==
  \/ Cardinality(found) <= limit /\ slice = found /\ next = {}
  \/ /\ Cardinality(found) > limit
     /\ IsTop(slice, found, limit)
     /\ \E last \in slice : /\ \A q \in slice \ {last} : Newer(q, last)
                           /\ next = {last}

GetPage(c, limit, slice, next) ==
  \E found \in SUBSET After(c) :
    IsTop(found, After(c), Take(limit)) /\ Cut(found, limit, slice, next)

Cursors == {{}} \cup {{r} : r \in rows}

(* The client asks for the first page: of a new statement, when it has got *)
(* the last one whole.                                                     *)
FirstPage(limit) ==
  /\ cursor = {}
  /\ \E slice \in SUBSET rows, next \in Cursors :
       /\ GetPage({}, limit, slice, next)
       /\ page' = slice
       /\ cursor' = next
  /\ listed' = {}
  /\ asked' = rows
  /\ UNCHANGED rows

(* The next page, of this size or another.                                 *)
NextPage(limit) ==
  /\ cursor # {}
  /\ \E slice \in SUBSET rows, next \in Cursors :
       /\ GetPage(cursor, limit, slice, next)
       /\ page' = slice
       /\ cursor' = next
  /\ listed' = listed \cup page
  /\ UNCHANGED <<rows, asked>>

Next ==
  \/ \E id \in Ids, time \in Times : Insert(id, time)
  \/ \E limit \in Limits : FirstPage(limit) \/ NextPage(limit)

Spec == Init /\ [][Next]_vars

(* A client that wants the whole statement asks while there is a cursor.   *)
FairSpec == Spec /\ WF_vars(\E limit \in Limits : NextPage(limit))

-----------------------------------------------------------------------------
(* A page goes on where the ones before it ended, and no row comes twice,  *)
(* whatever was inserted between them (listByWalletId in                   *)
(* prisma-wallet-transaction.repository.ts).                               *)
PagesInOrder == \A q \in listed, r \in page : Newer(q, r)

(* A client that has got the last page has got every row that was there    *)
(* when it asked for the first; rows that became visible later do not push *)
(* others out of the pages (listByWalletId in                              *)
(* prisma-wallet-transaction.repository.ts).                               *)
NothingSkipped == cursor = {} => asked \subseteq listed \cup page

(* The client gets to the last page, although rows are being inserted.     *)
StatementEnds == []<>(cursor = {})
=============================================================================
