------------------------------ MODULE LedgerTx ------------------------------
(***************************************************************************)
(* The ledger as the program runs it: every operation is a handler that    *)
(* awaits one database statement after another, so the statements of       *)
(* handlers in the same process, or in several processes on the same       *)
(* database, interleave.  A step here is one statement (or one queue       *)
(* call); what a transaction writes becomes visible at its COMMIT, which   *)
(* is the last step of the transaction; what a statement reads is what is  *)
(* committed when it runs (PostgreSQL's READ COMMITTED, the default that   *)
(* the program does not change).                                           *)
(*                                                                         *)
(* The operations are                                                      *)
(*   WALLET    executeP2p          a transfer to another wallet            *)
(*   BANK      executeBankAccept   a bank withdrawal, then its queue.add   *)
(*   FUND      postPending         a funding is announced                  *)
(*   COMPLETE  completeSuccessful  a funding is confirmed                  *)
(*   REVERSE   postReversal        a bank withdrawal is credited back      *)
(***************************************************************************)
EXTENDS Journal

CONSTANTS
  Txns,      \* the handlers that may be running at one time
  NoTx,      \* the holder of a wallet row that is not locked
  NoRequest, \* the request of an idle handler
  Offers     \* the requests that may arrive, any number of times each

Kinds == {"WALLET", "BANK", "FUND", "COMPLETE", "REVERSE"}

(* `to` is the recipient of a WALLET request; it is the user in the others.*)
Request == [kind : Kinds, user : Wallets, key : Keys, to : Wallets,
            amount : Amounts]

ASSUME NoTxAssumption == NoTx \notin Txns
ASSUME TxnsAssumption == IsFiniteSet(Txns)
ASSUME OffersAssumption ==
  Offers \subseteq {r \in Request : r.kind \in {"WALLET", "BANK", "FUND"}}

VARIABLES
  journal,      \* the committed rows of wallet_transactions
  withdrawals,  \* the committed rows of withdrawals
  lock,         \* the transaction that holds each wallet row FOR UPDATE
  pc,           \* the statement each handler runs next
  req,          \* the request each handler serves
  resp,         \* the last answer of each handler, "none" while it is running
  payoutQueue   \* the withdrawals whose payout job was enqueued

vars == <<journal, withdrawals, lock, pc, req, resp, payoutQueue>>

Withdrawal == {r \in Request : r.kind \in {"WALLET", "BANK"}}

InTx == {"recheck", "lock", "sum", "relookup", "write"}

Labels == {"idle", "lookup", "enqueue"} \cup InTx

Responses == {"none", "created", "replayed", "conflict", "insufficient",
              "bad_request", "unique_violation", "aborted"}

TypeOK ==
  /\ journal \subseteq Row
  /\ withdrawals \subseteq Withdrawal
  /\ lock \in [Wallets -> Txns \cup {NoTx}]
  /\ pc \in [Txns -> Labels]
  /\ req \in [Txns -> Request \cup {NoRequest}]
  /\ \A t \in Txns : pc[t] # "idle" => req[t] \in Request
  /\ resp \in [Txns -> Responses]
  /\ payoutQueue \subseteq Withdrawal

Init ==
  /\ journal = {}
  /\ withdrawals = {}
  /\ lock = [w \in Wallets |-> NoTx]
  /\ pc = [t \in Txns |-> "idle"]
  /\ req = [t \in Txns |-> NoRequest]
  /\ resp = [t \in Txns |-> "none"]
  /\ payoutQueue = {}

-----------------------------------------------------------------------------
IsWithdrawal(r) == r.kind \in {"WALLET", "BANK"}

(* The unique index (userId, idempotencyKey) of the withdrawals table, and *)
(* the hash of the request body that is stored with a withdrawal.          *)
SameKey(w, r) == w.user = r.user /\ w.key = r.key
SameBody(w, r) == w.kind = r.kind /\ w.to = r.to /\ w.amount = r.amount

(* Slip: the unique index has the destination type in it.                  *)
KeyUsedForKind(r) == \E w \in withdrawals : SameKey(w, r) /\ w.kind = r.kind

KeyUsed(r) == \E w \in withdrawals : SameKey(w, r)

(* The journal row whose unique key FUND and REVERSE look up and insert.   *)
RowOf(r) ==
  IF r.kind = "REVERSE" THEN Reversal(r.user, r.key, r.amount)
                        ELSE PendingFunding(r.user, r.key, r.amount)

(* What FUND, COMPLETE or REVERSE would do has been done.                  *)
RowPosted(rows, r) ==
  \/ r.kind = "COMPLETE" /\ Completed(RowOf(r)) \in rows
  \/ r.kind # "COMPLETE" /\ HasKey(rows, RowOf(r).key)

(* What the commit of a withdrawal adds to the journal.                    *)
LegsOf(r) ==
  IF r.kind = "WALLET"
    THEN {P2pDebit(r.user, r.key, r.amount),
          P2pCredit(r.user, r.to, r.key, r.amount)}
    ELSE {BankDebit(r.user, r.key, r.amount)}

Held(t) == {w \in Wallets : lock[w] = t}

(* Slip: a transfer locks only its recipient, which it credits.            *)
ToLockRecipient(r) == {r.to}

(* The wallet rows a request locks: a transfer both its wallets, any other *)
(* request its own.                                                        *)
ToLock(r) == IF r.kind = "WALLET" THEN {r.user, r.to} ELSE {r.user}

(* Slip: the sender first, then the recipient, whatever their ids.         *)
NextToLockSenderFirst(t, w) ==
  /\ w \in ToLock(req[t]) \ Held(t)
  /\ w = req[t].user \/ req[t].user \in Held(t)

(* sortWalletIds: the smallest id first.                                   *)
NextToLock(t, w) ==
  /\ w \in ToLock(req[t]) \ Held(t)
  /\ \A v \in ToLock(req[t]) \ Held(t) : w <= v

(* Slip: the end of a transaction leaves its rows locked.                  *)
ReleasedNothing(t) == lock

Released(t) == [w \in Wallets |-> IF lock[w] = t THEN NoTx ELSE lock[w]]

(* The handler goes on to its next statement.                              *)
Goto(t, label) ==
  /\ pc' = [pc EXCEPT ![t] = label]
  /\ UNCHANGED <<req, resp>>

(* The handler answers; a transaction that was open ends.                  *)
Answer(t, answer) ==
  /\ pc' = [pc EXCEPT ![t] = "idle"]
  /\ req' = [req EXCEPT ![t] = NoRequest]
  /\ resp' = [resp EXCEPT ![t] = answer]
  /\ lock' = Released(t)

ReadOnly == UNCHANGED <<journal, withdrawals, payoutQueue>>

-----------------------------------------------------------------------------
Begin(t, r) ==
  /\ pc[t] = "idle"
  /\ pc' = [pc EXCEPT ![t] = "lookup"]
  /\ req' = [req EXCEPT ![t] = r]
  /\ resp' = [resp EXCEPT ![t] = "none"]
  /\ UNCHANGED <<journal, withdrawals, lock, payoutQueue>>

(* A client's request: new, a retry, or one that reuses a key.             *)
Receive(t) == \E r \in Offers : Begin(t, r)

(* The transfer.complete job confirms a funding, perhaps again.            *)
StartCompletion(t) ==
  \E row \in journal :
    /\ Leg(row) = "funding"
    /\ Begin(t, [kind |-> "COMPLETE", user |-> row.wallet, key |-> row.key[3],
                 to |-> row.wallet, amount |-> row.amount])

(* A payout or settle job reverses a bank withdrawal, perhaps again.       *)
StartReversal(t) ==
  \E w \in withdrawals :
    /\ w.kind = "BANK"
    /\ Begin(t, [w EXCEPT !.kind = "REVERSE"])

(* The checks and the lookup before the transaction of a withdrawal.       *)
FindWithdrawal(t) ==
  LET r == req[t]
  IN  /\ pc[t] = "lookup"
      /\ IsWithdrawal(r)
      /\ \/ /\ r.kind = "WALLET" /\ r.to = r.user
            /\ Answer(t, "bad_request")
         \/ /\ r.kind = "WALLET" => r.to # r.user
            /\ \E w \in withdrawals :
                 /\ SameKey(w, r)
                 /\ Answer(t, IF SameBody(w, r) THEN "replayed" ELSE "conflict")
         \/ /\ r.kind = "WALLET" => r.to # r.user
            /\ ~ KeyUsed(r)
            /\ Goto(t, "recheck")
            /\ UNCHANGED lock
      /\ ReadOnly

(* The debit a reversal names: same wallet, same amount.                   *)
OriginalFound(rows, r) ==
  r.kind = "REVERSE" => BankDebit(r.user, r.key, r.amount) \in rows

(* The lookup before the transaction of a ledger operation, and the checks *)
(* of the debit a reversal names.  A completion is not looked up here: it  *)
(* loads its row inside the transaction, before the lock, and again under  *)
(* the lock.                                                               *)
FindRow(t) ==
  LET r == req[t]
  IN  /\ pc[t] = "lookup"
      /\ ~ IsWithdrawal(r)
      /\ IF r.kind # "COMPLETE" /\ (RowPosted(journal, r) \/ ~ OriginalFound(journal, r))
           THEN Answer(t, IF RowPosted(journal, r) THEN "replayed" ELSE "bad_request")
           ELSE Goto(t, "lock") /\ UNCHANGED lock
      /\ ReadOnly

(* The lookup inside the transaction of a withdrawal.  It comes before the *)
(* locks, and does not compare the bodies.                                 *)
RecheckWithdrawal(t) ==
  /\ pc[t] = "recheck"
  /\ IF KeyUsed(req[t])
       THEN Answer(t, "replayed")
       ELSE Goto(t, "lock") /\ UNCHANGED lock
  /\ ReadOnly

(* SELECT ... FOR UPDATE on the next wallet row; it waits while another    *)
(* transaction holds the row.                                              *)
LockWallet(t) ==
  /\ pc[t] = "lock"
  /\ \E w \in Wallets :
       /\ NextToLock(t, w)
       /\ lock[w] = NoTx
       /\ lock' = [lock EXCEPT ![w] = t]
       /\ IF ToLock(req[t]) \subseteq Held(t) \cup {w}
            THEN Goto(t, IF IsWithdrawal(req[t]) THEN "sum" ELSE "relookup")
            ELSE Goto(t, "lock")
  /\ ReadOnly

(* Slip: the comparison is the wrong way round at its boundary.            *)
SumBalanceOffByOne(t) ==
  /\ pc[t] = "sum"
  /\ IF Balance(journal, req[t].user) < req[t].amount - 1
       THEN Answer(t, "insufficient")
       ELSE Goto(t, "write") /\ UNCHANGED lock
  /\ ReadOnly

(* SELECT SUM ... under the lock, and the check of the balance.            *)
SumBalance(t) ==
  /\ pc[t] = "sum"
  /\ IF Balance(journal, req[t].user) < req[t].amount
       THEN Answer(t, "insufficient")
       ELSE Goto(t, "write") /\ UNCHANGED lock
  /\ ReadOnly

(* Slip: no second lookup, the one before the lock is trusted.             *)
RecheckRowSkipped(t) ==
  /\ pc[t] = "relookup"
  /\ Goto(t, "write")
  /\ UNCHANGED lock
  /\ ReadOnly

(* The lookup of a ledger operation under the lock.                        *)
RecheckRow(t) ==
  /\ pc[t] = "relookup"
  /\ IF RowPosted(journal, req[t])
       THEN Answer(t, "replayed")
       ELSE Goto(t, "write") /\ UNCHANGED lock
  /\ ReadOnly

(* Slip: two transactions, and the handler may die after the first leg.    *)
CommitP2pDebitFirst(t) ==
  LET r == req[t]
  IN  /\ pc[t] = "write"
      /\ r.kind = "WALLET"
      /\ IF P2pDebit(r.user, r.key, r.amount) \in journal
           THEN /\ journal' = journal \cup LegsOf(r)
                /\ withdrawals' = withdrawals \cup {r}
                /\ Answer(t, "created")
           ELSE /\ journal' = journal \cup {P2pDebit(r.user, r.key, r.amount)}
                /\ UNCHANGED <<withdrawals, lock, pc, req, resp>>
      /\ UNCHANGED payoutQueue

(* The inserts of a transfer, and COMMIT.                                  *)
CommitP2p(t) ==
  LET r == req[t]
  IN  /\ pc[t] = "write"
      /\ r.kind = "WALLET"
      /\ ~ KeyUsed(r)
      /\ journal' = journal \cup LegsOf(r)
      /\ withdrawals' = withdrawals \cup {r}
      /\ Answer(t, "created")
      /\ UNCHANGED payoutQueue

(* Slip: the request is dropped before its job is queued.                  *)
CommitBankForgets(t) ==
  /\ pc[t] = "write"
  /\ req[t].kind = "BANK"
  /\ ~ KeyUsed(req[t])
  /\ journal' = journal \cup LegsOf(req[t])
  /\ withdrawals' = withdrawals \cup {req[t]}
  /\ lock' = Released(t)
  /\ pc' = [pc EXCEPT ![t] = "enqueue"]
  /\ req' = [req EXCEPT ![t] = NoRequest]
  /\ UNCHANGED <<resp, payoutQueue>>

(* The inserts of a bank withdrawal, and COMMIT; its job is not queued yet.*)
CommitBank(t) ==
  LET r == req[t]
  IN  /\ pc[t] = "write"
      /\ r.kind = "BANK"
      /\ ~ KeyUsed(r)
      /\ journal' = journal \cup LegsOf(r)
      /\ withdrawals' = withdrawals \cup {r}
      /\ lock' = Released(t)
      /\ Goto(t, "enqueue")
      /\ UNCHANGED payoutQueue

(* The insert of a PENDING or of a reversal credit, and COMMIT.            *)
CommitRow(t) ==
  LET r == req[t]
  IN  /\ pc[t] = "write"
      /\ r.kind \in {"FUND", "REVERSE"}
      /\ ~ HasKey(journal, RowOf(r).key)
      /\ journal' = journal \cup {RowOf(r)}
      /\ Answer(t, "created")
      /\ UNCHANGED <<withdrawals, payoutQueue>>

(* The update of a PENDING credit to SUCCESSFUL, and COMMIT.               *)
CommitCompletion(t) ==
  LET row == RowOf(req[t])
  IN  /\ pc[t] = "write"
      /\ req[t].kind = "COMPLETE"
      /\ journal' = (journal \ {row}) \cup {Completed(row)}
      /\ Answer(t, "created")
      /\ UNCHANGED <<withdrawals, payoutQueue>>

(* An insert breaks the unique index of the withdrawals table: the         *)
(* transaction rolls back, and nothing catches the error.                  *)
UniqueViolation(t) ==
  /\ pc[t] = "write"
  /\ IsWithdrawal(req[t])
  /\ KeyUsed(req[t])
  /\ Answer(t, "unique_violation")
  /\ ReadOnly

(* Slip: the job is queued from inside the transaction.                    *)
EnqueuePayoutInTx(t) ==
  /\ req[t] # NoRequest /\ req[t].kind = "BANK"
  /\ \/ /\ pc[t] = "write"
        /\ payoutQueue' = payoutQueue \cup {req[t]}
        /\ UNCHANGED <<pc, req, resp, lock>>
     \/ /\ pc[t] = "enqueue"
        /\ Answer(t, "created")
        /\ UNCHANGED payoutQueue
  /\ UNCHANGED <<journal, withdrawals>>

(* payoutQueue.add after the commit of a bank withdrawal.                  *)
EnqueuePayout(t) ==
  /\ pc[t] = "enqueue"
  /\ payoutQueue' = payoutQueue \cup {req[t]}
  /\ Answer(t, "created")
  /\ UNCHANGED <<journal, withdrawals>>

(* The handler ends without an answer of its own: its process dies, the    *)
(* transaction times out, a connection or the queue is lost.  An open      *)
(* transaction rolls back; what was committed stays.                       *)
Abort(t) ==
  /\ pc[t] # "idle"
  /\ Answer(t, "aborted")
  /\ ReadOnly

Work(t) ==
  \/ FindWithdrawal(t)
  \/ FindRow(t)
  \/ RecheckWithdrawal(t)
  \/ LockWallet(t)
  \/ SumBalance(t)
  \/ RecheckRow(t)
  \/ CommitP2p(t)
  \/ CommitBank(t)
  \/ CommitRow(t)
  \/ CommitCompletion(t)
  \/ UniqueViolation(t)
  \/ EnqueuePayout(t)

Arrive(t) ==
  \/ Receive(t)
  \/ StartCompletion(t)
  \/ StartReversal(t)

Next == \E t \in Txns : Arrive(t) \/ Work(t) \/ Abort(t)

Spec == Init /\ [][Next]_vars

(* A handler that can go on does, and PostgreSQL grants a row lock in the  *)
(* order it was asked for.  Requests need not arrive, nothing need abort.  *)
Fairness == \A t \in Txns : SF_vars(LockWallet(t)) /\ WF_vars(Work(t))

FairSpec == Spec /\ Fairness

-----------------------------------------------------------------------------
(* No wallet is overdrawn, whatever debits race: lock, fresh sum and       *)
(* insert in one transaction (prisma-withdrawal.repository.ts).            *)
NonNegative == \A w \in Wallets : Balance(journal, w) >= 0

(* The balance a debit was checked against still covers it when the debit  *)
(* is written, however long the handler waited in between.                 *)
CheckedFundsStillThere ==
  \A t \in Txns :
    pc[t] = "write" /\ IsWithdrawal(req[t])
      => Balance(journal, req[t].user) >= req[t].amount

(* A ledger operation that passed the lookup under the lock finds nothing  *)
(* done when it writes: its insert never breaks the unique index, and a    *)
(* funding is completed once.                                              *)
PostedOnce ==
  \A t \in Txns :
    pc[t] = "write" /\ ~ IsWithdrawal(req[t]) => ~ RowPosted(journal, req[t])

(* The withdrawals and the debits of the journal answer each other: a      *)
(* withdrawal exists exactly when its legs do, and is the only one of its  *)
(* key.                                                                    *)
WithdrawalsAreDebits ==
  /\ \A w \in withdrawals : LegsOf(w) \subseteq journal
  /\ \A r \in journal :
       Leg(r) \in {"p2p-debit", "p2p-credit", "bank-debit"} =>
         \E w \in withdrawals : r \in LegsOf(w)
  /\ \A v, w \in withdrawals : SameKey(v, w) => v = w

(* A payout job is queued only for a withdrawal whose debit is committed:  *)
(* no money leaves for a withdrawal that was rolled back.                  *)
QueuedAfterCommit == payoutQueue \subseteq {w \in withdrawals : w.kind = "BANK"}

(* A handler that read the balance, or looked a row up again, to act on    *)
(* what it read, holds the rows of all the wallets it will write to.       *)
LocksHeld ==
  \A t \in Txns :
    pc[t] \in {"sum", "relookup", "write"} =>
      \A w \in ToLock(req[t]) : lock[w] = t

(* What a handler may take for granted of its request r when it is about   *)
(* to run the statement label.                                             *)
Stands(label, r, rows, accepted) ==
  /\ label \in {"recheck", "sum", "enqueue"} => IsWithdrawal(r)
  /\ label = "relookup" => ~ IsWithdrawal(r)
  /\ label \notin {"idle", "lookup"} /\ r.kind = "WALLET" => r.to # r.user
  /\ label # "idle" /\ r.kind = "COMPLETE" =>
       RowOf(r) \in rows \/ Completed(RowOf(r)) \in rows
  /\ label # "idle" => OriginalFound(rows, r)
  /\ label = "enqueue" => r.kind = "BANK" /\ r \in accepted

(* What a request was checked for, or started from, stays so.              *)
RequestsStand ==
  \A t \in Txns : Stands(pc[t], req[t], journal, withdrawals)

(* A row of the funding leg is a funding of its wallet, pending or not.    *)
FundingRows ==
  \A r \in journal :
    Leg(r) = "funding" =>
      LET p == PendingFunding(r.wallet, r.key[3], r.amount)
      IN  r = p \/ r = Completed(p)

WaitsFor(t, u) ==
  pc[t] = "lock" /\ \E w \in Wallets : NextToLock(t, w) /\ lock[w] = u

(* Transactions never wait for each other in a circle, not even for two    *)
(* transfers in opposite directions (sortWalletIds).                       *)
NoDeadlock ==
  \A S \in (SUBSET Txns) \ {{}} :
    \E t \in S : \A u \in S : ~ WaitsFor(t, u)

(* Every commit is one step of the atomic ledger, and every other          *)
(* statement leaves the ledger alone.                                      *)
Atomic == INSTANCE Ledger

ImplementsLedger == Atomic!Spec

(* Every request is answered, although handlers wait for one another.      *)
Answered == \A t \in Txns : pc[t] # "idle" ~> pc[t] = "idle"

-----------------------------------------------------------------------------
(* Handler t answers a withdrawal request in this step, by a decision on   *)
(* its key, and had not created the withdrawal itself.                     *)
Decides(t) ==
  /\ pc[t] \in Labels \ {"idle", "enqueue"}
  /\ pc'[t] = "idle"
  /\ IsWithdrawal(req[t])
  /\ resp'[t] \notin {"aborted", "bad_request"}

(* README.md, "Idempotency": same key and same body, replay prior result;  *)
(* same key and different body, 409 Conflict.                              *)
ReusedKeysAnswered ==
  [][\A t \in Txns, w \in withdrawals :
       Decides(t) /\ SameKey(w, req[t])
         => resp'[t] = IF SameBody(w, req[t]) THEN "replayed" ELSE "conflict"]_vars

(* README.md, "Bank withdrawal": accept request: lock wallet, DEBIT        *)
(* SUCCESSFUL, withdrawal PROCESSING, enqueue withdrawal.payout.           *)
AcceptedIsQueued ==
  \A u \in Wallets, k \in Keys :
    (\E w \in withdrawals : w.kind = "BANK" /\ w.user = u /\ w.key = k)
      ~> (\E w \in payoutQueue : w.user = u /\ w.key = k)
=============================================================================
