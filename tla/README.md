# Verification of the wallet API

TLA+ models of the wallet service under `src/`, the TLC runs that check them on
small instances, and TLAPS proofs about them for every instance. Paths below are
relative to the repository. `PROJECT.json` is the machine-readable index: which
lines each definition models, which run checks which property, which seeded slip
breaks it, and the hazards the properties are for.

## The system

A NestJS service on PostgreSQL (Prisma) and Redis (BullMQ). Several requests are
in progress at a time in one process, and several processes may share the
database and the queues: every `await` is a point where another handler runs.

| Component | State | Operations | Talks to |
|---|---|---|---|
| Money journal, `database/prisma/prisma-wallet-transaction.repository.ts`, `ledger-lock.util.ts` | table `wallet_transactions`, unique `idempotencyKey`; no balance is stored | sum of a wallet, row lock, create, complete | PostgreSQL |
| Ledger services, `modules/wallets/services/wallet-ledger-*.ts` | none of their own | `postPending`, `completeSuccessful`, `postReversal` (and `postSuccessful`, which nothing calls) | journal |
| Withdrawals, `modules/withdrawals/services/withdrawal-{p2p,bank}.service.ts`, `prisma-withdrawal.repository.ts` | table `withdrawals`, unique `(userId, idempotencyKey)` | `executeP2p`, `executeBankAccept`, `payoutQueue.add` | journal, queue |
| Payout and settle jobs, `withdrawal-{payout,settle}.service.ts` and their processors | `withdrawals.status`, `providerTransferId` | pay, ask, settle, reverse | queue, provider, ledger services |
| Queue (BullMQ, external) | jobs, attempts, locks | add, take, retry, stall, remove | processors |
| Flutterwave (external) and its client, `modules/payment-providers/flutterwave/` | what became of a reference | `initiateBankTransfer`, `getBankTransferStatus`, `initiatePayment`, `verifyByTxRef` | jobs, transfers |
| Funding transfers, `modules/transfers/` | tables `transfers`, `webhook_events` | `create`, webhook, `completeFromWebhook` | ledger services, queue, provider |
| Authentication, `modules/auth/`, `prisma-user.repository.ts` | table `users`: hashes, trial counters, lock times | register, login, create PIN, verify PIN | database |
| Queries, `wallets.service.ts`, `transfers.service.ts` | none | the paged statement of a wallet; lookups of one row | journal |
| HTTP, configuration, logging | none | guards, envelopes, validation | |

The hard behaviours: statements of concurrent debits interleave; row locks are
taken in sequence by several transactions; a client retries a request that still
runs; the process dies, or Redis or the provider is out of reach, between two
writes that belong together; the queue runs a job again although the first run
did its work, or still runs; the provider answers late, or answers a repeated
reference in a way of its own.

What makes each part correct:

* **journal**: append-only, no key twice, no wallet overdrawn, money neither made
  nor lost, every credit that is not a funding answers a debit;
* **ledger and withdrawals**: what is checked under the locks is still true when
  it is acted on, all or nothing, one debit for each client key, no deadlock,
  every request is answered, the same request again gets the same answer;
* **payout**: a withdrawal is not both paid out and credited back, its status says
  what happened, and it is settled in the end or shows up as a failed job;
* **funding**: one credit for each confirmed payment, nothing credited before
  confirmation, a confirmed payment is credited in the end;
* **authentication**: names are unique, an account that was promised stands, wrong
  tries lead to a lock, and a lock is earned by the last try, holds, and ends;
* **statement**: pages in order, no row twice, none of those that were there left
  out, and an end.

## The modules

| Module | What it is |
|---|---|
| `Journal` | The rows of `wallet_transactions`, lookups by key, and the balance as a sum. Operators only. |
| `Accounts` | The promise to an account holder: stored balances, changed in one step, never overdrawn. |
| `Ledger` | The promise of the code: each money operation as one atomic step on the journal. Shown to implement `Accounts`. |
| `MoneyFlow` | `Ledger` with the money outside it: payments of customers, payouts of banks. All fundings and withdrawals together. |
| `LedgerTx` | The operations as the code runs them: one action per database statement or queue call, for any number of concurrent handlers, with row locks, rollback and crashes. Shown to implement `Ledger`. |
| `Withdrawal` | The promise of one bank withdrawal: its money is held, then paid out or given back, once; no status says so before. |
| `BankPayout` | One accepted withdrawal, its two jobs, the queue's retries and stalls, the provider or its mock. Shown to implement `Withdrawal`. |
| `Payment` | The promise of one funding: announced, paid, credited, in this order and once; no status says so before. |
| `Funding` | One funding: its creation, the charges at the provider, the webhook, the completion job. Shown to implement `Payment`. |
| `Queue` | A BullMQ job as a record: add, take, retry, requeue. Operators only, used by `BankPayout` and `Funding`. |
| `Auth` | Users: registration, login, creation and check of the PIN, one database statement at a time, and the time locks take. |
| `Statement` | A client that pages through the rows of a wallet while rows are inserted. |
| `MCLedger`, `MCLedgerTx`, `MCBankPayout`, `MCFunding`, `MCAuth`, `MCStatement` | Instances for TLC. |
| `JournalLemmas` | What adding a row does to the sums. |
| `LedgerProofs`, `MoneyFlowProofs`, `LedgerTxProofs`, `BankPayoutProofs`, `FundingProofs`, `AuthProofs`, `StatementProofs` | Theorems and their proofs. |

Three levels describe the ledger. `Accounts` has two numbers for each wallet.
`Ledger` replaces them by sums over a set of rows. `LedgerTx` replaces each
atomic step by the statements of a transaction. `BankPayout` looks at what
happens to one withdrawal after `LedgerTx` queued it, and `Funding` at what
happens around the two ledger calls of one funding; there the reversal, the
pending credit and its completion, transactions that `LedgerTx` takes apart, are
one step each. `MoneyFlow` follows the money of all fundings and withdrawals
through one journal; their jobs are reduced to what they do to it on the provider's
answers, and the provider is assumed to be truthful and final. `Auth` stands before all of them: a request gets to a withdrawal or
a funding after its PIN was checked. `Statement` reads what they wrote.

A definition whose comment begins with "Slip:" is not part of the model. It is a
plausible mistake in the definition that follows, and `PROJECT.json` says which
property notices when it takes that definition's place.

### How the models correspond to the code

**Journal.** A row is a record; the unique string key `p2p-debit:<user>:<key>` is
the triple `<<leg, user, key>>`. The key of a reversal holds the id of the debit,
which user and client key determine. A user has exactly one wallet
(`wallet.prisma`, `userId @unique`), so a user is named by the wallet.
`sumSuccessfulBalance` is `Balance`: amounts are counted as the cardinality of a
set of kobo, so that proofs need no recursion. Amounts are positive (the DTOs
have `@Min(100)`), and unbounded: the columns have 32 bits, and an insert that
does not fit fails, which is `Abort` at the write of `LedgerTx`.

**MoneyFlow.** `taken` are the credits whose payment the provider took, `banked` the
debits that a bank paid out, `refused` those whose bank transfer failed. These three
are outside the service: `TakePayment` needs the pending row, since only then the
customer can pay (`PayableHasCredit`), `PayOut` and `Refuse` a committed debit
(`QueuedAfterCommit`), and a transfer that ended one way does not end the other way.
The jobs know only what they are answered: `Credit` is `CompleteCredit` after the check
of `completeFromWebhook` that `verifyByTxRef` says "successful" (`VerifiedSuccessful`),
`GiveBack` is `PostReversal` on the answer FAILED (`AnsweredFailed`). That a job which
is retried or overlaps with another acts on an answer that still holds is what
`BankPayout` and `Funding` are about. The other operations are those of `Ledger`.

**LedgerTx.** `pc[t]` is the statement handler `t` runs next:

| Label | Statement in the code |
|---|---|
| `lookup` | the lookup by key before the transaction, with its answers (replay, 409, 400) |
| `recheck` | `executeP2p` / `executeBankAccept`: the lookup inside the transaction, before the lock |
| `lock` | `lockWalletRow`, `SELECT ... FOR UPDATE`, once for each wallet in `sortWalletIds` order |
| `sum` | `sumSuccessfulBalance` and the 422 |
| `relookup` | the ledger services' second lookup, under the lock |
| `write` | the inserts or the update, with the unique index, and COMMIT |
| `enqueue` | `payoutQueue.add` after the commit |

PostgreSQL runs at READ COMMITTED (the code sets nothing else), so a statement
sees what is committed when it runs, and the inserts of a transaction are seen
at COMMIT: they are one step. `Abort` ends a handler at any statement: the
process dies, the connection is lost, a Prisma transaction times out, or Redis
refuses the job. What was committed stays, the rest rolls back, the locks go.
The first checks of a withdrawal (to oneself, a wallet or bank that is missing)
are one step with the lookup; PIN verification is left out. A completion or a
reversal starts from any funding or bank withdrawal, at any time and any number
of times: which of these a job really asks for is the subject of `BankPayout`
and `Funding`.

**BankPayout.** `run[r].pc` is the next call of a run of a job. The actions
`Load`, `Initiate`, `UpdateStatus`, `AddSettle` are `processPayout`; `Load`,
`Poll`, `PollPending`, `SettleSuccessful` are `processSettle`; `PostReversal`
and `MarkReversed` are the two writes of either's failure branch. `Reactions` is
the provider: a new reference is accepted (pending, or paid already) or refused.
Three facts about the provider that the code relies on and does not check are
constants: `RejectsDuplicates`, whether it refuses a reference it already has,
`RefusalsFinal`, whether a reference it refused once stays refused, and
`ErrorsSure`, whether an answer that is an error (`initiateBankTransfer` makes FAILED
of any HTTP status but 2xx and of any body but "success" with data) means that
nothing was accepted. With `ErrorsSure = FALSE` an accepted
payment may be answered by an error, the debit is reversed, and `NotPaidTwice` is
violated without any further fault; nothing in the repository says which holds of
the real provider, so the runs and the theorems take it to be TRUE and say so. A
call that is *lost*, before or after its effect, or answered by what is not JSON, is
`Throw` and `Crash` at `initiate` and after it. The queue
retries a job that threw until `MaxAttempts` (3 for a payout, 5 for a settle, as
in the `add` options), hands a job whose lock ran out to another worker once
(`maxStalledCount` 1) while the first run may go on, ignores an `add` whose job
id is taken, and frees the id when a job completes (`removeOnComplete`). An answer
may lack the transfer's id, which is stored as null (`UpdateStatus`, the fault
"no id"). `account` is where the money goes: a real account, or one of the three
kinds the mock adapter tells apart by their last digits; the mock keeps nothing
and answers a repeated request anew (`MockReaction`). `MaxFaults` bounds each kind
of fault: calls that fail or processes that die, slow workers, missing ids.

**Funding.** Everything is about one transfer: the client key of one user.
`request[q]` is the next call of a `POST /transfers` (`TransferCreateService`),
`hook[h].pc` of a delivery to the webhook (`TransferWebhookService`),
`run[r].pc` of a run of `transfer.complete` (`completeFromWebhook`). A charge of
the provider and the webhook event it causes have the same name, because the
event's unique id is built from the charge's `data.id`. The customer can pay only
after the checkout link was stored, since no other answer contains it; a failed
charge may be followed by another, one that moved money is the last. An answer
with the amount 0, which the mock gives, passes the code's check and stands for
the right amount. `Strays` are events of the same account about something else:
they have no reference (rejected) or an unknown one (dismissed). The job is added
without `attempts`, so it has one (`CompletionAttempts`). A call of the job that
throws is `Throw`; an answer of `verifyByTxRef` that cannot be made out is
caught there and becomes "unknown", which ends the job like "pending"
(`VerifyUnknown`).

**Auth.** `run[h].pc` is the next statement of handler `h`; a comparison or a hash
(bcrypt) belongs to the statement after which or before which it runs, and the
handler takes its copy of the row with it (`KeepCopy`: the count of failed tries
and the hash). `FindByEmail`, `FindByUsername`, `CreateWithWallet` are the
registration; `FindUser`, `LiftLock`, `Compare` are `verifyPasswordOrThrow` and
`verifyPinOrThrow` with the read that comes before them; `FindWallet` ends a login,
`SetPinHash` the creation of a PIN. A name has a typed form and a stored one
(`Lower`: trimmed, in lower case); a hash is the secret it was made of. A lock is
kept as the time it has left, `Tick` lets time pass for all of them, and 0 is a
lock that is over but still stored. The code reads the clock twice in a row, to
see whether a lock is over, and then, in `assertNotLocked`, whether it still runs: a
lock that ends between the two is neither lifted nor in the way (the third disjunct of
`CheckLock`), and the check goes on with the lock still in its copy (`locked`) and the
tries used up. A wrong secret then locks
at once, and counts past `MaxTries`. `outdated` is a history variable, the handlers
in a check whose row was written after they read it; no action reads it, and
`LocksHold` and `LocksEarned` use it to say which requests overlapped.

**Statement.** `rows` are the committed rows of one wallet. A row's time is taken
before its transaction commits, so a row may be inserted (`Insert`) with any time,
before or after those that are there, and ids order rows of the same time.
`FirstPage` and `NextPage` are requests without and with a cursor; `GetPage` is the
query (`After` the cursor, `Take` one more than the limit) and what is cut from
its rows (`Cut`). `asked` and `listed` are what the properties compare: the rows
that were there at the first page, and those the client has got.

## The runs

| Run | Instance | Shows |
|---|---|---|
| `ledger` | 2 wallets, 2 keys, amounts 1 and 2, journals of 5 rows and the steps out of them | `NonNegative`, `LegsPaired`, `OneDebitPerKey`, `AppendOnly`, that sums over rows behave as stored balances (`ImplementsAccounts`), and that what customers paid is somewhere (`EveryKoboAccounted`) |
| `ledger_tx` | 2 handlers, 2 wallets, 7 different requests, each any number of times | `CheckedFundsStillThere`, `PostedOnce`, `WithdrawalsAreDebits`, `QueuedAfterCommit`, `NoDeadlock`, that each commit is one step of `Ledger` (`ImplementsLedger`), and that every request is answered (`Answered`) |
| `payout` | 2 runs, 3 calls that fail, a slow worker and a missing id, provider that treats a repeated reference as the first, and the mock | `NotPaidTwice`, `MockAsDocumented`, `ForgottenOnlyIfOverlap`, its safety core `QueuedUnlessOverlap`, and that the two jobs implement `Withdrawal` (`ImplementsWithdrawal`) |
| `funding` | 2 charges, 2 deliveries, 2 job runs, 1 request at a time, 2 faults of jobs | `CreditedOnlyIfPaid`, `ProcessedIsCredited`, `PaidIsQueued` |
| `funding_live` | 1 charge and 1 stray event, 2 requests, a failing request and a failing delivery | `PayableHasCredit`, `PaidIsCredited`, and that a funding implements `Payment` (`ImplementsPayment`) |
| `auth` | 2 handlers, 7 requests about 2 users and 3 typed names, 3 tries, a lock of 2 ticks | `NamesUnique`, `CreatedStands`, `LocksEarned`, `LocksCome`, `LocksHold`, `LocksEnd` |
| `statement` | 4 rows of 2 times, pages of 1 or 2 | `PagesInOrder`, `NothingSkipped`, `StatementEnds` |
| `keys_reused`, `accepted_is_queued`, `payout_duplicate`, `payout_forgotten`, `funding_unconfirmed` | as small as shows it | counterexamples, see Findings |

`MoneyConserved`, `StatusTruthful` and `SuccessIsCredited` have no run of their own:
`EveryKoboAccounted`, `ImplementsWithdrawal` and `ImplementsPayment` say more,
and the proofs of these rest on them.

**Bounds.** Journals of 5 rows fund a wallet, move the money, withdraw it and
reverse it, so every action fires and money passes through two wallets; beyond
that rows only repeat the same situations with other keys. `MoneyFlow` lets the
journal be any that `Ledger` can reach, since a payment can always be taken before
its credit is completed, so the properties of `Ledger` are checked as they stand. In `ledger_tx` the
journal is bounded by the unique keys, not by a constraint: the requests fund the
wallets with less than the debits ask for, use a key with two bodies, as a
transfer and as a withdrawal, transfer in both directions and to oneself, and
every request may come again at any moment, so a retry meets its first attempt
at every statement. Two handlers suffice for the race between two debits of a
wallet and for opposite transfers; longer circles of waits are excluded by the
theorem `HandlersNeverDeadlock`. In `payout` three failed calls use up the
attempts of the payout job, or reach a crash in the retry of a retry; a slow worker
is a run beside another, which two runs suffice for. The proofs cover any number. The account is
chosen at the start, so every fault also meets the mock. In `funding`
two charges are a failed one and its repetition, whose events, deliveries and jobs
then race; a third would be in the place of one of these. Two deliveries of one
event at a time are a race on the unique index, two runs a job that was taken for
stalled; two faults make it stall again. Without stray charges nothing tells the
two charges apart but what happens to them, so their permutations are a symmetry
(`FundingSymmetry`), like those of deliveries and runs. Requests and deliveries fail in
`funding_live`, where two requests race on the unique index of the transfers. In
`auth` two handlers are a race of two registrations for a name, of a right and a
wrong try, of a try and the end of a lock; with 3 tries and a lock of 2 ticks a
lock is reached, met while it runs, and lifted. A lock that ends within a check,
again and again, counts the tries up for ever, so states with more than `MaxStored`
(4) stored tries are not explored further (`TriesBound`): one more than the limit is
what such a check stores, and a larger number is treated alike. Four rows, pages of one or two:
a statement has up to four pages, and rows come before, at and after its cursor,
some with the time of the cursor's row.

**Deadlock** is checked in `ledger_tx`, `auth` and `statement`. In the others the
program may stop (nothing asks any more, the withdrawal is settled), and `NoDeadlock` says more than the
absence of a state without successors: no circle of handlers wait for each other.

**Fairness.** `LedgerTx`: a handler that can run its next statement does (weak
fairness: the event loop and the database make progress), and a wallet row that
is free again and again goes to a waiting handler (strong fairness of
`LockWallet`: PostgreSQL queues the waiters of a row lock). No request has to
arrive and nothing has to abort. `BankPayout`: runs go on, a waiting job is
taken, an abandoned job is noticed by the stalled-job check, and the provider
makes up its mind at some time; nothing says that it does so while the settle
job still asks. The first three are the event
loop and BullMQ's workers, which the code starts with the application; the last is
the provider's part of a bank transfer. `Funding`: handlers go on, jobs are taken, and the provider
delivers an event again until it is answered with 200; waiting jobs and
deliveries need strong fairness because other jobs and deliveries may take their
turn (the queue is first in, first out). Nobody has to ask or to pay. `Auth`:
time passes (weak fairness of `Tick`); nothing says that a handler ends.
`Statement`: a client that has a cursor asks for the next page; rows may come at
any rate meanwhile.

## What is proved

Every invariant, action property and safety property that a passing run
checks is proved for all values of the constants: any number of wallets, handlers,
runs, requests, faults and rows. So are the four refinements: the handlers implement
the atomic ledger, the ledger implements accounts, the payout jobs a withdrawal, and
a funding a payment.

| Module | Theorem | Says |
|---|---|---|
| `LedgerProofs` | `NeverOverdrawn` | `Spec => []NonNegative` |
| | `LegsAlwaysPaired`, `OneDebitForEachKey` | every transfer has both legs, every reversal its debit; a client key is debited once |
| | `MoneyAlwaysConserved` | the balances add up to what came in less what went out |
| | `JournalAppendOnly` | rows stay, or are completed |
| | `SumsAreBalances` | `Spec => ImplementsAccounts`: the sums behave as stored balances |
| `MoneyFlowProofs` | `EveryKoboIsAccounted` | what customers paid is in the wallets, at banks, held for them, or about to be credited |
| `LedgerTxProofs` | `RacingDebitsNeverOverdraw` | no interleaving of handlers overdraws a wallet |
| | `CheckedFundsStay` | the balance a debit was checked against still covers it at the write |
| | `EverythingPostedOnce` | a lookup repeated under the lock is still true at the write |
| | `WithdrawalsMatchDebits` | withdrawals and debits answer each other, one for each key |
| | `PayoutsFollowCommits` | a payout is queued only for a committed withdrawal |
| | `StatementsAreAtomic` | `Spec => ImplementsLedger`: the handlers together are one atomic ledger |
| | `StatementsConserveMoney`, `StatementsPairLegs`, `StatementsOnlyAppend`, `StatementsKeepBooks` | what was proved of the atomic ledger, carried over to the handlers |
| | `HandlersNeverDeadlock` | no circle of handlers wait for each other |
| `BankPayoutProofs` | `NeverPaidTwice`, `StatusAlwaysTruthful` | with a provider that answers a repeated reference as it did the first time, and gives an error only for what it refuses: not both paid and credited back, and the status is true |
| | `MockKeepsItsWord` | with the mock a withdrawal ends as its account number says |
| | `NeverUnqueued` | while no runs overlap and every answer has its id, an unsettled withdrawal has a job that will settle it |
| | `WithdrawalKeepsItsPromise` | `Spec => ImplementsWithdrawal`, with such a provider |
| `FundingProofs` | `CreditsArePaid` | a funding is credited only if it was paid, however often webhook and job run |
| | `SuccessfulIsCredited`, `ClosedEventsAreCredited` | neither the status nor a closed event runs ahead of the credit |
| | `PayableHasItsCredit` | who can pay has a credit waiting for the payment |
| | `PaidIsNeverDropped` | while no call of the job fails, an answered charge has its job until the payment is credited |
| | `FundingKeepsItsPromise` | `Spec => ImplementsPayment` |
| `AuthProofs` | `NamesAreUnique`, `CreatedAccountsStand` | however many registrations overlap |
| | `LocksAreEarned`, `LocksAlwaysHold` | however many checks overlap, and whenever a lock ends |
| `StatementProofs` | `PagesStayInOrder`, `NothingIsSkipped` | whatever is inserted between the pages |

Each module also proves type correctness and the inductive invariant the rest
follows from.

Assumptions: `WalletsAssumption` (wallets are naturals: ids are compared to order
the locks), `AmountsAssumption` (positive amounts), `NoTxAssumption` (no handler
is the mark of a free row), `TxnsAssumption` (finitely many handlers; only the
absence of deadlocks needs it), `OffersAssumption` (clients send fundings and
withdrawals; completions and reversals come from jobs; in `Auth`, what the DTOs
accept). For the jobs `RunnersAssumption`, `FaultsAssumption` and
`AttemptsAssumption` (the bounds are naturals), `ChargesAssumption` (the stray
charges are charges, and there is one), `NoChargeAssumption` (the mark of an idle
run is no charge), `AccountsAssumption` and
`ProviderAssumption`. For users `NamesAssumption` (the stored form of a stored form
is itself), `SentinelsAssumption`, `IdsAssumption` and `LockAssumption` (at least
one try and one tick). For the statement `OrderAssumption` (ids and times are
ordered as integers are) and `LimitsAssumption` (pages are not empty). TLC
evaluates them in every run. `NeverPaidTwice`, `StatusAlwaysTruthful` and
`WithdrawalKeepsItsPromise` assume besides that the provider does not refuse a
reference it has, does not accept one it refused, and answers nothing it accepts with
an error (`ErrorsSure`); the run `payout_duplicate` and the states listed under
Findings show that the code relies on it. `EveryKoboIsAccounted` rests on a provider
that is truthful and final, which `MoneyFlow` writes into its external actions.

For the interleaved ledger the argument is the inductive invariant `TxInv`. None of the properties is
inductive alone: `NonNegative` is kept by the write of a debit only because
`CheckedFundsStillThere` holds, and that survives the writes of the others only
because each of them that lowers the balance holds the row lock of that wallet.
`LocksHeld` states the latter: a handler past its locks holds the rows of all
the wallets it writes to. Two handlers at `write` with a wallet in common would
both be the value of `lock` there. `RequestsStand` keeps what a handler found at
the start (the debit a reversal names, the pending credit of a completion), and
`FundingRows` says what a row found by its key looks like. `JournalLemmas`
computes what adding a row does to the sums: a credit lowers no balance, a debit
lowers one, by its amount. Under `TxInv` a commit is a step of `Ledger`: a free
key has no debit because `WithdrawalsAreDebits`, the balance covers the amount
because of `CheckedFundsStillThere`, the pending row of a completion is still there
because of `RequestsStand` and `PostedOnce`.

For the atomic ledger `RowsInv` adds to the sums what the rows look like
(`LegsPaired`) and that transfers cancel out. That a reversal refunds only what was
paid out rests on `RefundsMatch`: what was debited is what came back and what is
`Open`, the debits without a reversal; the debit that a reversal names is one of
these, and `OneDebitPerKey` says that it is the only one with its key.

For the money outside the ledger the invariant is `FlowInv`. Its two halves follow
the two ways across the border: what was credited was taken (`CreditsTaken`), and
what was debited for banks is what came back, what was paid out, and what is
unsettled (`WithdrawalsSplit`); the split has no overlap because a debit that was
paid out was not refused, and only refused ones are given back (`AnswersFinal`). Each step moves one amount from one of these sums to
another; `MoneyConserved` ties them to the wallets. `HandlersAreLedger` joins the refinements: the theorems of
`LedgerProofs` are cited for the journal of the handlers.

`HandlersNeverDeadlock` follows from `LockOrder`: the rows a handler still has to
lock come after those it holds. Of a finite set of handlers that wait, take the one
that waits for the largest row; its holder does not wait for a larger one.

For a funding it is `FundInv`. A run of the job reads the provider's verdict and
the credit, and acts on both later, when other runs may have acted meanwhile.
`RunsStand` says what each label has learnt, and nothing undoes it: a charge that
ended does not change, a completed credit stays. That a charge has ended whenever
there is a delivery, an event, a job or a run about it is `WorkReported`; without
it a customer could still pay a charge that a run is about to call failed.
`StallsBounded` keeps the job records in their type. `PayableHasCredit` has an
induction of its own: the request that stores the checkout link has posted the
credit (`LinkAfterCredit`). `PaidIsQueued`, the safety core of `PaidIsCredited`, rests
on `DueInv`: from the answer to the webhook on, the payment is on its way (`OnTheWay`),
in a waiting job or in a run that is before its credit, and, while no call of a job
fails, each such run holds its job (`Held`), so no failed job keeps the id. For the refinement only four actions move the money (`MoneyMovers`), and
`FundInv` says where it was before.

For a payout `PayoutInv` says what each run has been told and that it is still so
when the run acts on it (`RunsKnow`): a provider's final answer does not change, as
long as it is `Dependable`. The refinement of `Withdrawal` adds that what was paid stays
paid (`PaidStaysPaid`).
`QueuedUnlessOverlap` is inductive only while no two runs overlap (`QueueInv`): the
calls of a run come in the order of the code (`RunsInOrder`), so when a payout run
completes, the settle job was added, and when a settle run completes, the status is
final; a run beside it may undo that, which is what `payout_forgotten` shows.

For accounts `AuthInv` says that names are stored in the form that is compared, that
a stored lock means stored tries at or above the limit and the other way round, and
what the copies of running checks are worth (`CopiesOK`): a copy is either outdated
or agrees with the row, and it has its tries used up only if it still has the lock.
So whoever lifts a running lock read the row before it was set (`LocksAreEarned` and
`LocksAlwaysHold` follow step by step). For the statement `StatementInv` says that the cursor splits the
rows: those before it were listed, or were inserted after the first page was asked
for.

Only model-checked: liveness under fairness (`Answered`, `PaidIsCredited`,
`ForgottenOnlyIfOverlap`, `LocksCome`, `LocksEnd`, `StatementEnds`), which is out of this
prover's reach.

## Findings

Each is a run with a counterexample; `PROJECT.json` quotes the sentence the code
disagrees with.

* `keys_reused`: the lookup inside the transaction does not compare the bodies, so
  an overlapping request with another body is answered as a replay of a withdrawal
  it did not ask for. A request that overlaps later passes both lookups, waits for
  the lock, and then breaks the unique index (P2002, not caught) or gets 422
  because the first one spent the money, with either body. No money is lost.
* `accepted_is_queued`: between COMMIT and `payoutQueue.add` the process may die;
  the money is debited, a retry is answered as a replay, nothing queues the job.
* `payout_duplicate`: a payout run that fails after the provider accepted is
  retried with the same reference; if the provider refuses a duplicate, the debit
  is reversed although the first transfer pays.
* `payout_forgotten`: a slow run writes PROCESSING over SUCCESSFUL, and its settle
  job is dropped because the old one still holds the id. One crash does the same: the
  worker dies after `settleQueue.add`, and the payout job is run again beside the
  settle job. `ForgottenOnlyIfOverlap` bounds the finding: without a run beside a
  payout run, and with an id in the answer, nothing is forgotten.
* `funding_unconfirmed`: one call of the completion job throws, the job has one
  attempt and stays in the failed set with its id; a repeated webhook adds it again
  without effect, and the paid funding is never credited. An "unknown" answer of
  the verification ends the job as done, with the webhook already acknowledged.

The models reach further states of this kind that have no run of their own: the
reversal is committed and the status is not, the retried payout job asks again, and
a refusal that has passed becomes a payment (`RefusalsFinal = FALSE` with one
fault); an error answer to a payment that was accepted reverses its debit
(`ErrorsSure = FALSE` without a fault); a lock that ends while a check looks at it
is set again by one wrong try; a payment that fails after the fifth poll is not reversed; a run that was
told "failed" writes FAILED over the SUCCESSFUL of another run; a transfer whose
creation was interrupted is replayed without a checkout; an answer without an id
leaves a withdrawal PROCESSING for good; wrong tries that overlap are counted as
one; of two requests that both found no PIN, the second overwrites the first.

## Not modelled

HTTP, DTO validation, response envelopes, logging, Swagger and configuration keep
no state; hashing, JWT and HMAC signatures are cryptography; the debit service's
`postSuccessful` has no caller. The lookups of a single wallet, transfer or
withdrawal read one row and change nothing. The mock's checkout page only calls
the webhook that `Funding` models.

Of what is modelled, these details are left out: which amounts do not fit into the
32-bit columns (the failing insert is `Abort`, and leaves nothing behind); delays and backoff of the queue, whose jobs may run at any
time; the currency and status checks of a wallet, which reject a request before any
state is read.

What could come next is a composition one level down: `MoneyFlow` joins the jobs on
the atomic ledger, by what the provider answers them. A module that runs the jobs of
several withdrawals on the statements of `LedgerTx` would show retries and overlaps
there too; its states are out of TLC's reach at the bounds above, so it would have to
rest on the proofs.
