----------------------------- MODULE BankPayout -----------------------------
(***************************************************************************)
(* What happens to one accepted bank withdrawal: it is debited, its status *)
(* is PROCESSING, and its payout job waits in the queue.  The payout job   *)
(* asks the provider to pay; the settle job asks the provider how the      *)
(* payment ended; either of them credits the money back when it failed.    *)
(*                                                                         *)
(* A run of a job is a handler that awaits one call after another, to the  *)
(* database, to the provider, to the queue, and any of these may fail, or  *)
(* the process may die between two of them.  The queue (BullMQ) runs a job *)
(* again when a run of it throws, until the job's attempts are used up,    *)
(* and when a worker stopped renewing its lock: because it died, or        *)
(* because it was only slow, in which case the old run goes on beside the  *)
(* new one.                                                                *)
(*                                                                         *)
(* Posting the reversal is one step here: it is a transaction whose        *)
(* statements, and whose effect of at most one row, LedgerTx models.       *)
(***************************************************************************)
EXTENDS Queue

CONSTANTS
  MaxAttempts,        \* the attempts a job has, a function of the job
  MaxFaults,          \* bound: what may go wrong, for each kind of fault
  Accounts,           \* the destination accounts, as the provider tells them apart
  RejectsDuplicates,  \* the provider refuses a reference it already has
  RefusalsFinal,      \* a reference the provider refused, it refuses again
  ErrorsSure          \* the provider answers no request with an error it accepts

Jobs == {"payout", "settle"}

(* A call or a process dies, a worker is too slow to keep its job, or the  *)
(* provider's answer lacks the transfer's id.                              *)
FaultKinds == {"call", "slow", "no id"}

(* The account numbers that the mock provider (flutterwave.mock, or no     *)
(* secret key) tells apart by their ends, and any account of a real one.   *)
MockAccounts == {"000", "999", "other"}

ASSUME AttemptsAssumption ==
  MaxAttempts \in [Jobs -> Nat \ {0}] /\ MaxFaults \in [FaultKinds -> Nat]
ASSUME AccountsAssumption == Accounts \subseteq MockAccounts \cup {"real"}
ASSUME ProviderAssumption == {RejectsDuplicates, RefusalsFinal, ErrorsSure} \subseteq BOOLEAN

VARIABLES
  account,     \* where the money goes
  status,      \* the withdrawal's status
  transferId,  \* whether the withdrawal's providerTransferId is set
  reversed,    \* whether the journal has the reversal of its debit
  provider,    \* what the provider did with the withdrawal's reference
  jobs,        \* the two jobs in the queue
  run,         \* what each run does next
  faults       \* how many faults of each kind happened

vars == <<account, status, transferId, reversed, provider, jobs, run, faults>>

Labels == {"idle", "load", "initiate", "update", "add settle", "poll",
           "settle", "reverse", "mark", "done"}

TypeOK ==
  /\ account \in Accounts
  /\ status \in {"PROCESSING", "SUCCESSFUL", "REVERSED"}
  /\ transferId \in BOOLEAN
  /\ reversed \in BOOLEAN
  /\ provider \in {"unasked", "refused", "pending", "paid", "failed"}
  /\ jobs \in [Jobs -> Job]
  /\ \A j \in Jobs : /\ jobs[j].attempts <= MaxAttempts[j]
                     /\ jobs[j].state = "active" <=> jobs[j].owner \in Runners
  /\ run \in [Runners -> [job    : Jobs,
                          pc     : Labels,
                          answer : {"none", "PENDING", "SUCCESSFUL", "FAILED"}]]
  /\ faults \in [FaultKinds -> Nat]
  /\ \A kind \in FaultKinds : faults[kind] <= MaxFaults[kind]

-----------------------------------------------------------------------------
IdleRun == [job |-> "payout", pc |-> "idle", answer |-> "none"]

Init ==
  /\ account \in Accounts
  /\ status = "PROCESSING"
  /\ transferId = FALSE
  /\ reversed = FALSE
  /\ provider = "unasked"
  /\ jobs = [j \in Jobs |-> NewJob(IF j = "payout" THEN "waiting" ELSE "absent")]
  /\ run = [r \in Runners |-> IdleRun]
  /\ faults = [kind \in FaultKinds |-> 0]

(* Whether the run still holds the lock of its job; if not, the queue      *)
(* ignores how it ends.                                                    *)
Owns(r) == jobs[run[r].job].owner = r

Fault(kind) ==
  /\ faults[kind] < MaxFaults[kind]
  /\ faults' = [faults EXCEPT ![kind] = @ + 1]

Goto(r, label) == run' = [run EXCEPT ![r].pc = label]

(* A worker takes a waiting job.                                           *)
Take(r, j) ==
  /\ run[r].pc = "idle"
  /\ jobs[j].state = "waiting"
  /\ jobs' = [jobs EXCEPT ![j] = Taken(@, r)]
  /\ run' = [run EXCEPT ![r] = [IdleRun EXCEPT !.job = j, !.pc = "load"]]
  /\ UNCHANGED <<account, status, transferId, reversed, provider, faults>>

(* The run returned: removeOnComplete removes its job, and its id is free. *)
Complete(r) ==
  /\ run[r].pc = "done"
  /\ run' = [run EXCEPT ![r] = IdleRun]
  /\ jobs' = IF Owns(r) THEN [jobs EXCEPT ![run[r].job] = NewJob("absent")]
                        ELSE jobs
  /\ UNCHANGED <<account, status, transferId, reversed, provider, faults>>

(* The run threw.                                                          *)
EndAttempt(r) ==
  /\ run' = [run EXCEPT ![r] = IdleRun]
  /\ jobs' = IF Owns(r)
               THEN [jobs EXCEPT ![run[r].job] = Retried(@, MaxAttempts[run[r].job])]
               ELSE jobs

-----------------------------------------------------------------------------
(* The jobs.                                                               *)

Terminal == status \in {"SUCCESSFUL", "REVERSED"}

(* Both jobs load the withdrawal and return if it is settled; the settle   *)
(* job also returns when there is no transfer to ask about.                *)
Load(r) ==
  /\ run[r].pc = "load"
  /\ \/ Terminal /\ Goto(r, "done")
     \/ ~ Terminal /\ run[r].job = "payout" /\ Goto(r, "initiate")
     \/ ~ Terminal /\ run[r].job = "settle"
          /\ Goto(r, IF transferId THEN "poll" ELSE "done")
  /\ UNCHANGED <<account, status, transferId, reversed, provider, jobs, faults>>

AnswerFor == [pending |-> "PENDING", paid |-> "SUCCESSFUL",
              failed |-> "FAILED", refused |-> "FAILED"]

(* Slip: a transfer the mock lets fail later has the id of one that ends   *)
(* well.                                                                   *)
MockReactionOkId(number) ==
  CASE number = "000" -> <<"refused", "FAILED">>
    [] number = "999" -> <<"paid", "PENDING">>
    [] OTHER          -> <<"paid", "SUCCESSFUL">>

(* The mock keeps nothing: the end of the account number decides how the   *)
(* transfer ends and what the request for it is answered, each time again. *)
MockReaction(number) ==
  CASE number = "000" -> <<"refused", "FAILED">>
    [] number = "999" -> <<"failed", "PENDING">>
    [] OTHER          -> <<"paid", "SUCCESSFUL">>

(* An error that comes for another reason than a refusal.                  *)
Errors == IF ErrorsSure THEN {} ELSE {"FAILED"}

(* What the provider does when it is asked to pay, and what it answers.  A *)
(* new reference is accepted, and may even be paid by then, or refused.    *)
Reactions ==
  CASE account \in MockAccounts -> {MockReaction(account)}
    [] account \notin MockAccounts /\ provider \in {"pending", "paid", "failed"} ->
         {provider} \X (Errors \cup
            {IF RejectsDuplicates THEN "FAILED" ELSE AnswerFor[provider]})
    [] account \notin MockAccounts /\ provider = "refused" /\ RefusalsFinal ->
         {<<provider, "FAILED">>}
    [] OTHER -> UNION {{p} \X (Errors \cup {AnswerFor[p]}) : p \in DOMAIN AnswerFor}

(* initiateBankTransfer: any answer that is not a success is FAILED.       *)
Initiate(r) ==
  /\ run[r].pc = "initiate"
  /\ \E reaction \in Reactions :
       /\ provider' = reaction[1]
       /\ run' = [run EXCEPT ![r].answer = reaction[2],
                             ![r].pc = IF reaction[2] = "FAILED" THEN "reverse"
                                                                 ELSE "update"]
  /\ UNCHANGED <<account, status, transferId, reversed, jobs, faults>>

(* Slip: a payment that was accepted counts as made.                       *)
UpdateStatusOptimistic(r) ==
  /\ run[r].pc = "update"
  /\ transferId' = TRUE
  /\ status' = "SUCCESSFUL"
  /\ Goto(r, "done")
  /\ UNCHANGED <<account, reversed, provider, jobs, faults>>

(* The payout job stores the answer, whatever the status is by now.        *)
UpdateStatus(r) ==
  /\ run[r].pc = "update"
  /\ \/ transferId' = TRUE /\ UNCHANGED faults
     \/ account \notin MockAccounts /\ transferId' = FALSE /\ Fault("no id")
  /\ IF run[r].answer = "SUCCESSFUL"
       THEN status' = "SUCCESSFUL" /\ Goto(r, "done")
       ELSE status' = "PROCESSING" /\ Goto(r, "add settle")
  /\ UNCHANGED <<account, reversed, provider, jobs>>

(* settleQueue.add does nothing when the job id is taken.                  *)
AddSettle(r) ==
  /\ run[r].pc = "add settle"
  /\ jobs' = [jobs EXCEPT !["settle"] = Added(@)]
  /\ Goto(r, "done")
  /\ UNCHANGED <<account, status, transferId, reversed, provider, faults>>

(* Slip: a payment that is not made yet counts as failed.                  *)
PollImpatient(r) ==
  /\ run[r].pc = "poll"
  /\ \/ provider = "paid" /\ Goto(r, "settle")
     \/ provider # "paid" /\ Goto(r, "reverse")
  /\ UNCHANGED <<account, status, transferId, reversed, provider, jobs, faults>>

(* getBankTransferStatus, when the payment has ended.                      *)
Poll(r) ==
  /\ run[r].pc = "poll"
  /\ \/ provider = "paid" /\ Goto(r, "settle")
     \/ provider = "failed" /\ Goto(r, "reverse")
  /\ UNCHANGED <<account, status, transferId, reversed, provider, jobs, faults>>

(* Slip: the settle job returns, and the queue takes it for done.          *)
PollPendingReturns(r) ==
  /\ run[r].pc = "poll"
  /\ provider = "pending"
  /\ Goto(r, "done")
  /\ UNCHANGED <<account, status, transferId, reversed, provider, jobs, faults>>

(* It has not, so the settle job throws, to be run again later.            *)
PollPending(r) ==
  /\ run[r].pc = "poll"
  /\ provider = "pending"
  /\ EndAttempt(r)
  /\ UNCHANGED <<account, status, transferId, reversed, provider, faults>>

SettleSuccessful(r) ==
  /\ run[r].pc = "settle"
  /\ status' = "SUCCESSFUL"
  /\ Goto(r, "done")
  /\ UNCHANGED <<account, transferId, reversed, provider, jobs, faults>>

(* The first half of a reversal: the journal's row, written at most once.  *)
PostReversal(r) ==
  /\ run[r].pc = "reverse"
  /\ reversed' = TRUE
  /\ Goto(r, "mark")
  /\ UNCHANGED <<account, status, transferId, provider, jobs, faults>>

(* The second half: the withdrawal's status.                               *)
MarkReversed(r) ==
  /\ run[r].pc = "mark"
  /\ status' = "REVERSED"
  /\ Goto(r, "done")
  /\ UNCHANGED <<account, transferId, reversed, provider, jobs, faults>>

-----------------------------------------------------------------------------
(* The provider, and what goes wrong.                                      *)

ProviderDecides ==
  /\ provider = "pending"
  /\ provider' \in {"paid", "failed"}
  /\ UNCHANGED <<account, status, transferId, reversed, jobs, run, faults>>

(* A call fails (the database, the queue, the network, the provider's      *)
(* status unknown), before or after it had its effect.                     *)
Throw(r) ==
  /\ run[r].pc \notin {"idle", "done"}
  /\ Fault("call")
  /\ EndAttempt(r)
  /\ UNCHANGED <<account, status, transferId, reversed, provider>>

(* The process of a run dies.  Its job stays active.                       *)
Crash(r) ==
  /\ run[r].pc # "idle"
  /\ Fault("call")
  /\ run' = [run EXCEPT ![r] = IdleRun]
  /\ UNCHANGED <<account, status, transferId, reversed, provider, jobs>>

(* An active job whose run is gone.                                        *)
Abandoned(j) ==
  /\ jobs[j].state = "active"
  /\ LET r == jobs[j].owner IN run[r].pc = "idle" \/ run[r].job # j

(* The queue gives it to another worker, or gives it up.                   *)
RequeueAbandoned(j) ==
  /\ Abandoned(j)
  /\ jobs' = [jobs EXCEPT ![j] = Requeued(@)]
  /\ UNCHANGED <<account, status, transferId, reversed, provider, run, faults>>

(* The same for a run that is alive but too slow to renew its lock.        *)
RequeueSlow(j) ==
  /\ jobs[j].state = "active"
  /\ ~ Abandoned(j)
  /\ Fault("slow")
  /\ jobs' = [jobs EXCEPT ![j] = Requeued(@)]
  /\ UNCHANGED <<account, status, transferId, reversed, provider, run>>

-----------------------------------------------------------------------------
Work(r) ==
  \/ Load(r)
  \/ Initiate(r)
  \/ UpdateStatus(r)
  \/ AddSettle(r)
  \/ Poll(r)
  \/ PollPending(r)
  \/ SettleSuccessful(r)
  \/ PostReversal(r)
  \/ MarkReversed(r)
  \/ Complete(r)

Next ==
  \/ \E r \in Runners : Work(r) \/ Throw(r) \/ Crash(r)
  \/ \E j \in Jobs : \/ \E r \in Runners : Take(r, j)
                     \/ RequeueAbandoned(j)
                     \/ RequeueSlow(j)
  \/ ProviderDecides

Spec == Init /\ [][Next]_vars

(* Runs go on, waiting jobs are taken, abandoned jobs are noticed, and the *)
(* provider makes up its mind, however late.                               *)
Fairness ==
  /\ \A r \in Runners : WF_vars(Work(r))
  /\ \A j \in Jobs : /\ WF_vars(\E r \in Runners : Take(r, j))
                     /\ WF_vars(RequeueAbandoned(j))
  /\ WF_vars(ProviderDecides)

FairSpec == Spec /\ Fairness

-----------------------------------------------------------------------------
(* The money is never both paid out and credited back: the reversal in     *)
(* withdrawal-payout.service.ts and withdrawal-settle.service.ts is posted *)
(* only for a payment that failed for good, whatever is retried.           *)
NotPaidTwice == ~ (provider = "paid" /\ reversed)

(* What a status tells the user is so: SUCCESSFUL was paid by the provider,*)
(* REVERSED was credited back in the journal.                              *)
StatusTruthful ==
  /\ status = "SUCCESSFUL" => provider = "paid"
  /\ status = "REVERSED" => reversed

(* The mock provider ends a withdrawal the way its account number says,    *)
(* whatever is retried (flutterwave-mock.adapter.ts): one to an account    *)
(* that ends with 000 or 999 is never told to be paid, any other is never  *)
(* credited back.                                                          *)
MockAsDocumented ==
  /\ account \in {"000", "999"} => status # "SUCCESSFUL" /\ provider # "paid"
  /\ account = "other" => status # "REVERSED" /\ ~ reversed

(* A withdrawal is settled, or its job stays in the failed set where an    *)
(* operator finds it; it is not dropped while its status is PROCESSING.    *)
(* WALLET_API_HANDOFF.md, "Withdrawal bank": "SUCCESS -> finalize; FAILED  *)
(* -> REVERSAL CREDIT + mark REVERSED/FAILED".                             *)
NeverForgotten ==
  <>[](Terminal \/ \E j \in Jobs : jobs[j].state = "failed")

(* Another run is going on beside a payout run that has work left.         *)
Overlap ==
  \E p \in Runners, q \in Runners :
    /\ p # q
    /\ run[p].job = "payout" /\ run[p].pc \notin {"idle", "done"}
    /\ run[q].pc # "idle"

Quiet == ~ Overlap /\ faults["no id"] = 0

(* Failed calls, crashes and slow workers, retried by the queue as         *)
(* withdrawal-bank.service.ts and withdrawal-payout.service.ts ask for, do *)
(* not by themselves make the program forget a withdrawal: that takes a    *)
(* run beside a payout run, or an answer without a transfer id.            *)
ForgottenOnlyIfOverlap ==
  []Quiet => NeverForgotten

SettledOrQueued == Terminal \/ \E j \in Jobs : jobs[j].state # "absent"

(* Under the same conditions there is no moment, however short, at which   *)
(* an unsettled withdrawal has neither of its jobs in the queue: the       *)
(* settle job is added before the payout job goes, and goes when the       *)
(* status is written (withdrawal-payout.service.ts,                        *)
(* withdrawal-settle.service.ts).                                          *)
QueuedUnlessOverlap ==
  []Quiet => []SettledOrQueued

-----------------------------------------------------------------------------
(* Where the money of the withdrawal is; no promise allows it twice.       *)
Money ==
  CASE reversed /\ provider # "paid"   -> "returned"
    [] ~ reversed /\ provider = "paid" -> "paid"
    [] reversed /\ provider = "paid"   -> "twice"
    [] OTHER                           -> "held"

Promise == INSTANCE Withdrawal WITH money <- Money, told <- status

(* The two jobs of withdrawal-payout.service.ts and                        *)
(* withdrawal-settle.service.ts, retried and overlapping, keep what the    *)
(* user is promised: the money leaves or comes back, once and for good.    *)
ImplementsWithdrawal == Promise!Spec
=============================================================================
