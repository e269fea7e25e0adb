------------------------------- MODULE Funding -------------------------------
(***************************************************************************)
(* What happens to one funding, the transfer of one client key of a user:  *)
(* a request creates it, with a PENDING credit in the journal and a        *)
(* checkout at the provider; the customer is charged there; the provider   *)
(* reports the charge to the webhook until it is answered; the webhook     *)
(* stores an event and queues a transfer.complete job, which asks the      *)
(* provider about the payment and completes the credit.                    *)
(*                                                                         *)
(* Requests, deliveries and runs of jobs are handlers that await one call  *)
(* after another.  Posting the credit and completing it are one step each: *)
(* LedgerTx models their transactions, which write once whatever repeats.  *)
(***************************************************************************)
EXTENDS Queue

CONSTANTS
  Requests,   \* the POST /transfers requests that may be running at one time
  Charges,    \* charges of the provider; its id names a charge and its event
  NoCharge,   \* what a delivery or a run is about that is not going on
  Strays,     \* charges that are reported here and belong to no transfer
  Hooks,      \* the deliveries to the webhook that may be running at one time
  MaxFaults   \* bound: what may fail, for each of "request", "webhook", "job"

ASSUME ChargesAssumption == Strays \subseteq Charges /\ Charges # {}
ASSUME NoChargeAssumption == NoCharge \notin Charges
ASSUME FaultsAssumption == MaxFaults \in [{"request", "webhook", "job"} -> Nat]

(* transferQueue.add sets no attempts, and the queue's default is one.     *)
CompletionAttempts == 1

VARIABLES
  transfer,  \* status and checkout of the row of transfers
  credit,    \* the transfer's credit in the journal
  request,   \* what each request does next
  charge,    \* what became of each charge
  event,     \* the rows of webhook_events
  acked,     \* whether a delivery of the event was answered with 200
  hook,      \* what each delivery does next
  jobs,      \* the transfer.complete job of each event
  run,       \* what each run does next
  faults     \* how many faults happened

creation == <<transfer, credit, request>>
webhook == <<event, acked, hook>>
queue == <<jobs, run>>
vars == <<creation, charge, webhook, queue, faults>>

TypeOK ==
  /\ transfer \in [status   : {"none", "INITIATED", "PENDING", "SUCCESSFUL", "FAILED"},
                   checkout : BOOLEAN]
  /\ credit \in {"none", "PENDING", "SUCCESSFUL"}
  /\ request \in [Requests -> {"idle", "lookup", "create", "credit",
                               "initiate", "update"}]
  /\ charge \in [Charges -> {"none", "pending", "failed", "successful", "other amount"}]
  /\ event \in [Charges -> {"none", "RECEIVED", "PROCESSED", "FAILED"}]
  /\ acked \in [Charges -> BOOLEAN]
  /\ hook \in [Hooks -> [pc : {"idle", "lookup", "create", "enqueue"},
                         charge : Charges \cup {NoCharge}]]
  /\ \A h \in Hooks : hook[h].pc = "idle" <=> hook[h].charge = NoCharge
  /\ jobs \in [Charges -> Job]
  /\ \A c \in Charges : jobs[c].state = "active" <=> jobs[c].owner \in Runners
  /\ run \in [Runners -> [pc : {"idle", "load", "find", "verify", "fail transfer",
                                "credits", "complete", "update", "processed",
                                "dismiss", "reject", "done"},
                          charge : Charges \cup {NoCharge}]]
  /\ \A r \in Runners : run[r].pc = "idle" <=> run[r].charge = NoCharge
  /\ faults \in [DOMAIN MaxFaults -> Nat]
  /\ \A kind \in DOMAIN MaxFaults : faults[kind] <= MaxFaults[kind]

IdleRun == [pc |-> "idle", charge |-> NoCharge]

Init ==
  /\ transfer = [status |-> "none", checkout |-> FALSE]
  /\ credit = "none"
  /\ request = [q \in Requests |-> "idle"]
  /\ charge = [c \in Charges |-> "none"]
  /\ event = [c \in Charges |-> "none"]
  /\ acked = [c \in Charges |-> FALSE]
  /\ hook = [h \in Hooks |-> [pc |-> "idle", charge |-> NoCharge]]
  /\ jobs = [c \in Charges |-> NewJob("absent")]
  /\ run = [r \in Runners |-> IdleRun]
  /\ faults = [kind \in DOMAIN MaxFaults |-> 0]

Fault(kind) ==
  /\ faults[kind] < MaxFaults[kind]
  /\ faults' = [faults EXCEPT ![kind] = @ + 1]

-----------------------------------------------------------------------------
(* POST /transfers.                                                        *)

RequestGoto(q, label) == request' = [request EXCEPT ![q] = label]

Respond(q) == RequestGoto(q, "idle")

(* A first request, or a retry.                                            *)
Ask(q) ==
  /\ request[q] = "idle"
  /\ RequestGoto(q, "lookup")
  /\ UNCHANGED <<transfer, credit, charge, webhook, queue, faults>>

(* Slip: a retry goes on with a transfer that has no checkout yet.         *)
FindByKeyResuming(q) ==
  /\ request[q] = "lookup"
  /\ CASE transfer.status = "none"      -> RequestGoto(q, "create")
       [] transfer.status = "INITIATED" -> RequestGoto(q, "initiate")
       [] OTHER                         -> Respond(q)
  /\ UNCHANGED <<transfer, credit, charge, webhook, queue, faults>>

(* A transfer that exists is answered as it is, or with a conflict when    *)
(* the request's body differs; in neither case is it worked on.            *)
FindByKey(q) ==
  /\ request[q] = "lookup"
  /\ IF transfer.status # "none" THEN Respond(q) ELSE RequestGoto(q, "create")
  /\ UNCHANGED <<transfer, credit, charge, webhook, queue, faults>>

(* The insert, which the unique index refuses to the second of two         *)
(* requests that both found nothing.                                       *)
CreateTransfer(q) ==
  /\ request[q] = "create"
  /\ IF transfer.status # "none"
       THEN Respond(q) /\ UNCHANGED transfer
       ELSE /\ RequestGoto(q, "credit")
            /\ transfer' = [status |-> "INITIATED", checkout |-> FALSE]
  /\ UNCHANGED <<credit, charge, webhook, queue, faults>>

(* ledger.postCreditPending.                                               *)
PostPendingCredit(q) ==
  /\ request[q] = "credit"
  /\ credit' = IF credit = "none" THEN "PENDING" ELSE credit
  /\ RequestGoto(q, "initiate")
  /\ UNCHANGED <<transfer, charge, webhook, queue, faults>>

(* flutterwave.initiatePayment: nobody but this request knows the link yet.*)
InitiatePayment(q) ==
  /\ request[q] = "initiate"
  /\ RequestGoto(q, "update")
  /\ UNCHANGED <<transfer, credit, charge, webhook, queue, faults>>

(* The link is stored and answered: the customer may pay.                  *)
StoreCheckout(q) ==
  /\ request[q] = "update"
  /\ transfer' = [status |-> "PENDING", checkout |-> TRUE]
  /\ Respond(q)
  /\ UNCHANGED <<credit, charge, webhook, queue, faults>>

(* A call of the request fails or its process dies.  What it wrote stays.  *)
RequestFails(q) ==
  /\ request[q] # "idle"
  /\ Fault("request")
  /\ Respond(q)
  /\ UNCHANGED <<transfer, credit, charge, webhook, queue>>

-----------------------------------------------------------------------------
(* The provider.                                                           *)

Ended == {"failed", "successful", "other amount"}

(* The customer tries to pay, again if a charge failed; the charge ends at *)
(* once or later.  A charge that moved money is the last of its reference. *)
Pay(c) ==
  /\ transfer.checkout
  /\ c \notin Strays
  /\ charge[c] \in {"none", "pending"}
  /\ \A d \in Charges \ {c} : charge[d] \in {"none", "failed"}
  /\ \E outcome \in {"pending"} \cup Ended : charge' = [charge EXCEPT ![c] = outcome]
  /\ UNCHANGED <<creation, webhook, queue, faults>>

(* What verifyByTxRef tells of the reference: that it was paid if it was,  *)
(* else the state of one of its charges.                                   *)
Verdicts ==
  LET states == {charge[c] : c \in Charges \ Strays} \ {"none"}
      paid   == states \cap {"successful", "other amount"}
  IN  IF paid # {} THEN paid ELSE states

(* Any delivery of a charge that ended: the first, one more because the    *)
(* last was not answered with 200, or a duplicate.                         *)
Deliver(h, c) ==
  /\ hook[h].pc = "idle"
  /\ c \in Strays \/ charge[c] \in Ended
  /\ hook' = [hook EXCEPT ![h] = [pc |-> "lookup", charge |-> c]]
  /\ UNCHANGED <<creation, charge, event, acked, queue, faults>>

-----------------------------------------------------------------------------
(* POST /webhooks/flutterwave, with a good signature and an event id.      *)

HookGoto(h, label) == hook' = [hook EXCEPT ![h].pc = label]

HookIdle(h) == hook' = [hook EXCEPT ![h] = [pc |-> "idle", charge |-> NoCharge]]

Acknowledge(h) ==
  /\ HookIdle(h)
  /\ acked' = [acked EXCEPT ![hook[h].charge] = TRUE]

(* Slip: an event that is there already is taken for one that was queued.  *)
FindEventTrusting(h) ==
  /\ hook[h].pc = "lookup"
  /\ IF event[hook[h].charge] = "none" THEN HookGoto(h, "create") /\ UNCHANGED acked
                                       ELSE Acknowledge(h)
  /\ UNCHANGED <<creation, charge, event, queue, faults>>

FindEvent(h) ==
  /\ hook[h].pc = "lookup"
  /\ CASE event[hook[h].charge] = "none"      -> HookGoto(h, "create") /\ UNCHANGED acked
       [] event[hook[h].charge] = "PROCESSED" -> Acknowledge(h)
       [] OTHER                               -> HookGoto(h, "enqueue") /\ UNCHANGED acked
  /\ UNCHANGED <<creation, charge, event, queue, faults>>

(* The insert, which the unique index (provider, providerEventId) refuses  *)
(* to the second of two deliveries: that one is answered with an error.    *)
CreateEvent(h) ==
  /\ hook[h].pc = "create"
  /\ IF event[hook[h].charge] # "none"
       THEN HookIdle(h) /\ UNCHANGED event
       ELSE /\ HookGoto(h, "enqueue")
            /\ event' = [event EXCEPT ![hook[h].charge] = "RECEIVED"]
  /\ UNCHANGED <<creation, charge, acked, queue, faults>>

(* Slip: one job id for the transfer instead of one for each event.        *)
EnqueueCompletionByTransfer(h) ==
  /\ hook[h].pc = "enqueue"
  /\ jobs' = IF \E c \in Charges : jobs[c].state # "absent" THEN jobs
               ELSE [jobs EXCEPT ![hook[h].charge] = Added(@)]
  /\ Acknowledge(h)
  /\ UNCHANGED <<creation, charge, event, run, faults>>

(* transferQueue.add, and the answer 200.                                  *)
EnqueueCompletion(h) ==
  /\ hook[h].pc = "enqueue"
  /\ jobs' = [jobs EXCEPT ![hook[h].charge] = Added(@)]
  /\ Acknowledge(h)
  /\ UNCHANGED <<creation, charge, event, run, faults>>

(* A call of the delivery fails or its process dies: no 200.               *)
HookFails(h) ==
  /\ hook[h].pc # "idle"
  /\ Fault("webhook")
  /\ HookIdle(h)
  /\ UNCHANGED <<creation, charge, event, acked, queue>>

-----------------------------------------------------------------------------
(* The transfer.complete job.                                              *)

Owns(r) == jobs[run[r].charge].owner = r

Goto(r, label) == run' = [run EXCEPT ![r].pc = label]

EndAttempt(r) ==
  /\ run' = [run EXCEPT ![r] = IdleRun]
  /\ jobs' = IF Owns(r)
               THEN [jobs EXCEPT ![run[r].charge] = Retried(@, CompletionAttempts)]
               ELSE jobs

Take(r, c) ==
  /\ run[r].pc = "idle"
  /\ jobs[c].state = "waiting"
  /\ jobs' = [jobs EXCEPT ![c] = Taken(@, r)]
  /\ run' = [run EXCEPT ![r] = [pc |-> "load", charge |-> c]]
  /\ UNCHANGED <<creation, charge, webhook, faults>>

(* The event; one without a reference is rejected.                         *)
LoadEvent(r) ==
  /\ run[r].pc = "load"
  /\ IF event[run[r].charge] = "PROCESSED" THEN Goto(r, "done")
       ELSE \/ Goto(r, "find")
            \/ run[r].charge \in Strays /\ Goto(r, "reject")
  /\ UNCHANGED <<creation, charge, webhook, jobs, faults>>

(* The transfer of the event's reference, if there is one.                 *)
FindTransfer(r) ==
  /\ run[r].pc = "find"
  /\ Goto(r, IF run[r].charge \in Strays         THEN "dismiss"
             ELSE IF transfer.status = "SUCCESSFUL" THEN "processed"
             ELSE "verify")
  /\ UNCHANGED <<creation, charge, webhook, jobs, faults>>

(* Slip: whatever has not failed counts as paid.                           *)
VerifyHopeful(r) ==
  /\ run[r].pc = "verify"
  /\ \E verdict \in Verdicts :
       Goto(r, IF verdict = "failed" THEN "fail transfer" ELSE "credits")
  /\ UNCHANGED <<creation, charge, webhook, jobs, faults>>

(* verifyByTxRef.  A payment that is pending ends the job as if it were    *)
(* done; one of another amount or currency is rejected.                    *)
Verify(r) ==
  /\ run[r].pc = "verify"
  /\ \E verdict \in Verdicts :
       Goto(r, CASE verdict = "pending"      -> "done"
                 [] verdict = "failed"       -> "fail transfer"
                 [] verdict = "successful"   -> "credits"
                 [] verdict = "other amount" -> "reject")
  /\ UNCHANGED <<creation, charge, webhook, jobs, faults>>

(* The provider's answer cannot be made out: the status is "unknown", which*)
(* ends the job like "pending".                                            *)
VerifyUnknown(r) ==
  /\ run[r].pc = "verify"
  /\ Fault("job")
  /\ Goto(r, "done")
  /\ UNCHANGED <<creation, charge, webhook, jobs>>

FailTransfer(r) ==
  /\ run[r].pc = "fail transfer"
  /\ transfer' = [transfer EXCEPT !.status = "FAILED"]
  /\ Goto(r, "processed")
  /\ UNCHANGED <<credit, request, charge, webhook, jobs, faults>>

(* Slip: any credit of the transfer counts as a completed one.             *)
FindCreditsOfAnyStatus(r) ==
  /\ run[r].pc = "credits"
  /\ Goto(r, IF credit # "none" THEN "update" ELSE "reject")
  /\ UNCHANGED <<creation, charge, webhook, jobs, faults>>

(* The transfer's credits in the journal.                                  *)
FindCredits(r) ==
  /\ run[r].pc = "credits"
  /\ Goto(r, CASE credit = "SUCCESSFUL" -> "update"
               [] credit = "PENDING"    -> "complete"
               [] credit = "none"       -> "reject")
  /\ UNCHANGED <<creation, charge, webhook, jobs, faults>>

(* Slip: the transfer's status is written first.                           *)
CompleteCreditStatusFirst(r) ==
  /\ run[r].pc = "complete"
  /\ IF transfer.status = "SUCCESSFUL"
       THEN credit' = "SUCCESSFUL" /\ Goto(r, "update") /\ UNCHANGED transfer
       ELSE /\ transfer' = [transfer EXCEPT !.status = "SUCCESSFUL"]
            /\ UNCHANGED <<credit, run>>
  /\ UNCHANGED <<request, charge, webhook, jobs, faults>>

(* ledger.completeCreditSuccessful.                                        *)
CompleteCredit(r) ==
  /\ run[r].pc = "complete"
  /\ credit' = "SUCCESSFUL"
  /\ Goto(r, "update")
  /\ UNCHANGED <<transfer, request, charge, webhook, jobs, faults>>

UpdateTransfer(r) ==
  /\ run[r].pc = "update"
  /\ transfer' = [transfer EXCEPT !.status = "SUCCESSFUL"]
  /\ Goto(r, "processed")
  /\ UNCHANGED <<credit, request, charge, webhook, jobs, faults>>

MarkProcessed(r) ==
  /\ run[r].pc = "processed"
  /\ event' = [event EXCEPT ![run[r].charge] = "PROCESSED"]
  /\ Goto(r, "done")
  /\ UNCHANGED <<creation, charge, acked, hook, jobs, faults>>

(* markFailed, and the job returns or throws.                              *)
MarkFailed(r) ==
  /\ run[r].pc \in {"dismiss", "reject"}
  /\ event' = [event EXCEPT ![run[r].charge] = "FAILED"]
  /\ IF run[r].pc = "dismiss" THEN Goto(r, "done") /\ UNCHANGED jobs
                              ELSE EndAttempt(r)
  /\ UNCHANGED <<creation, charge, acked, hook, faults>>

Complete(r) ==
  /\ run[r].pc = "done"
  /\ run' = [run EXCEPT ![r] = IdleRun]
  /\ jobs' = IF Owns(r) THEN [jobs EXCEPT ![run[r].charge] = NewJob("absent")]
                        ELSE jobs
  /\ UNCHANGED <<creation, charge, webhook, faults>>

-----------------------------------------------------------------------------
(* What goes wrong with a run: a call throws, the process dies, or it is   *)
(* too slow to renew the lock of its job.                                  *)
Throw(r) ==
  /\ run[r].pc \notin {"idle", "done"}
  /\ Fault("job")
  /\ EndAttempt(r)
  /\ UNCHANGED <<creation, charge, webhook>>

Crash(r) ==
  /\ run[r].pc # "idle"
  /\ Fault("job")
  /\ run' = [run EXCEPT ![r] = IdleRun]
  /\ UNCHANGED <<creation, charge, webhook, jobs>>

Abandoned(c) ==
  /\ jobs[c].state = "active"
  /\ LET r == jobs[c].owner IN run[r].pc = "idle" \/ run[r].charge # c

RequeueAbandoned(c) ==
  /\ Abandoned(c)
  /\ jobs' = [jobs EXCEPT ![c] = Requeued(@)]
  /\ UNCHANGED <<creation, charge, webhook, run, faults>>

RequeueSlow(c) ==
  /\ jobs[c].state = "active"
  /\ ~ Abandoned(c)
  /\ Fault("job")
  /\ jobs' = [jobs EXCEPT ![c] = Requeued(@)]
  /\ UNCHANGED <<creation, charge, webhook, run>>

-----------------------------------------------------------------------------
Create(q) ==
  \/ FindByKey(q)
  \/ CreateTransfer(q)
  \/ PostPendingCredit(q)
  \/ InitiatePayment(q)
  \/ StoreCheckout(q)

Receive(h) ==
  \/ FindEvent(h)
  \/ CreateEvent(h)
  \/ EnqueueCompletion(h)

Work(r) ==
  \/ LoadEvent(r)
  \/ FindTransfer(r)
  \/ Verify(r)
  \/ FailTransfer(r)
  \/ FindCredits(r)
  \/ CompleteCredit(r)
  \/ UpdateTransfer(r)
  \/ MarkProcessed(r)
  \/ MarkFailed(r)
  \/ Complete(r)

Next ==
  \/ \E q \in Requests : Ask(q) \/ Create(q) \/ RequestFails(q)
  \/ \E h \in Hooks : \/ \E c \in Charges : Deliver(h, c)
                      \/ Receive(h)
                      \/ HookFails(h)
  \/ \E r \in Runners : \/ \E c \in Charges : Take(r, c)
                        \/ Work(r)
                        \/ VerifyUnknown(r)
                        \/ Throw(r)
                        \/ Crash(r)
  \/ \E c \in Charges : Pay(c) \/ RequeueAbandoned(c) \/ RequeueSlow(c)

Spec == Init /\ [][Next]_vars

(* Handlers go on, waiting jobs are taken, abandoned jobs are noticed, and *)
(* the provider delivers an event until it is answered with 200.  Nobody   *)
(* has to ask for a transfer or to pay.                                    *)
Fairness ==
  /\ \A q \in Requests : WF_vars(Create(q))
  /\ \A h \in Hooks : WF_vars(Receive(h))
  /\ \A r \in Runners : WF_vars(Work(r))
  /\ \A c \in Charges :
       /\ SF_vars(~ acked[c] /\ \E h \in Hooks : Deliver(h, c))
       /\ SF_vars(\E r \in Runners : Take(r, c))
       /\ WF_vars(RequeueAbandoned(c))

FairSpec == Spec /\ Fairness

-----------------------------------------------------------------------------
Paid == \E c \in Charges : charge[c] = "successful"

(* Nothing is credited that was not paid, in full: a webhook alone moves   *)
(* no money (verifyByTxRef in transfer-complete.service.ts).               *)
CreditedOnlyIfPaid == credit = "SUCCESSFUL" => Paid

(* A transfer that says SUCCESSFUL has its credit, wherever a job stopped. *)
SuccessIsCredited == transfer.status = "SUCCESSFUL" => credit = "SUCCESSFUL"

(* The event of a successful charge is closed only when its money is in    *)
(* the wallet: the webhook does nothing for an event that is PROCESSED.    *)
ProcessedIsCredited ==
  \A c \in Charges :
    event[c] = "PROCESSED" /\ charge[c] = "successful" => credit = "SUCCESSFUL"

(* A customer who may pay finds the credit that the payment will complete, *)
(* wherever the first request stopped and whatever a retry does: without   *)
(* that row the completion job rejects the payment                         *)
(* (transfer-create.service.ts, transfer-complete.service.ts).             *)
PayableHasCredit == transfer.checkout => credit # "none"

(* A request that asks the provider for the link has posted the credit.    *)
LinkAfterCredit ==
  \A q \in Requests : request[q] \in {"initiate", "update"} => credit # "none"

(* The provider may have reported c: it ended, or is none of ours.         *)
Reported(c) == c \in Strays \/ charge[c] \in Ended

(* Only what was reported is delivered, stored, queued and worked on.      *)
WorkReported ==
  /\ \A c \in Strays : charge[c] = "none"
  /\ \A h \in Hooks : hook[h].pc # "idle" => Reported(hook[h].charge)
  /\ \A c \in Charges : event[c] # "none" \/ jobs[c].state # "absent" => Reported(c)
  /\ \A r \in Runners : run[r].pc # "idle" => Reported(run[r].charge)

(* What a run that is at label, on the event of c, has read before.        *)
Stands(label, c) ==
  /\ label \in {"credits", "complete"} => Paid
  /\ label = "fail transfer" => charge[c] # "successful"
  /\ label = "update" => credit = "SUCCESSFUL"
  /\ label = "processed" => charge[c] # "successful" \/ credit = "SUCCESSFUL"

(* It still holds when the run acts on it, whatever the others did.        *)
RunsStand == \A r \in Runners : Stands(run[r].pc, run[r].charge)

(* As long as no call of the job fails, a payment whose webhook was        *)
(* answered with 200 is credited, or its job waits or runs: the answer is  *)
(* given after the job was added, and the job that ran ends with the       *)
(* credit (transfer-webhook.service.ts, transfer-complete.service.ts).     *)
PaidIsQueued ==
  faults["job"] = 0 =>
    \A c \in Charges :
      charge[c] = "successful" /\ acked[c] /\ credit # "SUCCESSFUL"
        => jobs[c].state \in {"waiting", "active"}

(* README.md, "Funding": the worker re-verifies the charge with the        *)
(* provider, completes the credit, marks the transfer SUCCESSFUL.          *)
PaidIsCredited == Paid ~> credit = "SUCCESSFUL"

-----------------------------------------------------------------------------
(* Where the money of the funding is.                                      *)
Money ==
  CASE credit = "SUCCESSFUL"             -> "credited"
    [] credit # "SUCCESSFUL" /\ Paid     -> "paid"
    [] credit = "PENDING" /\ ~ Paid      -> "announced"
    [] credit = "none" /\ ~ Paid         -> "none"

Promise == INSTANCE Payment WITH money <- Money, told <- transfer.status

(* The request of transfer-create.service.ts, the webhook and the job of   *)
(* transfer-complete.service.ts, whatever fails and is repeated, keep what *)
(* the user is promised: announced, paid, credited, in this order and once.*)
ImplementsPayment == Promise!Spec
=============================================================================
