---------------------------- MODULE FundingProofs ----------------------------
(***************************************************************************)
(* The safety of a funding, for any number of requests, charges,           *)
(* deliveries, runs and faults.                                            *)
(***************************************************************************)
EXTENDS Funding, TLAPS

(* A job that may still be taken from a worker was so at most once.        *)
FewStalls(job) == job.state \in {"waiting", "active"} => job.stalls <= 1

StallsBounded == \A c \in Charges : FewStalls(jobs[c])

(* The inductive invariant.  RunsStand is the heart of it: a run acts on   *)
(* answers it got earlier, and they stand because a charge that ended does *)
(* not change, and a credit that was completed stays.                      *)
FundInv ==
  /\ TypeOK
  /\ StallsBounded
  /\ WorkReported
  /\ RunsStand
  /\ CreditedOnlyIfPaid
  /\ SuccessIsCredited
  /\ ProcessedIsCredited

(* The empty database satisfies the invariant.                             *)
LEMMA FundInvInit == Init => FundInv
<1> SUFFICES ASSUME Init PROVE FundInv
  OBVIOUS
<1>1. TypeOK
  BY RunnersAssumption, FaultsAssumption
     DEF Init, TypeOK, IdleRun, NewJob, Job
<1>2. StallsBounded
  BY DEF Init, StallsBounded, FewStalls, NewJob
<1>3. WorkReported
  BY ChargesAssumption DEF Init, WorkReported, NewJob, IdleRun
<1>4. RunsStand
  BY DEF Init, RunsStand, Stands, IdleRun
<1>5. CreditedOnlyIfPaid /\ SuccessIsCredited /\ ProcessedIsCredited
  BY DEF Init, CreditedOnlyIfPaid, SuccessIsCredited, ProcessedIsCredited
<1> QED
  BY <1>1, <1>2, <1>3, <1>4, <1>5 DEF FundInv

TransferStates ==
  [status   : {"none", "INITIATED", "PENDING", "SUCCESSFUL", "FAILED"},
   checkout : BOOLEAN]

ChargeStates == {"none", "pending", "failed", "successful", "other amount"}

EventStates == {"none", "RECEIVED", "PROCESSED", "FAILED"}

(* The types of what the requests and the job write, one by one.           *)
LEMMA RowTypes ==
  ASSUME TypeOK
  PROVE  /\ transfer \in TransferStates
         /\ credit \in {"none", "PENDING", "SUCCESSFUL"}
         /\ charge \in [Charges -> ChargeStates]
         /\ event \in [Charges -> EventStates]
         /\ DOMAIN jobs = Charges
BY DEF TypeOK, TransferStates, ChargeStates, EventStates

FaultsOK ==
  /\ faults \in [DOMAIN MaxFaults -> Nat]
  /\ \A kind \in DOMAIN MaxFaults : faults[kind] <= MaxFaults[kind]

(* A count of faults stays within its bound.                               *)
LEMMA FaultTypes ==
  ASSUME TypeOK, NEW kind \in {"request", "webhook", "job"}, Fault(kind)
  PROVE  FaultsOK'
<1>1. /\ DOMAIN MaxFaults = {"request", "webhook", "job"}
      /\ \A k \in DOMAIN MaxFaults : MaxFaults[k] \in Nat
  BY FaultsAssumption
<1>2. /\ faults \in [DOMAIN MaxFaults -> Nat]
      /\ \A k \in DOMAIN MaxFaults : faults[k] <= MaxFaults[k]
  BY DEF TypeOK
<1>3. /\ faults[kind] < MaxFaults[kind]
      /\ faults' = [faults EXCEPT ![kind] = @ + 1]
  BY DEF Fault
<1>4. faults' \in [DOMAIN MaxFaults -> Nat]
  BY <1>1, <1>2, <1>3
<1>5. \A k \in DOMAIN MaxFaults : faults'[k] <= MaxFaults[k]
  BY <1>1, <1>2, <1>3
<1> QED
  BY <1>4, <1>5 DEF FaultsOK

-----------------------------------------------------------------------------
(* POST /transfers: it writes no SUCCESSFUL and completes no credit.       *)
LEMMA RequestStep ==
  ASSUME FundInv, NEW q \in Requests, Ask(q) \/ Create(q) \/ RequestFails(q)
  PROVE  FundInv'
<1> USE DEF RequestGoto, Respond
<1> DEFINE Same == UNCHANGED <<charge, webhook, queue>>
<1>1. /\ Same
      /\ request' \in [Requests -> {"idle", "lookup", "create", "credit",
                                    "initiate", "update"}]
  <2>1. Same
    BY DEF Ask, Create, RequestFails, FindByKey, CreateTransfer,
           PostPendingCredit, InitiatePayment, StoreCheckout
  <2>2. PICK label \in {"idle", "lookup", "create", "credit", "initiate", "update"} :
          request' = [request EXCEPT ![q] = label]
    BY DEF Ask, Create, RequestFails, FindByKey, CreateTransfer,
           PostPendingCredit, InitiatePayment, StoreCheckout
  <2>3. request \in [Requests -> {"idle", "lookup", "create", "credit",
                                  "initiate", "update"}]
    BY DEF FundInv, TypeOK
  <2> QED
    BY <2>1, <2>2, <2>3
<1>2. /\ credit' \in {"none", "PENDING", "SUCCESSFUL"}
      /\ credit' = "SUCCESSFUL" <=> credit = "SUCCESSFUL"
  BY RowTypes DEF FundInv, Ask, Create, RequestFails, FindByKey, CreateTransfer,
         PostPendingCredit, InitiatePayment, StoreCheckout
<1>3. /\ transfer' \in TransferStates
      /\ transfer'.status = "SUCCESSFUL" => transfer.status = "SUCCESSFUL"
  <2>1. \/ transfer' = transfer
        \/ transfer' = [status |-> "INITIATED", checkout |-> FALSE]
        \/ transfer' = [status |-> "PENDING", checkout |-> TRUE]
    BY DEF Ask, Create, RequestFails, FindByKey, CreateTransfer,
           PostPendingCredit, InitiatePayment, StoreCheckout
  <2>2. [status |-> "INITIATED", checkout |-> FALSE] \in TransferStates
    BY DEF TransferStates
  <2>3. [status |-> "PENDING", checkout |-> TRUE] \in TransferStates
    BY DEF TransferStates
  <2>4. transfer \in TransferStates
    BY DEF FundInv, TypeOK, TransferStates
  <2>5. transfer' \in TransferStates
    BY <2>1, <2>2, <2>3, <2>4
  <2>6. transfer'.status = "SUCCESSFUL" => transfer.status = "SUCCESSFUL"
    BY <2>1
  <2> QED
    BY <2>5, <2>6
<1>4. FaultsOK'
  <2>1. CASE RequestFails(q)
    BY <2>1, FaultTypes DEF FundInv, RequestFails
  <2>2. CASE ~ RequestFails(q)
    BY <2>2 DEF FundInv, TypeOK, FaultsOK, Ask, Create, FindByKey, CreateTransfer,
                PostPendingCredit, InitiatePayment, StoreCheckout
  <2> QED
    BY <2>1, <2>2
<1>5. TypeOK'
  BY <1>1, <1>2, <1>3, <1>4 DEF FundInv, TypeOK, FaultsOK, TransferStates, webhook, queue
<1>6. StallsBounded' /\ WorkReported'
  BY <1>1 DEF FundInv, StallsBounded, WorkReported, Reported, webhook, queue
<1>7. RunsStand' /\ CreditedOnlyIfPaid'
  BY <1>1, <1>2 DEF FundInv, RunsStand, Stands, CreditedOnlyIfPaid, Paid, queue
<1>8. SuccessIsCredited'
  BY <1>2, <1>3 DEF FundInv, SuccessIsCredited
<1>9. ProcessedIsCredited'
  BY <1>1, <1>2 DEF FundInv, ProcessedIsCredited, webhook
<1> QED
  BY <1>5, <1>6, <1>7, <1>8, <1>9 DEF FundInv

(* A charge that was reported is not touched by a payment.                 *)
LEMMA PayStep ==
  ASSUME FundInv, NEW c \in Charges, Pay(c)
  PROVE  FundInv'
<1>1. /\ charge' \in [Charges -> {"none", "pending", "failed", "successful",
                                  "other amount"}]
      /\ \A d \in Charges : Reported(d) => charge'[d] = charge[d]
      /\ \A d \in Charges : charge[d] = "successful" => charge'[d] = "successful"
      /\ \A d \in Strays : charge'[d] = charge[d]
  <2>1. PICK outcome \in {"pending"} \cup Ended :
          charge' = [charge EXCEPT ![c] = outcome]
    BY DEF Pay
  <2>2. charge[c] \in {"none", "pending"} /\ c \notin Strays
    BY DEF Pay
  <2>3. charge \in [Charges -> ChargeStates]
    BY RowTypes DEF FundInv
  <2>4. outcome \in ChargeStates
    BY <2>1 DEF Ended, ChargeStates
  <2>5. /\ charge' \in [Charges -> ChargeStates]
        /\ \A d \in Charges \ {c} : charge'[d] = charge[d]
    BY <2>1, <2>3, <2>4
  <2>6. ~ Reported(c)
    BY <2>2 DEF Reported, Ended
  <2> QED
    BY <2>2, <2>5, <2>6, ChargesAssumption DEF ChargeStates
<1>2. UNCHANGED <<transfer, credit, request, event, acked, hook, jobs, run, faults>>
  BY DEF Pay, creation, webhook, queue
<1>3. Paid => Paid'
  BY <1>1 DEF Paid
<1>4. \A d \in Charges : Reported(d) => Reported(d)'
  BY <1>1 DEF Reported
<1>5. TypeOK'
  BY <1>1, <1>2 DEF FundInv, TypeOK
<1>6. StallsBounded' /\ CreditedOnlyIfPaid' /\ SuccessIsCredited'
  BY <1>2, <1>3 DEF FundInv, StallsBounded, CreditedOnlyIfPaid, SuccessIsCredited
<1>7. WorkReported'
  BY <1>1, <1>2, <1>4 DEF FundInv, TypeOK, WorkReported
<1>8. RunsStand'
  <2>1. \A r \in Runners : run[r].pc # "idle" =>
           /\ run[r].charge \in Charges
           /\ charge'[run[r].charge] = charge[run[r].charge]
    BY <1>1 DEF FundInv, TypeOK, WorkReported
  <2> QED
    BY <1>2, <1>3, <2>1 DEF FundInv, RunsStand, Stands
<1>9. ProcessedIsCredited'
  <2>1. \A d \in Charges : event[d] = "PROCESSED" => charge'[d] = charge[d]
    BY <1>1 DEF FundInv, WorkReported
  <2> QED
    BY <1>2, <2>1 DEF FundInv, ProcessedIsCredited
<1> QED
  BY <1>5, <1>6, <1>7, <1>8, <1>9 DEF FundInv

-----------------------------------------------------------------------------
(* A job is held by a run exactly while it is active.                      *)
GoodJob(job) ==
  /\ job \in Job
  /\ job.state = "active" <=> job.owner \in Runners
  /\ FewStalls(job)

(* The updates of a record of four fields that Retried and Requeued make.  *)
LEMMA JobUpdates ==
  ASSUME NEW S, NEW A, NEW B, NEW O,
         NEW job \in [state : S, attempts : A, stalls : B, owner : O],
         NEW s \in S, NEW o \in O
  PROVE  /\ \A a \in A : [job EXCEPT !.state = s, !.attempts = a, !.owner = o]
                          \in [state : S, attempts : A, stalls : B, owner : O]
         /\ \A b \in B : [job EXCEPT !.state = s, !.stalls = b, !.owner = o]
                          \in [state : S, attempts : A, stalls : B, owner : O]
OBVIOUS

(* A job that is added is a good one, and so is one that was there.        *)
LEMMA GoodAdded ==
  ASSUME NEW job, GoodJob(job)
  PROVE  GoodJob(Added(job))
BY RunnersAssumption DEF GoodJob, Added, NewJob, Job, FewStalls

(* What happens to a job leaves it a good one.                             *)
LEMMA JobOperators ==
  ASSUME NEW job, GoodJob(job), NEW r \in Runners
  PROVE  /\ GoodJob(NewJob("absent"))
         /\ job.state = "waiting" => GoodJob(Taken(job, r))
         /\ GoodJob(Retried(job, CompletionAttempts))
         /\ job.state = "active" => GoodJob(Requeued(job))
<1>1. GoodJob(NewJob("absent"))
  BY RunnersAssumption DEF GoodJob, NewJob, Job, FewStalls
<1>2. job.state = "waiting" => GoodJob(Taken(job, r))
  BY DEF GoodJob, Taken, Job, FewStalls
<1>3. /\ job.attempts \in Nat
      /\ job.attempts + 1 \in Nat
      /\ job.stalls \in 0 .. 2
  BY DEF GoodJob, Job
<1>4. GoodJob(Retried(job, CompletionAttempts))
  <2> DEFINE state == IF job.attempts + 1 < CompletionAttempts THEN "waiting" ELSE "failed"
             retried == Retried(job, CompletionAttempts)
  <2>1. retried = [job EXCEPT !.state = state, !.attempts = job.attempts + 1,
                              !.owner = NoRunner]
    BY DEF Retried
  <2>2. state \in {"waiting", "failed"} /\ (state = "waiting" => job.stalls <= 1)
    BY <1>3 DEF CompletionAttempts
  <2> HIDE DEF state
  <2>3. retried \in Job
    <3>1. state \in {"absent", "waiting", "active", "failed"}
      BY <2>2
    <3>2. \A n \in Nat : [job EXCEPT !.state = state, !.attempts = n,
                                     !.owner = NoRunner] \in Job
      BY <3>1, JobUpdates, Zenon DEF Job, GoodJob
    <3> QED
      BY <1>3, <2>1, <3>2, Zenon
  <2>4. retried.state = state /\ retried.owner = NoRunner /\ retried.stalls = job.stalls
    BY <2>1 DEF GoodJob, Job
  <2> QED
    BY <2>2, <2>3, <2>4, RunnersAssumption DEF GoodJob, FewStalls
<1>5. job.state = "active" => GoodJob(Requeued(job))
  <2> SUFFICES ASSUME job.state = "active" PROVE GoodJob(Requeued(job))
    OBVIOUS
  <2> DEFINE state == IF job.stalls = 0 THEN "waiting" ELSE "failed"
             requeued == Requeued(job)
  <2>1. requeued = [job EXCEPT !.state = state, !.stalls = job.stalls + 1,
                               !.owner = NoRunner]
    BY DEF Requeued
  <2>2. /\ state \in {"waiting", "failed"}
        /\ state = "waiting" => job.stalls + 1 <= 1
        /\ job.stalls + 1 \in 0 .. 2
    BY <1>3 DEF GoodJob, FewStalls
  <2> HIDE DEF state
  <2>3. requeued \in Job
    <3>1. state \in {"absent", "waiting", "active", "failed"}
      BY <2>2
    <3>2. \A n \in 0 .. 2 : [job EXCEPT !.state = state, !.stalls = n,
                                         !.owner = NoRunner] \in Job
      BY <3>1, JobUpdates, Zenon DEF Job, GoodJob
    <3> QED
      BY <2>1, <2>2, <3>2, Zenon
  <2>4. requeued.state = state /\ requeued.owner = NoRunner
        /\ requeued.stalls = job.stalls + 1
    BY <2>1 DEF GoodJob, Job
  <2> QED
    BY <2>2, <2>3, <2>4, RunnersAssumption DEF GoodJob, FewStalls
<1> QED
  BY <1>1, <1>2, <1>4, <1>5

JobsOK ==
  /\ jobs \in [Charges -> Job]
  /\ \A c \in Charges : jobs[c].state = "active" <=> jobs[c].owner \in Runners
  /\ StallsBounded

(* Replacing one job by a good one.                                        *)
LEMMA JobReplaced ==
  ASSUME FundInv, NEW c \in Charges, NEW job, GoodJob(job),
         jobs' = [jobs EXCEPT ![c] = job]
  PROVE  JobsOK'
BY DEF FundInv, TypeOK, JobsOK, StallsBounded, GoodJob

(* Every job is a good one.                                                *)
LEMMA JobsGood ==
  ASSUME FundInv, NEW c \in Charges
  PROVE  GoodJob(jobs[c])
BY DEF FundInv, TypeOK, StallsBounded, GoodJob

-----------------------------------------------------------------------------
HooksOK ==
  /\ hook \in [Hooks -> [pc : {"idle", "lookup", "create", "enqueue"},
                         charge : Charges \cup {NoCharge}]]
  /\ \A h \in Hooks : hook[h].pc = "idle" <=> hook[h].charge = NoCharge

HooksReported == \A h \in Hooks : hook[h].pc # "idle" => Reported(hook[h].charge)

(* A delivery that goes on with a charge that was reported, or ends.       *)
LEMMA HookMoves ==
  ASSUME FundInv, UNCHANGED charge, NEW h \in Hooks,
         NEW label \in {"idle", "lookup", "create", "enqueue"},
         NEW c \in Charges \cup {NoCharge},
         label = "idle" <=> c = NoCharge, label = "idle" \/ Reported(c),
         hook' = [hook EXCEPT ![h] = [pc |-> label, charge |-> c]]
  PROVE  HooksOK' /\ HooksReported'
<1>1. HooksOK'
  BY DEF FundInv, TypeOK, HooksOK
<1>2. HooksReported'
  BY DEF FundInv, TypeOK, WorkReported, HooksReported, Reported
<1> QED
  BY <1>1, <1>2

(* A delivery stores the event of a charge that was reported and queues    *)
(* its job, and touches nothing of the transfer.                           *)
LEMMA HookStep ==
  ASSUME FundInv, NEW h \in Hooks, NEW c \in Charges,
         Deliver(h, c) \/ Receive(h) \/ HookFails(h)
  PROVE  FundInv'
<1> DEFINE d == hook[h].charge
<1>1. UNCHANGED <<transfer, credit, request, charge, run>>
  BY DEF Deliver, Receive, HookFails, FindEvent, CreateEvent, EnqueueCompletion,
         creation, queue
<1>2. /\ hook[h] \in [pc : {"idle", "lookup", "create", "enqueue"},
                      charge : Charges \cup {NoCharge}]
      /\ hook[h].pc = "idle" <=> d = NoCharge
  BY DEF FundInv, TypeOK
<1>3. hook[h].pc # "idle" => d \in Charges /\ Reported(d)
  BY <1>2 DEF FundInv, WorkReported
<1>4. \E label \in {"idle", "lookup", "create", "enqueue"},
         e \in Charges \cup {NoCharge} :
        /\ label = "idle" <=> e = NoCharge
        /\ label = "idle" \/ Reported(e)
        /\ hook' = [hook EXCEPT ![h] = [pc |-> label, charge |-> e]]
  <2>1. CASE Deliver(h, c)
    BY <2>1, NoChargeAssumption DEF Deliver, Reported
  <2>2. CASE FindEvent(h)
    BY <2>2, <1>2, <1>3
       DEF FindEvent, HookGoto, Acknowledge, HookIdle
  <2>3. CASE CreateEvent(h)
    BY <2>3, <1>2, <1>3 DEF CreateEvent, HookGoto, HookIdle
  <2>4. CASE EnqueueCompletion(h) \/ HookFails(h)
    BY <2>4 DEF EnqueueCompletion, HookFails, Acknowledge, HookIdle
  <2> QED
    BY <2>1, <2>2, <2>3, <2>4 DEF Receive
<1>5. HooksOK' /\ HooksReported'
  BY <1>1, <1>4, HookMoves
<1>6. \/ UNCHANGED event
      \/ d \in Charges /\ Reported(d) /\ event' = [event EXCEPT ![d] = "RECEIVED"]
  BY <1>3 DEF Deliver, Receive, HookFails, FindEvent, CreateEvent, EnqueueCompletion,
              webhook
<1>7. \/ UNCHANGED jobs
      \/ d \in Charges /\ Reported(d) /\ jobs' = [jobs EXCEPT ![d] = Added(jobs[d])]
  BY <1>3 DEF Deliver, Receive, HookFails, FindEvent, CreateEvent, EnqueueCompletion,
              queue
<1>8. acked' \in [Charges -> BOOLEAN]
  BY <1>2 DEF FundInv, TypeOK, Deliver, Receive, HookFails, FindEvent, CreateEvent,
              EnqueueCompletion, Acknowledge
<1>9. JobsOK'
  <2>1. CASE UNCHANGED jobs
    BY <2>1 DEF FundInv, TypeOK, JobsOK, StallsBounded
  <2>2. CASE d \in Charges /\ jobs' = [jobs EXCEPT ![d] = Added(jobs[d])]
    BY <2>2, JobsGood, JobReplaced, GoodAdded
  <2> QED
    BY <1>7, <2>1, <2>2
<1>10. FaultsOK'
  <2>1. CASE HookFails(h)
    BY <2>1, FaultTypes DEF FundInv, HookFails
  <2>2. CASE ~ HookFails(h)
    BY <2>2 DEF FundInv, TypeOK, FaultsOK, Deliver, Receive, FindEvent, CreateEvent,
                EnqueueCompletion
  <2> QED
    BY <2>1, <2>2
<1>11. event' \in [Charges -> {"none", "RECEIVED", "PROCESSED", "FAILED"}]
  BY <1>2, <1>6 DEF FundInv, TypeOK
<1>12. TypeOK' /\ StallsBounded'
  BY <1>1, <1>5, <1>8, <1>9, <1>10, <1>11
     DEF FundInv, TypeOK, HooksOK, JobsOK, FaultsOK
<1>13. WorkReported'
  <2>1. \A e \in Charges :
          event'[e] # "none" \/ jobs'[e].state # "absent" => Reported(e)
    <3> TAKE e \in Charges
    <3>1. event[e] # "none" \/ jobs[e].state # "absent" => Reported(e)
      BY DEF FundInv, WorkReported
    <3>2. DOMAIN event = Charges /\ DOMAIN jobs = Charges
      BY DEF FundInv, TypeOK
    <3>3. event'[e] # "none" => event[e] # "none" \/ Reported(e)
      BY <1>6, <3>2
    <3>4. jobs'[e].state # "absent" => jobs[e].state # "absent" \/ Reported(e)
      <4>1. CASE e = d /\ Reported(d)
        BY <4>1
      <4>2. CASE UNCHANGED jobs \/ e # d
        BY <1>7, <3>2, <4>2
      <4> QED
        BY <1>7, <4>1, <4>2
    <3> QED
      BY <3>1, <3>3, <3>4
  <2> QED
    BY <1>1, <1>5, <2>1 DEF FundInv, WorkReported, Reported, HooksReported
<1>14. ProcessedIsCredited'
  BY <1>1, <1>2, <1>6 DEF FundInv, TypeOK, ProcessedIsCredited
<1>15. RunsStand' /\ CreditedOnlyIfPaid' /\ SuccessIsCredited'
  BY <1>1 DEF FundInv, RunsStand, Stands, CreditedOnlyIfPaid, SuccessIsCredited, Paid
<1> QED
  BY <1>12, <1>13, <1>14, <1>15 DEF FundInv

-----------------------------------------------------------------------------
Labels == {"idle", "load", "find", "verify", "fail transfer", "credits",
           "complete", "update", "processed", "dismiss", "reject", "done"}

RunsOK ==
  /\ run \in [Runners -> [pc : Labels, charge : Charges \cup {NoCharge}]]
  /\ \A r \in Runners : run[r].pc = "idle" <=> run[r].charge = NoCharge

RunsReported == \A r \in Runners : run[r].pc # "idle" => Reported(run[r].charge)

(* A run that goes to label stands there if what it read holds after the   *)
(* step, and the others stand because a step undoes nothing they rely on.  *)
LEMMA RunMoves ==
  ASSUME FundInv, UNCHANGED charge, credit = "SUCCESSFUL" => credit' = "SUCCESSFUL",
         NEW r \in Runners, NEW label \in Labels, NEW c \in Charges \cup {NoCharge},
         label = "idle" <=> c = NoCharge, label = "idle" \/ Reported(c),
         Stands(label, c) \/ (label \in {"update", "processed"} /\ credit' = "SUCCESSFUL"),
         run' = [run EXCEPT ![r] = [pc |-> label, charge |-> c]]
  PROVE  RunsOK' /\ RunsReported' /\ RunsStand'
<1>1. RunsOK'
  BY DEF FundInv, TypeOK, RunsOK, Labels
<1>2. /\ run'[r].pc = label /\ run'[r].charge = c
      /\ \A o \in Runners \ {r} : run'[o] = run[o]
  BY DEF FundInv, TypeOK
<1>3. RunsReported'
  BY <1>2 DEF FundInv, WorkReported, RunsReported, Reported
<1>4. RunsStand'
  <2> SUFFICES ASSUME NEW o \in Runners
               PROVE  Stands(run[o].pc, run[o].charge)'
    BY DEF RunsStand
  <2>1. CASE o = r
    BY <2>1, <1>2 DEF Stands, Paid
  <2>2. CASE o # r
    BY <2>2, <1>2 DEF FundInv, RunsStand, Stands, Paid
  <2> QED
    BY <2>1, <2>2
<1> QED
  BY <1>1, <1>3, <1>4

(* What is left to check of a step of a run once it is known how the run   *)
(* goes on and what it writes.                                             *)
LEMMA RunWrites ==
  ASSUME FundInv, UNCHANGED <<request, charge, acked, hook>>,
         NEW d \in Charges,
         RunsOK' /\ RunsReported' /\ RunsStand',
         FaultsOK',
         \/ UNCHANGED transfer
         \/ transfer' = [transfer EXCEPT !.status = "FAILED"]
         \/ transfer' = [transfer EXCEPT !.status = "SUCCESSFUL"] /\ credit' = "SUCCESSFUL",
         \/ UNCHANGED credit
         \/ credit' = "SUCCESSFUL" /\ Paid,
         \/ UNCHANGED event
         \/ Reported(d) /\ event' = [event EXCEPT ![d] = "FAILED"]
         \/ /\ Reported(d) /\ event' = [event EXCEPT ![d] = "PROCESSED"]
            /\ charge[d] # "successful" \/ credit = "SUCCESSFUL",
         \/ UNCHANGED jobs
         \/ /\ Reported(d)
            /\ \E job : GoodJob(job) /\ jobs' = [jobs EXCEPT ![d] = job]
  PROVE  FundInv'
<1>1. JobsOK'
  BY JobReplaced DEF FundInv, TypeOK, JobsOK, StallsBounded
<1>0. /\ transfer \in TransferStates
      /\ credit \in {"none", "PENDING", "SUCCESSFUL"}
      /\ event \in [Charges -> EventStates]
      /\ DOMAIN jobs = Charges
  BY RowTypes DEF FundInv
<1>2. transfer' \in TransferStates
  BY <1>0 DEF TransferStates
<1>3. credit' \in {"none", "PENDING", "SUCCESSFUL"}
  BY <1>0
<1>4. event' \in [Charges -> EventStates]
  BY <1>0 DEF EventStates
<1>5. TypeOK' /\ StallsBounded'
  BY <1>1, <1>2, <1>3, <1>4
     DEF FundInv, TypeOK, RunsOK, Labels, JobsOK, FaultsOK, TransferStates, EventStates
<1>6. WorkReported'
  <2> SUFFICES \A e \in Charges :
                 event'[e] # "none" \/ jobs'[e].state # "absent" => Reported(e)
    BY DEF FundInv, WorkReported, Reported, RunsReported
  <2> TAKE e \in Charges
  <2>1. event[e] # "none" \/ jobs[e].state # "absent" => Reported(e)
    BY DEF FundInv, WorkReported
  <2>2. event'[e] # "none" => event[e] # "none" \/ Reported(e)
    BY <1>0
  <2>3. jobs'[e].state # "absent" => jobs[e].state # "absent" \/ Reported(e)
    <3>1. CASE e = d /\ Reported(d)
      BY <3>1
    <3>2. CASE UNCHANGED jobs \/ e # d
      BY <1>0, <3>2
    <3> QED
      BY <3>1, <3>2
  <2> QED
    BY <2>1, <2>2, <2>3
<1>7. ProcessedIsCredited'
  BY <1>0 DEF FundInv, ProcessedIsCredited
<1>8. CreditedOnlyIfPaid'
  BY DEF FundInv, CreditedOnlyIfPaid, Paid
<1>9. SuccessIsCredited'
  <2>1. transfer'.status = "SUCCESSFUL" => transfer.status = "SUCCESSFUL" \/ credit' = "SUCCESSFUL"
    BY DEF FundInv, TypeOK
  <2> QED
    BY <2>1 DEF FundInv, SuccessIsCredited
<1> QED
  BY <1>5, <1>6, <1>7, <1>8, <1>9 DEF FundInv

(* A run takes a job of a charge that was reported, asks what became of    *)
(* it, and completes the credit before it writes that it did.              *)
LEMMA RunStep ==
  ASSUME FundInv, NEW r \in Runners, NEW c \in Charges,
         Take(r, c) \/ Work(r) \/ VerifyUnknown(r) \/ Throw(r) \/ Crash(r)
  PROVE  FundInv'
<1> DEFINE d == run[r].charge
           Moves(label, e) ==
             /\ label = "idle" <=> e = NoCharge
             /\ label = "idle" \/ Reported(e)
             /\ \/ Stands(label, e)
                \/ label \in {"update", "processed"} /\ credit' = "SUCCESSFUL"
             /\ run' = [run EXCEPT ![r] = [pc |-> label, charge |-> e]]
           Same == UNCHANGED <<request, charge, acked, hook>>
           Kept == UNCHANGED <<transfer, credit, event, jobs>>
           JobWritten(e) == \E job : GoodJob(job) /\ jobs' = [jobs EXCEPT ![e] = job]
<1>1. /\ run[r] \in [pc : Labels, charge : Charges \cup {NoCharge}]
      /\ run[r].pc = "idle" <=> d = NoCharge
  BY DEF FundInv, TypeOK, Labels
<1>2. run[r].pc # "idle" => d \in Charges /\ d # NoCharge /\ Reported(d)
  BY <1>1 DEF FundInv, WorkReported
<1>3. Stands(run[r].pc, d)
  BY DEF FundInv, RunsStand
<1>4. /\ GoodJob(jobs[c])
      /\ run[r].pc # "idle" => GoodJob(jobs[d])
  BY <1>2, JobsGood
<1>5. ASSUME NEW label \in Labels, Goto(r, label)
      PROVE  run' = [run EXCEPT ![r] = [pc |-> label, charge |-> d]]
  <2>1. [run[r] EXCEPT !.pc = label] = [pc |-> label, charge |-> d]
    BY <1>1
  <2> QED
    BY <1>5, <2>1 DEF Goto
<1>6. ASSUME EndAttempt(r) \/ Complete(r), run[r].pc # "idle"
      PROVE  /\ Moves("idle", NoCharge)
             /\ UNCHANGED jobs \/ JobWritten(d)
  <2>1. run' = [run EXCEPT ![r] = [pc |-> "idle", charge |-> NoCharge]]
    BY <1>6 DEF EndAttempt, Complete, IdleRun
  <2>2. Stands("idle", NoCharge)
    BY DEF Stands
  <2>3. \/ UNCHANGED jobs
        \/ jobs' = [jobs EXCEPT ![d] = Retried(jobs[d], CompletionAttempts)]
        \/ jobs' = [jobs EXCEPT ![d] = NewJob("absent")]
    BY <1>6 DEF EndAttempt, Complete
  <2> QED
    BY <2>1, <2>2, <2>3, <1>4, <1>6, JobOperators
<1>7. CASE Take(r, c)
  <2>1. Reported(c)
    BY <1>7 DEF Take, FundInv, WorkReported
  <2>2. Moves("load", c)
    BY <1>7, <2>1, NoChargeAssumption DEF Take, Stands
  <2>3. RunsOK' /\ RunsReported' /\ RunsStand'
    BY <1>7, <2>2, RunMoves DEF Take, creation, Labels
  <2>4. JobWritten(c)
    BY <1>7, <1>4, JobOperators DEF Take
  <2>5. Same /\ UNCHANGED <<transfer, credit, event>> /\ FaultsOK'
    BY <1>7 DEF Take, creation, webhook, FundInv, TypeOK, FaultsOK
  <2> QED
    BY <2>1, <2>3, <2>4, <2>5, RunWrites
<1>8. ASSUME NEW label \in Labels, Goto(r, label), run[r].pc # "idle", label # "idle",
             Stands(label, d), Same, Kept, FaultsOK'
      PROVE  FundInv'
  <2>1. Moves(label, d)
    BY <1>1, <1>2, <1>5, <1>8
  <2>2. RunsOK' /\ RunsReported' /\ RunsStand'
    BY <1>1, <1>8, <2>1, RunMoves
  <2> QED
    BY <1>1, <1>8, <2>2, RunWrites
<1>9. CASE LoadEvent(r)
  <2>1. PICK label \in {"done", "find", "reject"} : Goto(r, label)
    BY <1>9 DEF LoadEvent
  <2>2. Same /\ Kept /\ FaultsOK' /\ run[r].pc # "idle"
    BY <1>9 DEF LoadEvent, creation, webhook, FundInv, TypeOK, FaultsOK
  <2>3. Stands(label, d)
    BY DEF Stands
  <2> QED
    BY <1>8, <2>1, <2>2, <2>3 DEF Labels
<1>10. CASE FindTransfer(r)
  <2>1. PICK label \in {"dismiss", "processed", "verify"} :
          /\ Goto(r, label)
          /\ label = "processed" => transfer.status = "SUCCESSFUL"
    BY <1>10 DEF FindTransfer
  <2>2. Same /\ Kept /\ FaultsOK' /\ run[r].pc # "idle"
    BY <1>10 DEF FindTransfer, creation, webhook, FundInv, TypeOK, FaultsOK
  <2>3. Stands(label, d)
    BY <2>1 DEF Stands, FundInv, SuccessIsCredited
  <2> QED
    BY <1>8, <2>1, <2>2, <2>3 DEF Labels
<1>11. CASE VerifyUnknown(r)
  <2>1. Goto(r, "done") /\ Same /\ Kept /\ run[r].pc # "idle"
    BY <1>11 DEF VerifyUnknown, creation, webhook
  <2>2. FaultsOK'
    BY <1>11, FaultTypes DEF VerifyUnknown, FundInv
  <2>3. Stands("done", d)
    BY DEF Stands
  <2> QED
    BY <1>8, <2>1, <2>2, <2>3 DEF Labels
<1>12. CASE Verify(r)
  <2>1. PICK verdict \in Verdicts :
          Goto(r, CASE verdict = "pending"      -> "done"
                    [] verdict = "failed"       -> "fail transfer"
                    [] verdict = "successful"   -> "credits"
                    [] verdict = "other amount" -> "reject")
    BY <1>12 DEF Verify
  <2>2. /\ verdict \in {"pending", "failed", "successful", "other amount"}
        /\ \E e \in Charges : charge[e] = verdict
    <3>1. verdict \in {charge[e] : e \in Charges \ Strays} \ {"none"}
      BY DEF Verdicts
    <3>2. charge \in [Charges -> {"none", "pending", "failed", "successful",
                                  "other amount"}]
      BY DEF FundInv, TypeOK
    <3> QED
      BY <3>1, <3>2
  <2>3. ASSUME verdict = "failed" PROVE charge[d] # "successful"
    <3>1. d \in Strays => charge[d] = "none"
      BY DEF FundInv, WorkReported
    <3>2. \A e \in Charges \ Strays : charge[e] # "successful"
      BY <2>3 DEF Verdicts
    <3> QED
      BY <1>2, <1>12, <3>1, <3>2 DEF Verify
  <2>4. PICK label \in {"done", "fail transfer", "credits", "reject"} :
          /\ Goto(r, label)
          /\ label = "fail transfer" => verdict = "failed"
          /\ label = "credits" => verdict = "successful"
    BY <2>1, <2>2
  <2>5. Stands(label, d)
    BY <2>2, <2>3, <2>4 DEF Stands, Paid
  <2>6. Same /\ Kept /\ FaultsOK' /\ run[r].pc # "idle"
    BY <1>12 DEF Verify, creation, webhook, FundInv, TypeOK, FaultsOK
  <2> QED
    BY <1>8, <2>4, <2>5, <2>6 DEF Labels
<1>13. CASE FindCredits(r)
  <2>1. PICK label \in {"update", "complete", "reject"} :
          /\ Goto(r, label)
          /\ label = "update" => credit = "SUCCESSFUL"
    BY <1>13 DEF FindCredits, FundInv, TypeOK
  <2>2. Stands(label, d)
    BY <1>3, <1>13, <2>1 DEF Stands, FindCredits
  <2>3. Same /\ Kept /\ FaultsOK' /\ run[r].pc # "idle"
    BY <1>13 DEF FindCredits, creation, webhook, FundInv, TypeOK, FaultsOK
  <2> QED
    BY <1>8, <2>1, <2>2, <2>3 DEF Labels
<1>14. CASE FailTransfer(r)
  <2>1. /\ Goto(r, "processed") /\ Same /\ UNCHANGED <<credit, event, jobs>>
        /\ run[r].pc # "idle" /\ transfer' = [transfer EXCEPT !.status = "FAILED"]
    BY <1>14 DEF FailTransfer, webhook
  <2>2. Moves("processed", d)
    BY <1>2, <1>3, <1>5, <1>14, <2>1 DEF FailTransfer, Stands, Labels
  <2>3. RunsOK' /\ RunsReported' /\ RunsStand'
    BY <1>1, <2>1, <2>2, RunMoves DEF Labels
  <2>4. FaultsOK'
    BY <1>14 DEF FailTransfer, FundInv, TypeOK, FaultsOK
  <2> QED
    BY <1>1, <2>1, <2>3, <2>4, RunWrites
<1>15. CASE CompleteCredit(r)
  <2>1. /\ Goto(r, "update") /\ Same /\ UNCHANGED <<transfer, event, jobs>>
        /\ run[r].pc # "idle" /\ credit' = "SUCCESSFUL" /\ Paid
    BY <1>3, <1>15 DEF CompleteCredit, webhook, Stands
  <2>2. Moves("update", d)
    BY <1>2, <1>5, <2>1 DEF Labels
  <2>3. RunsOK' /\ RunsReported' /\ RunsStand'
    BY <1>1, <2>1, <2>2, RunMoves DEF Labels
  <2>4. FaultsOK'
    BY <1>15 DEF CompleteCredit, FundInv, TypeOK, FaultsOK
  <2> QED
    BY <1>1, <2>1, <2>3, <2>4, RunWrites
<1>16. CASE UpdateTransfer(r)
  <2>1. /\ Goto(r, "processed") /\ Same /\ UNCHANGED <<credit, event, jobs>>
        /\ run[r].pc # "idle" /\ credit = "SUCCESSFUL" /\ credit' = "SUCCESSFUL"
        /\ transfer' = [transfer EXCEPT !.status = "SUCCESSFUL"]
    BY <1>3, <1>16 DEF UpdateTransfer, webhook, Stands
  <2>2. Moves("processed", d)
    BY <1>2, <1>5, <2>1 DEF Labels
  <2>3. RunsOK' /\ RunsReported' /\ RunsStand'
    BY <1>1, <2>1, <2>2, RunMoves DEF Labels
  <2>4. FaultsOK'
    BY <1>16 DEF UpdateTransfer, FundInv, TypeOK, FaultsOK
  <2> QED
    BY <1>1, <2>1, <2>3, <2>4, RunWrites
<1>17. CASE MarkProcessed(r)
  <2>1. /\ Goto(r, "done") /\ Same /\ UNCHANGED <<transfer, credit, jobs>>
        /\ run[r].pc # "idle" /\ event' = [event EXCEPT ![d] = "PROCESSED"]
        /\ charge[d] # "successful" \/ credit = "SUCCESSFUL"
    BY <1>3, <1>17 DEF MarkProcessed, creation, Stands
  <2>2. Moves("done", d) /\ Reported(d)
    BY <1>2, <1>5, <2>1 DEF Labels, Stands
  <2>3. RunsOK' /\ RunsReported' /\ RunsStand'
    BY <1>1, <2>1, <2>2, RunMoves DEF Labels
  <2>4. FaultsOK'
    BY <1>17 DEF MarkProcessed, FundInv, TypeOK, FaultsOK
  <2> QED
    BY <1>1, <2>1, <2>2, <2>3, <2>4, RunWrites
<1>18. CASE MarkFailed(r)
  <2>1. /\ Same /\ UNCHANGED <<transfer, credit>> /\ run[r].pc # "idle"
        /\ event' = [event EXCEPT ![d] = "FAILED"]
        /\ (Goto(r, "done") /\ UNCHANGED jobs) \/ EndAttempt(r)
    BY <1>18 DEF MarkFailed, creation
  <2>2. Reported(d)
    BY <1>2, <2>1
  <2>3. Moves("done", d) \/ Moves("idle", NoCharge)
    BY <1>2, <1>5, <1>6, <2>1, <2>2 DEF Labels, Stands
  <2>4. UNCHANGED jobs \/ JobWritten(d)
    BY <1>6, <2>1
  <2>5. RunsOK' /\ RunsReported' /\ RunsStand'
    BY <1>1, <2>1, <2>3, RunMoves DEF Labels
  <2>6. FaultsOK'
    BY <1>18 DEF MarkFailed, FundInv, TypeOK, FaultsOK
  <2> QED
    BY <1>1, <2>1, <2>2, <2>4, <2>5, <2>6, RunWrites
<1>19. CASE Complete(r) \/ Throw(r) \/ Crash(r)
  <2>1. Same /\ UNCHANGED <<transfer, credit, event>> /\ run[r].pc # "idle"
    BY <1>19 DEF Complete, Throw, Crash, creation, webhook
  <2>2. Moves("idle", NoCharge) /\ (UNCHANGED jobs \/ JobWritten(d))
    <3>1. CASE Complete(r) \/ Throw(r)
      BY <1>6, <2>1, <3>1 DEF Throw
    <3>2. CASE Crash(r)
      BY <3>2 DEF Crash, IdleRun, Stands
    <3> QED
      BY <1>19, <3>1, <3>2
  <2>3. RunsOK' /\ RunsReported' /\ RunsStand'
    BY <2>1, <2>2, RunMoves DEF Labels
  <2>4. FaultsOK'
    <3>1. CASE Complete(r)
      BY <3>1 DEF Complete, FundInv, TypeOK, FaultsOK
    <3>2. CASE Throw(r) \/ Crash(r)
      BY <3>2, FaultTypes DEF Throw, Crash, FundInv
    <3> QED
      BY <1>19, <3>1, <3>2
  <2> QED
    BY <1>1, <1>2, <2>1, <2>2, <2>3, <2>4, RunWrites
<1> QED
  BY <1>7, <1>9, <1>10, <1>11, <1>12, <1>13, <1>14, <1>15, <1>16, <1>17, <1>18, <1>19
     DEF Work

(* A job whose run is gone, or too slow, is given to another run.          *)
LEMMA RequeueStep ==
  ASSUME FundInv, NEW c \in Charges, RequeueAbandoned(c) \/ RequeueSlow(c)
  PROVE  FundInv'
<1>1. /\ jobs[c].state = "active" /\ jobs' = [jobs EXCEPT ![c] = Requeued(jobs[c])]
      /\ UNCHANGED <<transfer, credit, request, charge, event, acked, hook, run>>
  BY DEF RequeueAbandoned, RequeueSlow, Abandoned, creation, webhook
<1>2. PICK r : r \in Runners
  BY <1>1 DEF FundInv, TypeOK
<1>3. GoodJob(Requeued(jobs[c]))
  BY <1>1, <1>2, JobsGood, JobOperators
<1>4. Reported(c)
  BY <1>1 DEF FundInv, WorkReported
<1>5. FaultsOK'
  <2>1. CASE RequeueAbandoned(c)
    BY <2>1 DEF RequeueAbandoned, FundInv, TypeOK, FaultsOK
  <2>2. CASE RequeueSlow(c)
    BY <2>2, FaultTypes DEF RequeueSlow, FundInv
  <2> QED
    BY <2>1, <2>2
<1>6. RunsOK' /\ RunsReported' /\ RunsStand'
  BY <1>1 DEF FundInv, TypeOK, RunsOK, Labels, WorkReported, RunsReported, Reported,
              RunsStand, Stands, Paid
<1> QED
  BY <1>1, <1>3, <1>4, <1>5, <1>6, RunWrites

-----------------------------------------------------------------------------
(* Every step keeps the invariant.                                         *)
LEMMA FundInvNext == FundInv /\ [Next]_vars => FundInv'
<1> SUFFICES ASSUME FundInv, [Next]_vars PROVE FundInv'
  OBVIOUS
<1>1. CASE \E q \in Requests : Ask(q) \/ Create(q) \/ RequestFails(q)
  BY <1>1, RequestStep
<1>2. CASE \E h \in Hooks : \/ \E c \in Charges : Deliver(h, c)
                           \/ Receive(h)
                           \/ HookFails(h)
  BY <1>2, ChargesAssumption, HookStep
<1>3. CASE \E r \in Runners : \/ \E c \in Charges : Take(r, c)
                             \/ Work(r) \/ VerifyUnknown(r) \/ Throw(r) \/ Crash(r)
  BY <1>3, ChargesAssumption, RunStep
<1>4. CASE \E c \in Charges : Pay(c) \/ RequeueAbandoned(c) \/ RequeueSlow(c)
  BY <1>4, PayStep, RequeueStep
<1>5. CASE UNCHANGED vars
  BY <1>5 DEF vars, creation, webhook, queue, FundInv, TypeOK, StallsBounded,
              WorkReported, Reported, RunsStand, Stands, CreditedOnlyIfPaid, Paid,
              SuccessIsCredited, ProcessedIsCredited
<1> QED
  BY <1>1, <1>2, <1>3, <1>4, <1>5 DEF Next

(* The invariant holds in every state the funding reaches.                 *)
THEOREM FundInvariant == Spec => []FundInv
BY FundInvInit, FundInvNext, PTL DEF Spec

(* The variables keep their types, and a job belongs to a run exactly      *)
(* while it is active.                                                     *)
THEOREM FundingTypeCorrect == Spec => []TypeOK
<1>1. FundInv => TypeOK
  BY DEF FundInv
<1> QED
  BY <1>1, FundInvariant, PTL

(* completeCreditSuccessful runs only after the provider confirmed that    *)
(* the amount was paid, however often the webhook was called and the job   *)
(* was run.                                                                *)
THEOREM CreditsArePaid == Spec => []CreditedOnlyIfPaid
<1>1. FundInv => CreditedOnlyIfPaid
  BY DEF FundInv
<1> QED
  BY <1>1, FundInvariant, PTL

(* The transfer and its credit are written by two calls, and the status    *)
(* never runs ahead of the money.                                          *)
THEOREM SuccessfulIsCredited == Spec => []SuccessIsCredited
<1>1. FundInv => SuccessIsCredited
  BY DEF FundInv
<1> QED
  BY <1>1, FundInvariant, PTL

(* The webhook ignores an event that is PROCESSED, and no money is lost    *)
(* by that.                                                                *)
THEOREM ClosedEventsAreCredited == Spec => []ProcessedIsCredited
<1>1. FundInv => ProcessedIsCredited
  BY DEF FundInv
<1> QED
  BY <1>1, FundInvariant, PTL

-----------------------------------------------------------------------------
(* The checkout link is stored by the request that posted the credit, and  *)
(* a credit that was posted stays.                                         *)
CreditFirst == PayableHasCredit /\ LinkAfterCredit

LEMMA CreditFirstNext ==
  ASSUME TypeOK, CreditFirst, [Next]_vars
  PROVE  CreditFirst'
<1> USE DEF CreditFirst, PayableHasCredit, LinkAfterCredit
<1>0. /\ transfer \in TransferStates
      /\ request \in [Requests -> {"idle", "lookup", "create", "credit",
                                   "initiate", "update"}]
  BY RowTypes DEF TypeOK
<1>1. ASSUME NEW q \in Requests, Ask(q) \/ Create(q) \/ RequestFails(q)
      PROVE  CreditFirst'
  <2> USE DEF RequestGoto, Respond
  <2>1. CASE Ask(q) \/ FindByKey(q) \/ RequestFails(q)
    BY <1>0, <2>1 DEF Ask, FindByKey, RequestFails
  <2>2. CASE CreateTransfer(q)
    <3>1. credit' = credit
      BY <2>2 DEF CreateTransfer
    <3>2. transfer' = transfer \/ transfer' = [status |-> "INITIATED", checkout |-> FALSE]
      BY <2>2 DEF CreateTransfer
    <3>3. \/ request' = [request EXCEPT ![q] = "idle"]
          \/ request' = [request EXCEPT ![q] = "credit"]
      BY <2>2 DEF CreateTransfer
    <3>4. transfer'.checkout => transfer.checkout
      <4> HIDE DEF CreditFirst, PayableHasCredit, LinkAfterCredit
      <4>1. CASE transfer' = [status |-> "INITIATED", checkout |-> FALSE]
        <5>1. transfer'.checkout = FALSE
          BY <4>1
        <5> QED
          BY <5>1
      <4>2. CASE transfer' = transfer
        BY <4>2
      <4> QED
        BY <3>2, <4>1, <4>2
    <3>5. PayableHasCredit'
      BY <3>1, <3>4
    <3>6. LinkAfterCredit'
      BY <1>0, <3>1, <3>3
    <3> QED
      BY <3>5, <3>6
  <2>3. CASE PostPendingCredit(q)
    <3>1. credit' # "none"
      BY <2>3 DEF PostPendingCredit
    <3> QED
      BY <3>1
  <2>4. CASE InitiatePayment(q)
    BY <1>0, <2>4 DEF InitiatePayment
  <2>5. CASE StoreCheckout(q)
    <3>1. credit' = credit /\ credit # "none"
      BY <2>5 DEF StoreCheckout
    <3> QED
      BY <3>1
  <2> QED
    BY <1>1, <2>1, <2>2, <2>3, <2>4, <2>5 DEF Create
<1>2. ASSUME NEW h \in Hooks, NEW c \in Charges, Deliver(h, c)
      PROVE  CreditFirst'
  BY <1>2 DEF Deliver, creation
<1>3. ASSUME NEW h \in Hooks, Receive(h) \/ HookFails(h)
      PROVE  CreditFirst'
  BY <1>3 DEF Receive, HookFails, FindEvent, CreateEvent, EnqueueCompletion, creation
<1>4. ASSUME NEW r \in Runners, NEW c \in Charges, Take(r, c)
      PROVE  CreditFirst'
  BY <1>4 DEF Take, creation
<1>5. ASSUME NEW r \in Runners, Work(r)
      PROVE  CreditFirst'
  <2>1. /\ request' = request
        /\ transfer'.checkout = transfer.checkout
        /\ credit' = credit \/ credit' = "SUCCESSFUL"
    BY <1>0, <1>5 DEF Work, LoadEvent, FindTransfer, Verify, FailTransfer, FindCredits,
                CompleteCredit, UpdateTransfer, MarkProcessed, MarkFailed, Complete,
                creation, TransferStates
  <2> QED
    BY <2>1
<1>6. ASSUME NEW r \in Runners, VerifyUnknown(r) \/ Throw(r) \/ Crash(r)
      PROVE  CreditFirst'
  BY <1>6 DEF VerifyUnknown, Throw, Crash, creation
<1>7. ASSUME NEW c \in Charges, Pay(c) \/ RequeueAbandoned(c) \/ RequeueSlow(c)
      PROVE  CreditFirst'
  BY <1>7 DEF Pay, RequeueAbandoned, RequeueSlow, creation
<1>8. CASE UNCHANGED vars
  BY <1>8 DEF vars, creation
<1> QED
  BY <1>1, <1>2, <1>3, <1>4, <1>5, <1>6, <1>7, <1>8 DEF Next

(* For any number of requests that fail anywhere: who may pay a funding has*)
(* the credit that the payment completes (transfer-create.service.ts).     *)
THEOREM PayableHasItsCredit == Spec => []PayableHasCredit
<1>1. Init => CreditFirst
  BY DEF Init, CreditFirst, PayableHasCredit, LinkAfterCredit
<1>2. TypeOK /\ CreditFirst /\ [Next]_vars => CreditFirst'
  BY CreditFirstNext
<1>3. CreditFirst => PayableHasCredit
  BY DEF CreditFirst
<1> QED
  BY <1>1, <1>2, <1>3, FundingTypeCorrect, PTL DEF Spec

-----------------------------------------------------------------------------
(* A payment that was answered for is credited or on its way.  The answer  *)
(* follows the job, the job is held by a run that is there, and the run    *)
(* finds the one payment there is, and the credit that precedes it.        *)

(* The customer is charged once.                                           *)
PaymentAlone ==
  \A c \in Charges : charge[c] = "successful" =>
    \A d \in Charges \ {c} : charge[d] \in {"none", "failed"}

ChargedHasCredit == \A c \in Charges : charge[c] # "none" => credit # "none"

AckedReported == \A c \in Charges : acked[c] => Reported(c)

Due(c) == charge[c] = "successful" /\ credit # "SUCCESSFUL"

NoJobFault == faults["job"] = 0

(* Jobs and runs go together.                                              *)
Held ==
  /\ \A r \in Runners : run[r].pc # "idle" => Owns(r)
  /\ \A c \in Charges : ~ Abandoned(c)

(* The labels on the way to the credit.                                    *)
Crediting == {"load", "find", "verify", "credits", "complete"}

OnTheWay ==
  /\ \A c \in Charges : Due(c) => /\ jobs[c].state # "failed"
                                  /\ acked[c] => jobs[c].state # "absent"
  /\ \A r \in Runners : run[r].pc # "idle" /\ Due(run[r].charge)
                          => run[r].pc \in Crediting

DueInv ==
  /\ PaymentAlone
  /\ ChargedHasCredit
  /\ AckedReported
  /\ NoJobFault => Held /\ OnTheWay

LEMMA DueInvInit == Init => DueInv
<1> SUFFICES ASSUME Init PROVE DueInv
  OBVIOUS
<1>1. PaymentAlone /\ ChargedHasCredit /\ AckedReported
  BY DEF Init, PaymentAlone, ChargedHasCredit, AckedReported
<1>2. Held
  BY DEF Init, Held, Abandoned, IdleRun, NewJob
<1>3. OnTheWay
  BY DEF Init, OnTheWay, Due, IdleRun
<1> QED
  BY <1>1, <1>2, <1>3 DEF DueInv

(* Once a call of the job failed, it has failed.                           *)
LEMMA JobFaultStays ==
  ASSUME TypeOK, NEW kind \in {"request", "webhook", "job"}, Fault(kind)
  PROVE  /\ NoJobFault' => NoJobFault
         /\ kind = "job" => ~ NoJobFault'
<1>1. DOMAIN MaxFaults = {"request", "webhook", "job"}
  BY FaultsAssumption
<1>2. faults \in [{"request", "webhook", "job"} -> Nat]
  BY <1>1 DEF TypeOK
<1>3. faults' = [faults EXCEPT ![kind] = faults[kind] + 1]
  BY DEF Fault
<1>4. CASE kind = "job"
  <2> DEFINE before == faults["job"]
             after == faults'["job"]
  <2>1. after = before + 1 /\ before \in Nat
    BY <1>2, <1>3, <1>4
  <2> HIDE DEF before, after
  <2>2. after # 0
    BY <2>1
  <2> QED
    BY <2>2 DEF NoJobFault, after
<1>5. CASE kind # "job"
  BY <1>2, <1>3, <1>5 DEF NoJobFault
<1> QED
  BY <1>4, <1>5

(* The charge that a run is about, and the types of what it goes by.       *)
LEMMA RunTypes ==
  ASSUME FundInv, NEW r \in Runners
  PROVE  /\ run \in [Runners -> [pc : Labels, charge : Charges \cup {NoCharge}]]
         /\ run[r].pc # "idle" => run[r].charge \in Charges /\ Reported(run[r].charge)
         /\ jobs \in [Charges -> Job]
         /\ \A c \in Charges : jobs[c].state = "active" <=> jobs[c].owner \in Runners
         /\ acked \in [Charges -> BOOLEAN]
BY DEF FundInv, TypeOK, WorkReported, Labels

(* A request neither charges nor credits.                                  *)
LEMMA RequestDue ==
  ASSUME FundInv, DueInv, NEW q \in Requests, Ask(q) \/ Create(q) \/ RequestFails(q)
  PROVE  DueInv'
<1>1. /\ UNCHANGED <<charge, acked, jobs, run>>
      /\ credit' = credit \/ (credit = "none" /\ credit' = "PENDING")
  BY DEF Ask, Create, RequestFails, FindByKey, CreateTransfer, PostPendingCredit,
         InitiatePayment, StoreCheckout, webhook, queue
<1>2. NoJobFault' => NoJobFault
  <2>1. CASE RequestFails(q)
    BY <2>1, JobFaultStays DEF FundInv, RequestFails
  <2>2. CASE ~ RequestFails(q)
    BY <2>2 DEF NoJobFault, Ask, Create, FindByKey, CreateTransfer, PostPendingCredit,
                InitiatePayment, StoreCheckout
  <2> QED
    BY <2>1, <2>2
<1>3. PaymentAlone' /\ ChargedHasCredit' /\ AckedReported'
  BY <1>1 DEF DueInv, PaymentAlone, ChargedHasCredit, AckedReported, Reported
<1>4. Held => Held'
  BY <1>1 DEF Held, Owns, Abandoned
<1>5. OnTheWay => OnTheWay'
  BY <1>1 DEF OnTheWay, Due
<1> QED
  BY <1>2, <1>3, <1>4, <1>5 DEF DueInv

(* A charge that ends is one that nobody works on yet.                     *)
LEMMA PayDue ==
  ASSUME FundInv, CreditFirst, DueInv, NEW c \in Charges, Pay(c)
  PROVE  DueInv'
<1>1. PICK outcome \in {"pending"} \cup Ended :
        charge' = [charge EXCEPT ![c] = outcome]
  BY DEF Pay
<1>2. /\ charge \in [Charges -> ChargeStates] /\ outcome \in ChargeStates
      /\ c \notin Strays /\ charge[c] \in {"none", "pending"} /\ transfer.checkout
      /\ \A d \in Charges \ {c} : charge[d] \in {"none", "failed"}
      /\ ~ Reported(c)
  BY RowTypes DEF FundInv, Pay, Reported, Ended, ChargeStates
<1>3. /\ charge'[c] = outcome /\ outcome # "none"
      /\ \A d \in Charges \ {c} : charge'[d] = charge[d]
  BY <1>1, <1>2 DEF Ended
<1>4. UNCHANGED <<credit, event, acked, jobs, run, faults>>
  BY DEF Pay, creation, webhook, queue
<1>5. PaymentAlone'
  BY <1>2, <1>3 DEF PaymentAlone
<1>6. ChargedHasCredit'
  BY <1>2, <1>3, <1>4 DEF CreditFirst, PayableHasCredit, ChargedHasCredit, DueInv
<1>7. AckedReported'
  BY <1>2, <1>3, <1>4 DEF AckedReported, Reported, DueInv
<1>8. Held => Held'
  BY <1>4 DEF Held, Owns, Abandoned
<1>9. OnTheWay => OnTheWay'
  <2>1. ~ acked[c] /\ jobs[c].state = "absent"
    BY <1>2 DEF DueInv, AckedReported, FundInv, WorkReported
  <2>2. \A r \in Runners : run[r].pc # "idle" =>
           run[r].charge \in Charges /\ run[r].charge # c
    BY <1>2, RunTypes
  <2> QED
    BY <1>3, <1>4, <2>1, <2>2 DEF OnTheWay, Due
<1> QED
  BY <1>4, <1>5, <1>6, <1>7, <1>8, <1>9 DEF DueInv, NoJobFault

(* A delivery is answered after its job was added, or when the event is    *)
(* PROCESSED, which tells that the money is there.                         *)
LEMMA HookDue ==
  ASSUME FundInv, DueInv, NEW h \in Hooks, NEW c \in Charges,
         Deliver(h, c) \/ Receive(h) \/ HookFails(h)
  PROVE  DueInv'
<1> DEFINE d == hook[h].charge
<1>1. UNCHANGED <<credit, charge, run>>
  BY DEF Deliver, Receive, HookFails, FindEvent, CreateEvent, EnqueueCompletion,
         creation, queue
<1>2. NoJobFault' => NoJobFault
  <2>1. CASE HookFails(h)
    BY <2>1, JobFaultStays DEF FundInv, HookFails
  <2>2. CASE ~ HookFails(h)
    BY <2>2 DEF NoJobFault, Deliver, Receive, FindEvent, CreateEvent, EnqueueCompletion
  <2> QED
    BY <2>1, <2>2
<1>3. hook[h].pc # "idle" => d \in Charges /\ Reported(d)
  BY DEF FundInv, TypeOK, WorkReported
<1>4. /\ acked \in [Charges -> BOOLEAN] /\ jobs \in [Charges -> Job]
      /\ \A e \in Charges : jobs[e].state = "active" <=> jobs[e].owner \in Runners
  BY DEF FundInv, TypeOK
<1>5. \/ UNCHANGED <<acked, jobs>>
      \/ /\ hook[h].pc # "idle" /\ ~ Due(d) /\ UNCHANGED jobs
         /\ acked' = [acked EXCEPT ![d] = TRUE]
      \/ /\ hook[h].pc # "idle" /\ jobs' = [jobs EXCEPT ![d] = Added(jobs[d])]
         /\ acked' = [acked EXCEPT ![d] = TRUE]
  <2>1. CASE FindEvent(h) /\ event[d] = "PROCESSED"
    <3>1. hook[h].pc # "idle" /\ UNCHANGED jobs /\ acked' = [acked EXCEPT ![d] = TRUE]
      BY <2>1 DEF FindEvent, Acknowledge, queue
    <3>2. ~ Due(d)
      BY <1>3, <2>1, <3>1 DEF Due, FundInv, ProcessedIsCredited
    <3> QED
      BY <3>1, <3>2
  <2>2. CASE EnqueueCompletion(h)
    BY <2>2 DEF EnqueueCompletion, Acknowledge
  <2>3. CASE \/ Deliver(h, c) \/ CreateEvent(h) \/ HookFails(h)
             \/ FindEvent(h) /\ event[d] # "PROCESSED"
    BY <2>3 DEF Deliver, CreateEvent, HookFails, FindEvent, webhook, queue
  <2> QED
    BY <2>1, <2>2, <2>3 DEF Receive
<1>6. PaymentAlone' /\ ChargedHasCredit'
  BY <1>1 DEF DueInv, PaymentAlone, ChargedHasCredit
<1>7. AckedReported'
  BY <1>1, <1>3, <1>4, <1>5 DEF DueInv, AckedReported, Reported
<1>8. \A e \in Charges :
         /\ jobs'[e].owner = jobs[e].owner
         /\ jobs'[e].state = "active" <=> jobs[e].state = "active"
         /\ jobs'[e].state = "absent" => jobs[e].state = "absent"
         /\ jobs'[e].state = "failed" => jobs[e].state = "failed"
  <2>1. \A e \in Charges : LET job == Added(jobs[e]) IN
           /\ job.owner = jobs[e].owner
           /\ job.state = "active" <=> jobs[e].state = "active"
           /\ job.state # "absent"
           /\ job.state = "failed" => jobs[e].state = "failed"
    BY <1>4 DEF Added, NewJob, Job
  <2> QED
    BY <1>3, <1>4, <1>5, <2>1
<1>9. Held => Held'
  BY <1>1, <1>8, RunTypes DEF Held, Owns, Abandoned
<1>10. OnTheWay => OnTheWay'
  <2>1. ASSUME NEW e \in Charges, Due(e), acked'[e], jobs'[e].state = "absent"
        PROVE  acked[e]
    <3>1. Added(jobs[e]).state # "absent"
      BY DEF Added, NewJob
    <3> QED
      BY <1>3, <1>4, <1>5, <2>1, <3>1
  <2> QED
    BY <1>1, <1>8, <2>1 DEF OnTheWay, Due
<1> QED
  BY <1>2, <1>6, <1>7, <1>9, <1>10 DEF DueInv

(* What is left of a step of a run that no fault caused, once it is known  *)
(* that run and queue still go together.                                   *)
LEMMA RunKeepsDue ==
  ASSUME FundInv, DueInv, UNCHANGED <<charge, acked>>, NEW r \in Runners,
         credit # "none" => credit' # "none",
         credit = "SUCCESSFUL" => credit' = "SUCCESSFUL",
         \A o \in Runners \ {r} : run'[o] = run[o],
         NoJobFault' =>
           /\ NoJobFault
           /\ Held'
           /\ \A c \in Charges :
                Due(c) /\ jobs'[c].state \in {"absent", "failed"} => jobs'[c] = jobs[c]
           /\ (run[r].pc # "idle" /\ Due(run[r].charge) => run[r].pc \in Crediting)'
  PROVE  DueInv'
<1>1. PaymentAlone' /\ ChargedHasCredit' /\ AckedReported'
  BY DEF DueInv, PaymentAlone, ChargedHasCredit, AckedReported, Reported
<1>2. \A c : Due(c)' => Due(c)
  BY DEF Due
<1>3. ASSUME NoJobFault' PROVE OnTheWay'
  <2>1. OnTheWay
    BY <1>3 DEF DueInv
  <2>2. ASSUME NEW c \in Charges, Due(c)'
        PROVE  /\ jobs'[c].state # "failed"
               /\ acked'[c] => jobs'[c].state # "absent"
    <3>1. Due(c)
      BY <1>2, <2>2
    <3>2. jobs[c].state # "failed" /\ (acked[c] => jobs[c].state # "absent")
      BY <2>1, <3>1 DEF OnTheWay
    <3> QED
      BY <1>3, <3>1, <3>2
  <2>3. ASSUME NEW o \in Runners, run'[o].pc # "idle", Due(run[o].charge)'
        PROVE  run'[o].pc \in Crediting
    <3>1. CASE o = r
      BY <1>2, <1>3, <2>3, <3>1 DEF Due
    <3>2. CASE o # r
      BY <1>2, <2>1, <2>3, <3>2 DEF OnTheWay
    <3> QED
      BY <3>1, <3>2
  <2> QED
    BY <2>2, <2>3 DEF OnTheWay, Due
<1> QED
  BY <1>1, <1>3 DEF DueInv

(* A run that goes on with its charge keeps its job.                       *)
LEMMA GoesOn ==
  ASSUME FundInv, NEW r \in Runners, NEW label \in Labels \ {"idle"},
         run[r].pc # "idle", Goto(r, label), UNCHANGED jobs
  PROVE  /\ \A o \in Runners \ {r} : run'[o] = run[o]
         /\ run'[r].charge = run[r].charge /\ run'[r].pc = label
         /\ Held => Held'
<1>1. /\ \A o \in Runners \ {r} : run'[o] = run[o]
      /\ run'[r].charge = run[r].charge /\ run'[r].pc = label
  BY RunTypes DEF Goto
<1>2. ASSUME Held PROVE Held'
  <2>1. \A o \in Runners : run'[o].charge = run[o].charge
                           /\ (run'[o].pc = "idle" <=> run[o].pc = "idle")
    BY <1>1
  <2>2. \A c \in Charges : jobs[c].state = "active" => jobs[c].owner \in Runners
    BY RunTypes
  <2> QED
    BY <1>2, <2>1, <2>2 DEF Held, Owns, Abandoned
<1> QED
  BY <1>1, <1>2

(* A run that gives up its job, for one that nobody holds.                 *)
LEMMA Ends ==
  ASSUME FundInv, Held, NEW r \in Runners, run[r].pc # "idle",
         run' = [run EXCEPT ![r] = IdleRun], NEW job,
         job.owner = NoRunner, job.state # "active",
         Owns(r) => jobs' = [jobs EXCEPT ![run[r].charge] = job]
  PROVE  /\ \A o \in Runners \ {r} : run'[o] = run[o]
         /\ run'[r].pc = "idle"
         /\ Held'
         /\ \A c \in Charges \ {run[r].charge} : jobs'[c] = jobs[c]
<1> DEFINE d == run[r].charge
<1>1. Owns(r) /\ d \in Charges
  BY RunTypes DEF Held
<1>2. /\ \A o \in Runners \ {r} : run'[o] = run[o]
      /\ run'[r].pc = "idle"
      /\ \A c \in Charges \ {d} : jobs'[c] = jobs[c]
      /\ jobs'[d] = job
  BY <1>1, RunTypes DEF IdleRun
<1>3. \A o \in Runners \ {r} : run'[o].pc # "idle" => Owns(o)'
  <2> TAKE o \in Runners \ {r}
  <2>1. run[o].pc # "idle" => Owns(o) /\ run[o].charge \in Charges
    BY RunTypes DEF Held
  <2>2. run[o].pc # "idle" => run[o].charge # d
    BY <1>1, <2>1 DEF Owns
  <2> QED
    BY <1>2, <2>1, <2>2 DEF Owns
<1>4. \A c \in Charges : ~ Abandoned(c)'
  <2> TAKE c \in Charges
  <2>1. CASE c = d
    BY <1>2, <2>1 DEF Abandoned
  <2>2. CASE c # d
    <3>1. ~ Abandoned(c) /\ (jobs[c].state = "active" => jobs[c].owner \in Runners)
      BY RunTypes DEF Held
    <3>2. jobs[c].state = "active" => jobs[c].owner # r
      BY <2>2, <3>1 DEF Abandoned
    <3> QED
      BY <1>2, <2>2, <3>1, <3>2 DEF Abandoned
  <2> QED
    BY <2>1, <2>2
<1> QED
  BY <1>2, <1>3, <1>4 DEF Held

(* A worker takes a waiting job, which no run holds.                       *)
LEMMA TakeHolds ==
  ASSUME FundInv, Held, NEW r \in Runners, NEW c \in Charges, Take(r, c)
  PROVE  /\ \A o \in Runners \ {r} : run'[o] = run[o]
         /\ run'[r].pc = "load"
         /\ Held'
         /\ jobs'[c].state = "active"
         /\ \A d \in Charges \ {c} : jobs'[d] = jobs[d]
<1>1. /\ run[r].pc = "idle" /\ jobs[c].state = "waiting"
      /\ jobs' = [jobs EXCEPT ![c] = Taken(jobs[c], r)]
      /\ run' = [run EXCEPT ![r] = [pc |-> "load", charge |-> c]]
  BY DEF Take
<1>2. /\ \A o \in Runners \ {r} : run'[o] = run[o]
      /\ run'[r].pc = "load" /\ run'[r].charge = c
      /\ \A d \in Charges \ {c} : jobs'[d] = jobs[d]
      /\ jobs'[c].state = "active" /\ jobs'[c].owner = r
  BY <1>1, RunTypes DEF Taken, Job
<1>3. \A o \in Runners \ {r} : run'[o].pc # "idle" => Owns(o)'
  <2> TAKE o \in Runners \ {r}
  <2>1. run[o].pc # "idle" => Owns(o) /\ run[o].charge \in Charges
    BY RunTypes DEF Held
  <2>2. run[o].pc # "idle" => run[o].charge # c
    BY <1>1, <2>1, RunTypes DEF Owns
  <2> QED
    BY <1>2, <2>1, <2>2 DEF Owns
<1>4. \A d \in Charges : ~ Abandoned(d)'
  <2> TAKE d \in Charges
  <2>1. CASE d = c
    BY <1>2, <2>1 DEF Abandoned
  <2>2. CASE d # c
    <3>1. ~ Abandoned(d) /\ (jobs[d].state = "active" => jobs[d].owner \in Runners)
      BY RunTypes DEF Held
    <3>2. jobs[d].state = "active" => jobs[d].owner # r
      BY <1>1, <3>1 DEF Abandoned
    <3> QED
      BY <1>2, <2>2, <3>1, <3>2 DEF Abandoned
  <2> QED
    BY <2>1, <2>2
<1> QED
  BY <1>2, <1>3, <1>4 DEF Held, Owns

(* A run comes to the credit, unless a call of it fails.                   *)
LEMMA RunDue ==
  ASSUME FundInv, DueInv, NEW r \in Runners, NEW c \in Charges,
         Take(r, c) \/ Work(r) \/ VerifyUnknown(r) \/ Throw(r) \/ Crash(r)
  PROVE  DueInv'
<1> DEFINE d == run[r].charge
<1>1. /\ run \in [Runners -> [pc : Labels, charge : Charges \cup {NoCharge}]]
      /\ run[r].pc # "idle" => d \in Charges
      /\ DOMAIN jobs = Charges
  BY RunTypes
<1>2. ASSUME NoJobFault, run[r].pc # "idle", Due(d) PROVE run[r].pc \in Crediting
  BY <1>2 DEF DueInv, OnTheWay
<1>3. ASSUME NEW label \in Labels \ {"idle"}, run[r].pc # "idle", Goto(r, label),
             UNCHANGED <<charge, acked, jobs, faults>>,
             credit' = credit \/ credit' = "SUCCESSFUL",
             NoJobFault /\ Due(d) /\ credit' # "SUCCESSFUL" => label \in Crediting
      PROVE  DueInv'
  <2>1. /\ \A o \in Runners \ {r} : run'[o] = run[o]
        /\ run'[r].charge = d /\ run'[r].pc = label
        /\ Held => Held'
    BY <1>3, GoesOn
  <2>2. credit # "none" => credit' # "none"
    BY <1>3
  <2>3. NoJobFault' => NoJobFault /\ Held
    BY <1>3 DEF NoJobFault, DueInv
  <2>4. NoJobFault => (run[r].pc # "idle" /\ Due(run[r].charge) => run[r].pc \in Crediting)'
    BY <1>3, <2>1 DEF Due
  <2> QED
    BY <1>3, <2>1, <2>2, <2>3, <2>4, RunKeepsDue
<1>4. CASE Take(r, c)
  <2>1. UNCHANGED <<charge, credit, acked, faults>>
    BY <1>4 DEF Take, creation, webhook
  <2>2. ASSUME NoJobFault
        PROVE  /\ Held'
               /\ \A e \in Charges :
                    jobs'[e].state \in {"absent", "failed"} => jobs'[e] = jobs[e]
               /\ run'[r].pc \in Crediting
    <3>1. Held
      BY <2>2 DEF DueInv
    <3> QED
      BY <1>4, <3>1, TakeHolds DEF Crediting
  <2>3. \A o \in Runners \ {r} : run'[o] = run[o]
    BY <1>1, <1>4 DEF Take
  <2> QED
    BY <2>1, <2>2, <2>3, RunKeepsDue DEF NoJobFault
<1>5. CASE LoadEvent(r)
  <2>1. PICK label \in {"done", "find", "reject"} :
          /\ Goto(r, label)
          /\ label = "done" => event[d] = "PROCESSED"
          /\ label = "reject" => d \in Strays
    BY <1>5 DEF LoadEvent
  <2>2. UNCHANGED <<credit, charge, acked, jobs, faults>> /\ run[r].pc # "idle"
    BY <1>5 DEF LoadEvent, creation, webhook
  <2>3. Due(d) => label \in Crediting
    BY <1>1, <2>1, <2>2
       DEF Due, FundInv, ProcessedIsCredited, WorkReported, Crediting
  <2> QED
    BY <1>3, <2>1, <2>2, <2>3 DEF Labels
<1>6. CASE FindTransfer(r)
  <2>1. PICK label \in {"dismiss", "processed", "verify"} :
          /\ Goto(r, label)
          /\ label = "dismiss" => d \in Strays
          /\ label = "processed" => transfer.status = "SUCCESSFUL"
    BY <1>6 DEF FindTransfer
  <2>2. UNCHANGED <<credit, charge, acked, jobs, faults>> /\ run[r].pc # "idle"
    BY <1>6 DEF FindTransfer, creation, webhook
  <2>3. Due(d) => label \in Crediting
    BY <2>1 DEF Due, FundInv, SuccessIsCredited, WorkReported, Crediting
  <2> QED
    BY <1>3, <2>1, <2>2, <2>3 DEF Labels
<1>7. CASE Verify(r)
  <2>1. PICK verdict \in Verdicts :
          Goto(r, CASE verdict = "pending"      -> "done"
                    [] verdict = "failed"       -> "fail transfer"
                    [] verdict = "successful"   -> "credits"
                    [] verdict = "other amount" -> "reject")
    BY <1>7 DEF Verify
  <2>2. UNCHANGED <<credit, charge, acked, jobs, faults>> /\ run[r].pc # "idle"
    BY <1>7 DEF Verify, creation, webhook
  <2>3. verdict \in {"pending", "failed", "successful", "other amount"}
    BY RowTypes DEF Verdicts, FundInv, ChargeStates
  <2>4. Due(d) => verdict = "successful"
    <3> SUFFICES ASSUME Due(d) PROVE verdict = "successful"
      OBVIOUS
    <3>1. d \in Charges \ Strays /\ charge[d] = "successful"
      BY <1>1, <2>2 DEF Due, FundInv, WorkReported
    <3>2. verdict \in {"successful", "other amount"}
      BY <3>1 DEF Verdicts
    <3>3. \A e \in Charges : charge[e] # "other amount"
      BY <3>1 DEF DueInv, PaymentAlone
    <3>4. PICK e \in Charges : charge[e] = verdict
      BY <3>2 DEF Verdicts
    <3> QED
      BY <3>2, <3>3, <3>4
  <2>5. PICK label \in {"done", "fail transfer", "credits", "reject"} :
          Goto(r, label) /\ (verdict = "successful" => label = "credits")
    BY <2>1, <2>3
  <2>6. Due(d) => label \in Crediting
    BY <2>4, <2>5 DEF Crediting
  <2> QED
    BY <1>3, <2>2, <2>5, <2>6 DEF Labels
<1>8. CASE FindCredits(r)
  <2>1. PICK label \in {"update", "complete", "reject"} :
          /\ Goto(r, label)
          /\ label = "update" => credit = "SUCCESSFUL"
          /\ label = "reject" => credit = "none"
    BY <1>8, RowTypes DEF FindCredits, FundInv
  <2>2. UNCHANGED <<credit, charge, acked, jobs, faults>> /\ run[r].pc # "idle"
    BY <1>8 DEF FindCredits, creation, webhook
  <2>3. Due(d) => label \in Crediting
    BY <1>1, <2>1, <2>2 DEF Due, DueInv, ChargedHasCredit, Crediting
  <2> QED
    BY <1>3, <2>1, <2>2, <2>3 DEF Labels
<1>9. CASE CompleteCredit(r)
  <2>1. /\ Goto(r, "update") /\ credit' = "SUCCESSFUL" /\ run[r].pc # "idle"
        /\ UNCHANGED <<charge, acked, jobs, faults>>
    BY <1>9 DEF CompleteCredit, webhook
  <2> QED
    BY <1>3, <2>1 DEF Labels
<1>10. CASE \/ FailTransfer(r) \/ UpdateTransfer(r) \/ MarkProcessed(r)
            \/ MarkFailed(r) /\ run[r].pc = "dismiss"
  <2>1. PICK label \in {"processed", "done"} : Goto(r, label)
    BY <1>10 DEF FailTransfer, UpdateTransfer, MarkProcessed, MarkFailed
  <2>2. /\ UNCHANGED <<credit, charge, acked, jobs, faults>>
        /\ run[r].pc # "idle" /\ run[r].pc \notin Crediting
    BY <1>10 DEF FailTransfer, UpdateTransfer, MarkProcessed, MarkFailed, creation,
                 webhook, Crediting
  <2> QED
    BY <1>2, <1>3, <2>1, <2>2 DEF Labels
<1>11. CASE Complete(r) \/ (MarkFailed(r) /\ run[r].pc = "reject")
  <2>1. /\ UNCHANGED <<credit, charge, acked, faults>>
        /\ run' = [run EXCEPT ![r] = IdleRun]
        /\ run[r].pc # "idle" /\ run[r].pc \notin Crediting
    BY <1>11 DEF Complete, MarkFailed, EndAttempt, creation, webhook, Crediting
  <2>2. PICK job : /\ job.owner = NoRunner /\ job.state # "active"
                   /\ Owns(r) => jobs' = [jobs EXCEPT ![d] = job]
    <3>1. CASE Complete(r)
      <4> DEFINE job == NewJob("absent")
      <4>1. job.owner = NoRunner /\ job.state # "active"
        BY DEF NewJob
      <4>2. Owns(r) => jobs' = [jobs EXCEPT ![d] = job]
        BY <3>1 DEF Complete
      <4> HIDE DEF job
      <4> QED
        BY <4>1, <4>2
    <3>2. CASE MarkFailed(r) /\ run[r].pc = "reject"
      <4> DEFINE job == Retried(jobs[d], CompletionAttempts)
      <4>1. job.owner = NoRunner /\ job.state # "active"
        BY <1>1, <2>1, RunTypes DEF Retried, Job
      <4>2. Owns(r) => jobs' = [jobs EXCEPT ![d] = job]
        BY <3>2 DEF MarkFailed, EndAttempt
      <4> QED
        BY <4>1, <4>2
    <3> QED
      BY <1>11, <3>1, <3>2
  <2>3. ASSUME NoJobFault
        PROVE  /\ Held' /\ run'[r].pc = "idle"
               /\ \A e \in Charges : Due(e) => jobs'[e] = jobs[e]
    <3>1. Held
      BY <2>3 DEF DueInv
    <3>2. /\ Held' /\ run'[r].pc = "idle"
          /\ \A e \in Charges \ {d} : jobs'[e] = jobs[e]
      BY <2>1, <2>2, <3>1, Ends
    <3>3. ~ Due(d)
      BY <1>2, <2>1, <2>3
    <3> QED
      BY <3>2, <3>3
  <2>4. \A o \in Runners \ {r} : run'[o] = run[o]
    BY <1>1, <2>1
  <2> QED
    BY <2>1, <2>3, <2>4, RunKeepsDue DEF NoJobFault
<1>12. CASE VerifyUnknown(r) \/ Throw(r) \/ Crash(r)
  <2>1. UNCHANGED <<credit, charge, acked>> /\ Fault("job")
    BY <1>12 DEF VerifyUnknown, Throw, Crash, creation, webhook
  <2>2. ~ NoJobFault'
    BY <2>1, JobFaultStays DEF FundInv
  <2>3. \A o \in Runners \ {r} : run'[o] = run[o]
    BY <1>1, <1>12 DEF VerifyUnknown, Throw, Crash, EndAttempt, Goto
  <2> QED
    BY <2>1, <2>2, <2>3, RunKeepsDue
<1>13. MarkFailed(r) => run[r].pc \in {"dismiss", "reject"}
  BY DEF MarkFailed
<1> QED
  BY <1>4, <1>5, <1>6, <1>7, <1>8, <1>9, <1>10, <1>11, <1>12, <1>13 DEF Work

LEMMA DueInvNext ==
  FundInv /\ CreditFirst /\ DueInv /\ [Next]_vars => DueInv'
<1> SUFFICES ASSUME FundInv, CreditFirst, DueInv, [Next]_vars PROVE DueInv'
  OBVIOUS
<1>1. CASE \E q \in Requests : Ask(q) \/ Create(q) \/ RequestFails(q)
  BY <1>1, RequestDue
<1>2. CASE \E h \in Hooks : \/ \E c \in Charges : Deliver(h, c)
                           \/ Receive(h)
                           \/ HookFails(h)
  BY <1>2, ChargesAssumption, HookDue
<1>3. CASE \E r \in Runners : \/ \E c \in Charges : Take(r, c)
                             \/ Work(r) \/ VerifyUnknown(r) \/ Throw(r) \/ Crash(r)
  BY <1>3, ChargesAssumption, RunDue
<1>4. ASSUME NEW c \in Charges, RequeueAbandoned(c) \/ RequeueSlow(c)
      PROVE  DueInv'
  <2>1. UNCHANGED <<charge, credit, acked, run>>
    BY <1>4 DEF RequeueAbandoned, RequeueSlow, creation, webhook
  <2>2. ~ NoJobFault'
    <3>1. CASE RequeueAbandoned(c)
      BY <3>1 DEF RequeueAbandoned, NoJobFault, DueInv, Held
    <3>2. CASE RequeueSlow(c)
      BY <3>2, JobFaultStays DEF RequeueSlow, FundInv
    <3> QED
      BY <1>4, <3>1, <3>2
  <2> QED
    BY <2>1, <2>2 DEF DueInv, PaymentAlone, ChargedHasCredit, AckedReported, Reported
<1>5. CASE \E c \in Charges : Pay(c)
  BY <1>5, PayDue
<1>6. CASE UNCHANGED vars
  BY <1>6 DEF vars, creation, webhook, queue, DueInv, PaymentAlone, ChargedHasCredit,
              AckedReported, Reported, NoJobFault, Held, Owns, Abandoned, OnTheWay, Due
<1> QED
  BY <1>1, <1>2, <1>3, <1>4, <1>5, <1>6 DEF Next

(* While no call of the completion job fails, a payment whose webhook got  *)
(* its 200 is credited or has its job, whatever happens to requests and    *)
(* deliveries, and however many charges and deliveries there are           *)
(* (transfer-webhook.service.ts, transfer-complete.service.ts).            *)
THEOREM PaidIsNeverDropped == Spec => []PaidIsQueued
<1>1. Init => CreditFirst /\ DueInv
  BY DueInvInit DEF Init, CreditFirst, PayableHasCredit, LinkAfterCredit
<1>2. FundInv /\ CreditFirst /\ DueInv /\ [Next]_vars => (CreditFirst /\ DueInv)'
  BY CreditFirstNext, DueInvNext DEF FundInv
<1>3. FundInv /\ DueInv => PaidIsQueued
  <2> SUFFICES ASSUME FundInv, DueInv, faults["job"] = 0, NEW c \in Charges,
                      Due(c), acked[c]
               PROVE  jobs[c].state \in {"waiting", "active"}
    BY DEF PaidIsQueued, Due
  <2>1. jobs[c].state \in {"absent", "waiting", "active", "failed"}
    BY DEF FundInv, TypeOK, Job
  <2> QED
    BY <2>1 DEF DueInv, NoJobFault, OnTheWay
<1> QED
  BY <1>1, <1>2, <1>3, FundInvariant, PTL DEF Spec

-----------------------------------------------------------------------------
(* The funding keeps what is promised to the user, step by step.           *)

(* The steps that move the money: the credit is announced, the customer    *)
(* pays, the credit is completed.  They leave the transfer's row alone.    *)
LEMMA MoneyMovers ==
  ASSUME FundInv, CreditFirst, DueInv, [Next]_vars
  PROVE  \/ UNCHANGED <<credit, Paid>>
         \/ /\ credit = "none" /\ credit' = "PENDING"
            /\ UNCHANGED <<transfer, Paid>>
         \/ /\ credit # "none" /\ ~ Paid /\ Paid'
            /\ UNCHANGED <<transfer, credit>>
         \/ /\ credit = "PENDING" /\ credit' = "SUCCESSFUL" /\ Paid
            /\ UNCHANGED <<transfer, Paid>>
<1>1. UNCHANGED charge => UNCHANGED Paid
  BY DEF Paid
<1>2. ASSUME NEW q \in Requests, PostPendingCredit(q)
      PROVE  /\ UNCHANGED <<transfer, Paid>>
             /\ credit' = credit \/ (credit = "none" /\ credit' = "PENDING")
  BY <1>1, <1>2 DEF PostPendingCredit
<1>3. ASSUME NEW q \in Requests, Ask(q) \/ Create(q) \/ RequestFails(q),
             ~ PostPendingCredit(q)
      PROVE  UNCHANGED <<credit, Paid>>
  BY <1>1, <1>3 DEF Ask, Create, RequestFails, FindByKey, CreateTransfer,
                    InitiatePayment, StoreCheckout
<1>4. ASSUME NEW h \in Hooks,
             (\E c \in Charges : Deliver(h, c)) \/ Receive(h) \/ HookFails(h)
      PROVE  UNCHANGED <<credit, Paid>>
  BY <1>1, <1>4 DEF Deliver, Receive, HookFails, FindEvent, CreateEvent,
                    EnqueueCompletion, creation
<1>5. ASSUME NEW r \in Runners, CompleteCredit(r)
      PROVE  \/ UNCHANGED <<credit, Paid>>
             \/ /\ credit = "PENDING" /\ credit' = "SUCCESSFUL" /\ Paid
                /\ UNCHANGED <<transfer, Paid>>
  <2>1. UNCHANGED <<transfer, Paid>> /\ credit' = "SUCCESSFUL" /\ run[r].pc = "complete"
    BY <1>1, <1>5 DEF CompleteCredit
  <2>2. Paid
    BY <2>1 DEF FundInv, RunsStand, Stands
  <2>3. credit \in {"PENDING", "SUCCESSFUL"}
    BY <2>2, RowTypes DEF FundInv, Paid, DueInv, ChargedHasCredit
  <2> QED
    BY <2>1, <2>2, <2>3
<1>6. ASSUME NEW r \in Runners,
             \/ \E c \in Charges : Take(r, c)
             \/ Work(r) \/ VerifyUnknown(r) \/ Throw(r) \/ Crash(r),
             ~ CompleteCredit(r)
      PROVE  UNCHANGED <<credit, Paid>>
  BY <1>1, <1>6 DEF Take, Work, LoadEvent, FindTransfer, Verify, FailTransfer,
                    FindCredits, UpdateTransfer, MarkProcessed, MarkFailed, Complete,
                    VerifyUnknown, Throw, Crash, creation
<1>7. ASSUME NEW c \in Charges, Pay(c)
      PROVE  \/ UNCHANGED <<credit, Paid>>
             \/ /\ credit # "none" /\ ~ Paid /\ Paid'
                /\ UNCHANGED <<transfer, credit>>
  <2>1. UNCHANGED <<transfer, credit>> /\ credit # "none"
    BY <1>7 DEF Pay, creation, CreditFirst, PayableHasCredit
  <2>2. Paid => Paid'
    <3>1. charge \in [Charges -> ChargeStates] /\ charge[c] # "successful"
      BY <1>7, RowTypes DEF FundInv, Pay
    <3>2. \A d \in Charges \ {c} : charge'[d] = charge[d]
      BY <1>7, <3>1 DEF Pay
    <3> QED
      BY <3>1, <3>2 DEF Paid
  <2>3. Paid \in BOOLEAN
    BY DEF Paid
  <2>4. Paid' \in BOOLEAN
    BY DEF Paid
  <2> QED
    BY <2>1, <2>2, <2>3, <2>4
<1>8. ASSUME NEW c \in Charges, RequeueAbandoned(c) \/ RequeueSlow(c)
      PROVE  UNCHANGED <<credit, Paid>>
  BY <1>1, <1>8 DEF RequeueAbandoned, RequeueSlow, creation
<1>9. CASE UNCHANGED vars
  BY <1>1, <1>9 DEF vars, creation
<1> QED
  BY <1>2, <1>3, <1>4, <1>5, <1>6, <1>7, <1>8, <1>9 DEF Next

LEMMA StepKeepsPromise ==
  ASSUME FundInv, FundInv', CreditFirst, DueInv, [Next]_vars
  PROVE  [Promise!Next]_(Promise!vars)
<1>1. /\ credit \in {"none", "PENDING", "SUCCESSFUL"} /\ Paid \in BOOLEAN
      /\ Paid => credit # "none"
      /\ credit = "SUCCESSFUL" => Paid
  BY RowTypes DEF FundInv, CreditedOnlyIfPaid, DueInv, ChargedHasCredit, Paid
<1>2. CASE UNCHANGED <<credit, Paid>>
  <2>1. Money' = Money
    BY <1>2 DEF Money
  <2>2. transfer'.status \in Promise!Statuses
    BY DEF FundInv, TypeOK, Promise!Statuses
  <2>3. transfer'.status = "SUCCESSFUL" => Money = "credited"
    BY <1>2 DEF FundInv, SuccessIsCredited, Money
  <2> QED
    BY <2>1, <2>2, <2>3 DEF Promise!Next, Promise!Tell
<1>3. CASE credit = "none" /\ credit' = "PENDING" /\ UNCHANGED <<transfer, Paid>>
  <2>1. Money = "none" /\ Money' = "announced"
    BY <1>1, <1>3 DEF Money
  <2> QED
    BY <1>3, <2>1 DEF Promise!Next, Promise!Announce
<1>4. CASE credit # "none" /\ ~ Paid /\ Paid' /\ UNCHANGED <<transfer, credit>>
  <2>1. Money = "announced" /\ Money' = "paid"
    BY <1>1, <1>4 DEF Money
  <2> QED
    BY <1>4, <2>1 DEF Promise!Next, Promise!Pay
<1>5. CASE /\ credit = "PENDING" /\ credit' = "SUCCESSFUL" /\ Paid
           /\ UNCHANGED <<transfer, Paid>>
  <2>1. Money = "paid" /\ Money' = "credited"
    BY <1>5 DEF Money
  <2> QED
    BY <1>5, <2>1 DEF Promise!Next, Promise!Credit
<1> QED
  BY <1>2, <1>3, <1>4, <1>5, MoneyMovers

(* Whatever fails, is repeated or overlaps, a funding is announced, paid   *)
(* and credited, in this order and each once, and its status does not say  *)
(* SUCCESSFUL before (transfer-create.service.ts,                          *)
(* transfer-complete.service.ts).                                          *)
THEOREM FundingKeepsItsPromise == Spec => ImplementsPayment
<1>1. Init => /\ CreditFirst /\ DueInv
              /\ Promise!Init
  <2>1. Init => ~ Paid
    BY DEF Init, Paid
  <2> QED
    BY <2>1, DueInvInit DEF Init, CreditFirst, PayableHasCredit, LinkAfterCredit,
                            Money, Promise!Init
<1>2. FundInv /\ CreditFirst /\ DueInv /\ [Next]_vars => (CreditFirst /\ DueInv)'
  BY CreditFirstNext, DueInvNext DEF FundInv
<1>3. FundInv /\ FundInv' /\ CreditFirst /\ DueInv /\ [Next]_vars
        => [Promise!Next]_(Promise!vars)
  BY StepKeepsPromise
<1> QED
  BY <1>1, <1>2, <1>3, FundInvariant, PTL DEF Spec, ImplementsPayment, Promise!Spec
=============================================================================
