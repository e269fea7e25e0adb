-------------------------- MODULE BankPayoutProofs --------------------------
(***************************************************************************)
(* The safety of a payout, for any number of runs and faults, any attempts *)
(* of the jobs, and any of the accounts.                                   *)
(***************************************************************************)
EXTENDS BankPayout, TLAPS

Answers == {"none", "PENDING", "SUCCESSFUL", "FAILED"}

RunRecord == [job : Jobs, pc : Labels, answer : Answers]

(* A job that a worker holds is marked so; one that will be run again has  *)
(* an attempt left, and was taken from a worker at most once.              *)
GoodJob(job, max) ==
  /\ job \in Job
  /\ job.state = "active" <=> job.owner \in Runners
  /\ job.attempts <= max
  /\ job.state \in {"waiting", "active"} => job.attempts < max /\ job.stalls <= 1

JobsGood ==
  /\ jobs \in [Jobs -> Job]
  /\ \A j \in Jobs : GoodJob(jobs[j], MaxAttempts[j])

PayoutTypes == TypeOK /\ JobsGood

(* The provider stands by what it did with the reference: it always does   *)
(* for the accounts of the mock, which answers each request alike.         *)
Dependable ==
  account \in MockAccounts \/ (~ RejectsDuplicates /\ RefusalsFinal /\ ErrorsSure)

(* What a run at label, with this answer, has learnt of the provider and   *)
(* the journal.                                                            *)
Knows(label, answer, prov, rev) ==
  /\ label = "update" /\ answer = "SUCCESSFUL" => prov = "paid"
  /\ label = "settle" => prov = "paid"
  /\ label \in {"reverse", "mark"} => prov \in {"refused", "failed"}
  /\ label = "mark" => rev

RunsKnow ==
  \A r \in Runners : Knows(run[r].pc, run[r].answer, provider, reversed)

ReversedFailed == reversed => provider \in {"refused", "failed"}

(* What the mock does with the reference is what the account says.         *)
MockConsistent ==
  /\ account = "000" => provider \in {"unasked", "refused"}
  /\ account = "999" => provider \in {"unasked", "failed"}
  /\ account = "other" => provider \in {"unasked", "paid"}

Sound == RunsKnow /\ ReversedFailed /\ StatusTruthful /\ MockConsistent

(* The inductive invariant.                                                *)
PayoutInv == PayoutTypes /\ (Dependable => Sound)

(* An accepted withdrawal whose payout job waits satisfies the invariant.  *)
LEMMA PayoutInvInit == Init => PayoutInv
<1> SUFFICES ASSUME Init PROVE PayoutInv
  OBVIOUS
<1>1. \A state \in {"absent", "waiting"}, max \in Nat \ {0} :
        GoodJob(NewJob(state), max)
  BY RunnersAssumption DEF GoodJob, NewJob, Job
<1>2. JobsGood
  BY <1>1, AttemptsAssumption DEF Init, JobsGood, Jobs, GoodJob
<1>3. IdleRun \in RunRecord
  BY DEF IdleRun, RunRecord, Jobs, Labels, Answers
<1>4. TypeOK
  <2>1. /\ jobs \in [Jobs -> Job]
        /\ \A j \in Jobs : /\ jobs[j].attempts <= MaxAttempts[j]
                           /\ jobs[j].state = "active" <=> jobs[j].owner \in Runners
    BY <1>2 DEF Init, JobsGood, GoodJob
  <2>2. run \in [Runners -> RunRecord]
    BY <1>3 DEF Init
  <2>3. /\ faults \in [FaultKinds -> Nat]
        /\ \A kind \in FaultKinds : faults[kind] <= MaxFaults[kind]
    BY AttemptsAssumption DEF Init
  <2> QED
    BY <2>1, <2>2, <2>3 DEF Init, TypeOK, RunRecord, Answers
<1>5. Sound
  BY DEF Init, Sound, RunsKnow, Knows, IdleRun, ReversedFailed, StatusTruthful,
         MockConsistent
<1> QED
  BY <1>2, <1>4, <1>5 DEF PayoutInv, PayoutTypes

-----------------------------------------------------------------------------
(* The jobs in the queue.                                                  *)

(* The updates of a record of four fields that Retried and Requeued make.  *)
LEMMA JobUpdates ==
  ASSUME NEW S, NEW A, NEW B, NEW O,
         NEW job \in [state : S, attempts : A, stalls : B, owner : O],
         NEW s \in S, NEW o \in O
  PROVE  /\ \A a \in A : [job EXCEPT !.state = s, !.attempts = a, !.owner = o]
                          \in [state : S, attempts : A, stalls : B, owner : O]
         /\ \A b \in B : [job EXCEPT !.state = s, !.stalls = b, !.owner = o]
                          \in [state : S, attempts : A, stalls : B, owner : O]
OBVIOUS

(* Adding a job, taking it and removing it leave a good job.               *)
LEMMA GoodPlain ==
  ASSUME NEW max \in Nat \ {0}, NEW job, GoodJob(job, max), NEW r \in Runners
  PROVE  /\ GoodJob(NewJob("absent"), max)
         /\ GoodJob(Added(job), max)
         /\ job.state = "waiting" => GoodJob(Taken(job, r), max)
<1>1. GoodJob(NewJob("absent"), max) /\ GoodJob(NewJob("waiting"), max)
  BY RunnersAssumption DEF GoodJob, NewJob, Job
<1>2. GoodJob(Added(job), max)
  BY <1>1 DEF Added
<1>3. job.state = "waiting" => GoodJob(Taken(job, r), max)
  BY DEF GoodJob, Taken, Job
<1> QED
  BY <1>1, <1>2, <1>3

(* So does an attempt that failed, of a job that a worker holds.           *)
LEMMA GoodRetried ==
  ASSUME NEW max \in Nat \ {0}, NEW job, GoodJob(job, max), job.state = "active"
  PROVE  GoodJob(Retried(job, max), max)
<1> DEFINE state == IF job.attempts + 1 < max THEN "waiting" ELSE "failed"
           retried == Retried(job, max)
<1>1. /\ job.attempts \in Nat /\ job.attempts + 1 \in Nat
      /\ job.attempts + 1 <= max /\ job.stalls <= 1
  BY DEF GoodJob, Job
<1>2. retried = [job EXCEPT !.state = state, !.attempts = job.attempts + 1,
                            !.owner = NoRunner]
  BY DEF Retried
<1>3. /\ state \in {"waiting", "failed"}
      /\ state = "waiting" => job.attempts + 1 < max
  OBVIOUS
<1> HIDE DEF state
<1>4. retried \in Job
  <2>1. state \in {"absent", "waiting", "active", "failed"}
    BY <1>3
  <2>2. \A n \in Nat : [job EXCEPT !.state = state, !.attempts = n,
                                   !.owner = NoRunner] \in Job
    BY <2>1, JobUpdates, Zenon DEF Job, GoodJob
  <2> QED
    BY <1>1, <1>2, <2>2, Zenon
<1>5. /\ retried.state = state /\ retried.owner = NoRunner
      /\ retried.stalls = job.stalls /\ retried.attempts = job.attempts + 1
  BY <1>2 DEF GoodJob, Job
<1> QED
  BY <1>1, <1>3, <1>4, <1>5, RunnersAssumption DEF GoodJob

(* And so does a lock that ran out.                                        *)
LEMMA GoodRequeued ==
  ASSUME NEW max \in Nat \ {0}, NEW job, GoodJob(job, max), job.state = "active"
  PROVE  GoodJob(Requeued(job), max)
<1> DEFINE state == IF job.stalls = 0 THEN "waiting" ELSE "failed"
           requeued == Requeued(job)
<1>1. /\ job.attempts \in Nat /\ job.attempts < max
      /\ job.stalls \in 0 .. 2 /\ job.stalls <= 1
  BY DEF GoodJob, Job
<1>2. requeued = [job EXCEPT !.state = state, !.stalls = job.stalls + 1,
                             !.owner = NoRunner]
  BY DEF Requeued
<1>3. /\ state \in {"waiting", "failed"}
      /\ state = "waiting" => job.stalls + 1 <= 1
      /\ job.stalls + 1 \in 0 .. 2
  BY <1>1
<1> HIDE DEF state
<1>4. requeued \in Job
  <2>1. state \in {"absent", "waiting", "active", "failed"}
    BY <1>3
  <2>2. \A n \in 0 .. 2 : [job EXCEPT !.state = state, !.stalls = n,
                                       !.owner = NoRunner] \in Job
    BY <2>1, JobUpdates, Zenon DEF Job, GoodJob
  <2> QED
    BY <1>2, <1>3, <2>2, Zenon
<1>5. /\ requeued.state = state /\ requeued.owner = NoRunner
      /\ requeued.stalls = job.stalls + 1 /\ requeued.attempts = job.attempts
  BY <1>2 DEF GoodJob, Job
<1> QED
  BY <1>1, <1>3, <1>4, <1>5, RunnersAssumption DEF GoodJob

(* Replacing one job by a good one.                                        *)
LEMMA JobReplaced ==
  ASSUME JobsGood, NEW j \in Jobs, NEW job, GoodJob(job, MaxAttempts[j]),
         jobs' = [jobs EXCEPT ![j] = job]
  PROVE  JobsGood'
<1>1. jobs' \in [Jobs -> Job]
  BY DEF JobsGood, GoodJob
<1>2. ASSUME NEW k \in Jobs PROVE GoodJob(jobs'[k], MaxAttempts[k])
  <2>1. CASE k = j
    BY <2>1 DEF JobsGood
  <2>2. CASE k # j
    <3>1. jobs'[k] = jobs[k]
      BY <2>2 DEF JobsGood
    <3> QED
      BY <3>1 DEF JobsGood
  <2> QED
    BY <2>1, <2>2
<1> QED
  BY <1>1, <1>2 DEF JobsGood, GoodJob

FaultsOK ==
  /\ faults \in [FaultKinds -> Nat]
  /\ \A kind \in FaultKinds : faults[kind] <= MaxFaults[kind]

(* A count of faults stays within its bound.                               *)
LEMMA FaultCounted ==
  ASSUME TypeOK, NEW kind \in FaultKinds, Fault(kind)
  PROVE  FaultsOK'
<1>1. /\ faults \in [FaultKinds -> Nat]
      /\ \A k \in FaultKinds : faults[k] <= MaxFaults[k] /\ MaxFaults[k] \in Nat
  BY AttemptsAssumption DEF TypeOK
<1>2. /\ faults[kind] < MaxFaults[kind]
      /\ faults' = [faults EXCEPT ![kind] = faults[kind] + 1]
  BY DEF Fault
<1>3. faults' \in [FaultKinds -> Nat]
  BY <1>1, <1>2
<1>4. \A k \in FaultKinds : faults'[k] <= MaxFaults[k]
  BY <1>1, <1>2
<1> QED
  BY <1>3, <1>4 DEF FaultsOK

-----------------------------------------------------------------------------
(* Run r goes on at label, with this answer.                               *)
Moves(r, label, answer) ==
  \E rec \in RunRecord : /\ rec.pc = label /\ rec.answer = answer
                         /\ run' = [run EXCEPT ![r] = rec]

(* What is left to check of a step of a run once it is known how the run   *)
(* goes on and what it writes.                                             *)
LEMMA RunStep ==
  ASSUME PayoutInv, NEW r \in Runners, NEW label, NEW answer,
         Moves(r, label, answer), account' = account,
         status' \in {"PROCESSING", "SUCCESSFUL", "REVERSED"},
         transferId' \in BOOLEAN, reversed' \in BOOLEAN, reversed => reversed',
         provider' \in {"unasked", "refused", "pending", "paid", "failed"},
         JobsGood', FaultsOK',
         Dependable =>
           /\ provider \in {"refused", "paid", "failed"} => provider' = provider
           /\ Knows(label, answer, provider', reversed')
           /\ reversed' => provider' \in {"refused", "failed"}
           /\ status' = "SUCCESSFUL" => provider' = "paid"
           /\ status' = "REVERSED" => reversed'
           /\ MockConsistent'
  PROVE  PayoutInv'
<1>1. PICK rec \in RunRecord : /\ rec.pc = label /\ rec.answer = answer
                               /\ run' = [run EXCEPT ![r] = rec]
  BY DEF Moves
<1>2. run \in [Runners -> RunRecord]
  BY DEF PayoutInv, PayoutTypes, TypeOK, RunRecord, Answers
<1>3. /\ run' \in [Runners -> RunRecord]
      /\ run'[r] = rec
      /\ \A o \in Runners \ {r} : run'[o] = run[o]
  BY <1>1, <1>2
<1>4. PayoutTypes'
  <2>1. \A j \in Jobs : /\ jobs'[j].attempts <= MaxAttempts[j]
                        /\ jobs'[j].state = "active" <=> jobs'[j].owner \in Runners
    BY DEF JobsGood, GoodJob
  <2>2. jobs' \in [Jobs -> Job]
    BY DEF JobsGood
  <2>3. account' \in Accounts
    BY DEF PayoutInv, PayoutTypes, TypeOK
  <2> QED
    BY <1>3, <2>1, <2>2, <2>3 DEF PayoutTypes, TypeOK, RunRecord, Answers, FaultsOK
<1>5. ASSUME Dependable' PROVE Sound'
  <2>1. Dependable
    BY <1>5 DEF Dependable
  <2>2. Sound
    BY <2>1 DEF PayoutInv
  <2>3. RunsKnow'
    <3> SUFFICES ASSUME NEW o \in Runners
                 PROVE  Knows(run'[o].pc, run'[o].answer, provider', reversed')
      BY DEF RunsKnow, Knows
    <3>1. CASE o = r
      BY <3>1, <1>1, <1>3, <2>1
    <3>2. CASE o # r
      <4>1. Knows(run[o].pc, run[o].answer, provider, reversed)
        BY <2>2 DEF Sound, RunsKnow
      <4>2. run'[o] = run[o]
        BY <1>3, <3>2
      <4> QED
        BY <2>1, <4>1, <4>2 DEF Knows
    <3> QED
      BY <3>1, <3>2
  <2>4. ReversedFailed' /\ StatusTruthful' /\ MockConsistent'
    BY <2>1 DEF ReversedFailed, StatusTruthful
  <2> QED
    BY <2>3, <2>4 DEF Sound
<1> QED
  BY <1>4, <1>5 DEF PayoutInv

(* A run that goes to another label.                                       *)
LEMMA GotoMoves ==
  ASSUME TypeOK, NEW r \in Runners, NEW label \in Labels, Goto(r, label)
  PROVE  Moves(r, label, run[r].answer)
<1> DEFINE rec == [run[r] EXCEPT !.pc = label]
<1>1. run \in [Runners -> RunRecord]
  BY DEF TypeOK, RunRecord, Answers
<1>2. rec \in RunRecord /\ rec.pc = label /\ rec.answer = run[r].answer
  BY <1>1 DEF RunRecord
<1>3. run' = [run EXCEPT ![r] = rec]
  BY <1>1 DEF Goto
<1> QED
  BY <1>2, <1>3 DEF Moves

LEMMA IdleMoves ==
  ASSUME NEW r, run' = [run EXCEPT ![r] = IdleRun]
  PROVE  Moves(r, "idle", "none")
<1>1. IdleRun \in RunRecord /\ IdleRun.pc = "idle" /\ IdleRun.answer = "none"
  BY DEF IdleRun, RunRecord, Jobs, Labels, Answers
<1> QED
  BY <1>1 DEF Moves

(* Each job of the queue is a good one, with at least one attempt.         *)
LEMMA EachJobGood ==
  ASSUME PayoutInv, NEW j \in Jobs
  PROVE  GoodJob(jobs[j], MaxAttempts[j]) /\ MaxAttempts[j] \in Nat \ {0}
BY AttemptsAssumption DEF PayoutInv, PayoutTypes, JobsGood

(* A run that throws goes idle, and its job is retried or has failed.      *)
LEMMA EndAttemptEffect ==
  ASSUME PayoutInv, NEW r \in Runners, EndAttempt(r)
  PROVE  Moves(r, "idle", "none") /\ JobsGood'
<1>1. Moves(r, "idle", "none")
  BY IdleMoves DEF EndAttempt
<1>2. run[r].job \in Jobs
  BY DEF PayoutInv, PayoutTypes, TypeOK
<1>3. CASE Owns(r)
  <2>1. jobs[run[r].job].state = "active"
    BY <1>2, <1>3, EachJobGood DEF Owns, GoodJob
  <2>2. GoodJob(Retried(jobs[run[r].job], MaxAttempts[run[r].job]),
                MaxAttempts[run[r].job])
    BY <1>2, <2>1, EachJobGood, GoodRetried
  <2>3. jobs' = [jobs EXCEPT ![run[r].job] =
                   Retried(jobs[run[r].job], MaxAttempts[run[r].job])]
    BY <1>3 DEF EndAttempt
  <2>4. JobsGood
    BY DEF PayoutInv, PayoutTypes
  <2> QED
    BY <1>1, <1>2, <2>2, <2>3, <2>4, JobReplaced
<1>4. CASE ~ Owns(r)
  BY <1>1, <1>4 DEF EndAttempt, PayoutInv, PayoutTypes, JobsGood, GoodJob
<1> QED
  BY <1>1, <1>3, <1>4

-----------------------------------------------------------------------------
(* What a step that leaves the provider alone keeps.                       *)
LEMMA Unasked ==
  ASSUME PayoutInv, UNCHANGED <<account, provider>>
  PROVE  Dependable => Sound /\ MockConsistent'
BY DEF PayoutInv, Sound, MockConsistent

(* The types of what a step may leave alone.                               *)
LEMMA Types ==
  ASSUME PayoutInv
  PROVE  /\ account \in Accounts
         /\ status \in {"PROCESSING", "SUCCESSFUL", "REVERSED"}
         /\ transferId \in BOOLEAN /\ reversed \in BOOLEAN
         /\ provider \in {"unasked", "refused", "pending", "paid", "failed"}
         /\ run \in [Runners -> RunRecord]
         /\ JobsGood /\ FaultsOK
         /\ jobs' = jobs => JobsGood'
         /\ faults' = faults => FaultsOK'
BY DEF PayoutInv, PayoutTypes, TypeOK, RunRecord, Answers, FaultsOK, JobsGood, GoodJob

(* A worker takes a job, completes it, or a run of it throws or dies.      *)
LEMMA QueueStep ==
  ASSUME PayoutInv, NEW r \in Runners, NEW j \in Jobs,
         Take(r, j) \/ Complete(r) \/ PollPending(r) \/ Throw(r) \/ Crash(r)
  PROVE  PayoutInv'
<1>1. UNCHANGED <<account, status, transferId, reversed, provider>>
  BY DEF Take, Complete, PollPending, Throw, Crash
<1>2. PICK label \in {"load", "idle"} : Moves(r, label, "none")
  <2>1. CASE Take(r, j)
    <3> DEFINE rec == [IdleRun EXCEPT !.job = j, !.pc = "load"]
    <3>1. rec \in RunRecord /\ rec.pc = "load" /\ rec.answer = "none"
      BY DEF IdleRun, RunRecord, Jobs, Labels, Answers
    <3> QED
      BY <2>1, <3>1 DEF Take, Moves
  <2>2. CASE Complete(r) \/ Crash(r)
    BY <2>2, IdleMoves DEF Complete, Crash
  <2>3. CASE PollPending(r) \/ Throw(r)
    BY <2>3, EndAttemptEffect DEF PollPending, Throw
  <2> QED
    BY <2>1, <2>2, <2>3
<1>3. JobsGood'
  <2>1. CASE Take(r, j)
    <3>1. GoodJob(Taken(jobs[j], r), MaxAttempts[j])
      BY <2>1, EachJobGood, GoodPlain DEF Take
    <3> QED
      BY <2>1, <3>1, Types, JobReplaced DEF Take
  <2>2. CASE Complete(r)
    <3>1. run[r].job \in Jobs
      BY Types DEF RunRecord
    <3>2. GoodJob(NewJob("absent"), MaxAttempts[run[r].job])
      BY <3>1, EachJobGood, GoodPlain
    <3>3. jobs' = jobs \/ jobs' = [jobs EXCEPT ![run[r].job] = NewJob("absent")]
      BY <2>2 DEF Complete
    <3> QED
      BY <3>1, <3>2, <3>3, Types, JobReplaced
  <2>3. CASE PollPending(r) \/ Throw(r)
    BY <2>3, EndAttemptEffect DEF PollPending, Throw
  <2>4. CASE Crash(r)
    BY <2>4, Types DEF Crash
  <2> QED
    BY <2>1, <2>2, <2>3, <2>4
<1>4. FaultsOK'
  <2>1. CASE Throw(r) \/ Crash(r)
    BY <2>1, FaultCounted DEF Throw, Crash, FaultKinds, PayoutInv, PayoutTypes
  <2>2. CASE Take(r, j) \/ Complete(r) \/ PollPending(r)
    BY <2>2, Types DEF Take, Complete, PollPending
  <2> QED
    BY <2>1, <2>2
<1>5. Knows(label, "none", provider', reversed')
  BY DEF Knows
<1> QED
  BY <1>1, <1>2, <1>3, <1>4, <1>5, Types, Unasked, RunStep
     DEF Sound, ReversedFailed, StatusTruthful

(* A run asks the provider to pay.                                         *)
LEMMA InitiateStep ==
  ASSUME PayoutInv, NEW r \in Runners, Initiate(r)
  PROVE  PayoutInv'
<1>1. PICK reaction \in Reactions :
        /\ provider' = reaction[1]
        /\ run' = [run EXCEPT ![r].answer = reaction[2],
                              ![r].pc = IF reaction[2] = "FAILED" THEN "reverse"
                                                                  ELSE "update"]
  BY DEF Initiate
<1>2. /\ UNCHANGED <<account, status, transferId, reversed, jobs, faults>>
      /\ FaultsOK' /\ JobsGood'
  BY Types DEF Initiate
<1>3. /\ reaction[1] \in {"refused", "pending", "paid", "failed"}
      /\ reaction[2] \in {"PENDING", "SUCCESSFUL", "FAILED"}
  BY <1>1 DEF Reactions, Errors, MockReaction, AnswerFor
<1>4. ASSUME Dependable
      PROVE  /\ provider \in {"refused", "paid", "failed"} => provider' = provider
             /\ MockConsistent'
             /\ reaction[2] = "FAILED" => provider' \in {"refused", "failed"}
             /\ reaction[2] = "SUCCESSFUL" => provider' = "paid"
  <2>1. Sound
    BY <1>4 DEF PayoutInv
  <2>2. CASE account \in MockAccounts
    <3>1. reaction = MockReaction(account)
      BY <1>1, <2>2 DEF Reactions
    <3> QED
      BY <1>1, <1>2, <2>1, <2>2, <3>1 DEF Sound, MockConsistent, MockReaction, MockAccounts
  <2>3. CASE account \notin MockAccounts
    <3>1. ~ RejectsDuplicates /\ RefusalsFinal /\ Errors = {}
      BY <1>4, <2>3 DEF Dependable, Errors
    <3>2. /\ reaction[2] = AnswerFor[reaction[1]]
          /\ provider \in {"refused", "paid", "failed"} => reaction[1] = provider
      BY <1>1, <2>3, <3>1 DEF Reactions, AnswerFor
    <3>3. MockConsistent'
      BY <1>2, <2>3 DEF MockConsistent, MockAccounts
    <3> QED
      BY <1>1, <1>3, <3>2, <3>3 DEF AnswerFor
  <2> QED
    BY <2>2, <2>3
<1> DEFINE label == IF reaction[2] = "FAILED" THEN "reverse" ELSE "update"
           rec == [run[r] EXCEPT !.answer = reaction[2], !.pc = label]
<1>5. Moves(r, label, reaction[2])
  <2>1. label \in Labels /\ reaction[2] \in Answers
    BY <1>3 DEF Labels, Answers
  <2> HIDE DEF label
  <2>2. run[r] \in RunRecord
    BY Types
  <2>3. rec \in RunRecord /\ rec.pc = label /\ rec.answer = reaction[2]
    BY <2>1, <2>2 DEF RunRecord
  <2>4. run' = [run EXCEPT ![r] = rec]
    BY <1>1, Types DEF label
  <2> QED
    BY <2>3, <2>4 DEF Moves
<1>6. Dependable => Knows(label, reaction[2], provider', reversed')
  BY <1>4 DEF Knows
<1>7. Dependable => /\ reversed' => provider' \in {"refused", "failed"}
                    /\ status' = "SUCCESSFUL" => provider' = "paid"
                    /\ status' = "REVERSED" => reversed'
  BY <1>2, <1>4 DEF PayoutInv, Sound, ReversedFailed, StatusTruthful
<1> HIDE DEF label
<1> QED
  BY <1>1, <1>2, <1>3, <1>4, <1>5, <1>6, <1>7, Types, RunStep

(* A run reads or writes the database, asks how the payment ended, or adds *)
(* the settle job.                                                         *)
LEMMA DatabaseStep ==
  ASSUME PayoutInv, NEW r \in Runners,
         \/ Load(r) \/ UpdateStatus(r) \/ AddSettle(r) \/ Poll(r)
         \/ SettleSuccessful(r) \/ PostReversal(r) \/ MarkReversed(r)
  PROVE  PayoutInv'
<1>1. TypeOK /\ run[r] \in RunRecord /\ run[r].answer \in Answers
  BY Types DEF PayoutInv, PayoutTypes, RunRecord
<1>2. account' = account /\ provider' = provider
  BY DEF Load, UpdateStatus, AddSettle, Poll, SettleSuccessful, PostReversal, MarkReversed
<1>3. ASSUME NEW label \in Labels, Goto(r, label),
             status' \in {"PROCESSING", "SUCCESSFUL", "REVERSED"},
             transferId' \in BOOLEAN, reversed' \in BOOLEAN, reversed => reversed',
             JobsGood', FaultsOK',
             Dependable => /\ Knows(label, run[r].answer, provider, reversed')
                           /\ reversed' => provider \in {"refused", "failed"}
                           /\ status' = "SUCCESSFUL" => provider = "paid"
                           /\ status' = "REVERSED" => reversed'
      PROVE  PayoutInv'
  <2>1. Moves(r, label, run[r].answer)
    BY <1>1, <1>3, GotoMoves
  <2> QED
    BY <1>1, <1>2, <1>3, <2>1, Types, Unasked, RunStep
<1>4. Dependable => /\ Knows(run[r].pc, run[r].answer, provider, reversed)
                    /\ reversed => provider \in {"refused", "failed"}
                    /\ status = "SUCCESSFUL" => provider = "paid"
                    /\ status = "REVERSED" => reversed
  BY DEF PayoutInv, Sound, RunsKnow, ReversedFailed, StatusTruthful
<1>5. CASE Load(r)
  <2>1. PICK label \in {"done", "initiate", "poll"} : Goto(r, label)
    BY <1>5 DEF Load
  <2>2. UNCHANGED <<status, transferId, reversed, jobs, faults>>
    BY <1>5 DEF Load
  <2>3. label \in Labels /\ Knows(label, run[r].answer, provider, reversed')
    BY DEF Labels, Knows
  <2> QED
    BY <1>3, <1>4, <2>1, <2>2, <2>3, Types
<1>6. CASE UpdateStatus(r)
  <2>1. PICK label \in {"done", "add settle"} : Goto(r, label)
    BY <1>6 DEF UpdateStatus
  <2>2. /\ UNCHANGED <<reversed, jobs>> /\ transferId' \in BOOLEAN
        /\ run[r].pc = "update"
        /\ \/ status' = "PROCESSING"
           \/ status' = "SUCCESSFUL" /\ run[r].answer = "SUCCESSFUL"
    BY <1>6 DEF UpdateStatus
  <2>3. FaultsOK'
    <3>1. faults' = faults \/ Fault("no id")
      BY <1>6 DEF UpdateStatus
    <3> QED
      BY <1>1, <3>1, Types, FaultCounted DEF FaultKinds
  <2>4. Dependable /\ status' = "SUCCESSFUL" => provider = "paid"
    BY <1>4, <2>2 DEF Knows
  <2>5. label \in Labels /\ Knows(label, run[r].answer, provider, reversed')
    BY DEF Labels, Knows
  <2> QED
    BY <1>3, <1>4, <2>1, <2>2, <2>3, <2>4, <2>5, Types
<1>7. CASE AddSettle(r)
  <2>1. UNCHANGED <<status, transferId, reversed, faults>> /\ Goto(r, "done")
    BY <1>7 DEF AddSettle
  <2>2. GoodJob(Added(jobs["settle"]), MaxAttempts["settle"])
    BY EachJobGood, GoodPlain DEF Jobs
  <2>3. JobsGood'
    BY <1>7, <2>2, Types, JobReplaced DEF AddSettle, Jobs
  <2>4. "done" \in Labels /\ Knows("done", run[r].answer, provider, reversed')
    BY DEF Labels, Knows
  <2> QED
    BY <1>3, <1>4, <2>1, <2>3, <2>4, Types
<1>8. CASE Poll(r)
  <2>1. PICK label \in {"settle", "reverse"} :
          /\ Goto(r, label)
          /\ label = "settle" => provider = "paid"
          /\ label = "reverse" => provider = "failed"
    BY <1>8 DEF Poll
  <2>2. UNCHANGED <<status, transferId, reversed, jobs, faults>>
    BY <1>8 DEF Poll
  <2>3. label \in Labels /\ Knows(label, run[r].answer, provider, reversed')
    BY <2>1 DEF Labels, Knows
  <2> QED
    BY <1>3, <1>4, <2>1, <2>2, <2>3, Types
<1>9. CASE SettleSuccessful(r)
  <2>1. /\ UNCHANGED <<transferId, reversed, jobs, faults>> /\ Goto(r, "done")
        /\ run[r].pc = "settle" /\ status' = "SUCCESSFUL"
    BY <1>9 DEF SettleSuccessful
  <2>2. Dependable => provider = "paid"
    BY <1>4, <2>1 DEF Knows
  <2>3. "done" \in Labels /\ Knows("done", run[r].answer, provider, reversed')
    BY DEF Labels, Knows
  <2> QED
    BY <1>3, <1>4, <2>1, <2>2, <2>3, Types
<1>10. CASE PostReversal(r)
  <2>1. /\ UNCHANGED <<status, transferId, jobs, faults>> /\ Goto(r, "mark")
        /\ run[r].pc = "reverse" /\ reversed' = TRUE
    BY <1>10 DEF PostReversal
  <2>2. Dependable => provider \in {"refused", "failed"}
    BY <1>4, <2>1 DEF Knows
  <2>3. "mark" \in Labels
        /\ (Dependable => Knows("mark", run[r].answer, provider, reversed'))
    BY <2>1, <2>2 DEF Labels, Knows
  <2> QED
    BY <1>3, <1>4, <2>1, <2>2, <2>3, Types
<1>11. CASE MarkReversed(r)
  <2>1. /\ UNCHANGED <<transferId, reversed, jobs, faults>> /\ Goto(r, "done")
        /\ run[r].pc = "mark" /\ status' = "REVERSED"
    BY <1>11 DEF MarkReversed
  <2>2. Dependable => reversed
    BY <1>4, <2>1 DEF Knows
  <2>3. "done" \in Labels /\ Knows("done", run[r].answer, provider, reversed')
    BY DEF Labels, Knows
  <2> QED
    BY <1>3, <1>4, <2>1, <2>2, <2>3, Types
<1> QED
  BY <1>5, <1>6, <1>7, <1>8, <1>9, <1>10, <1>11

(* A step of the queue or the provider, which no run takes.                *)
LEMMA OutsideStep ==
  ASSUME PayoutInv,
         \/ \E j \in Jobs : RequeueAbandoned(j) \/ RequeueSlow(j)
         \/ ProviderDecides
         \/ UNCHANGED vars
  PROVE  PayoutInv'
<1>1. UNCHANGED <<account, status, transferId, reversed, run>>
  BY DEF RequeueAbandoned, RequeueSlow, ProviderDecides, vars
<1>2. JobsGood'
  <2>1. CASE jobs' = jobs
    BY <2>1, Types
  <2>2. ASSUME NEW j \in Jobs, RequeueAbandoned(j) \/ RequeueSlow(j)
        PROVE  JobsGood'
    <3>1. jobs[j].state = "active" /\ jobs' = [jobs EXCEPT ![j] = Requeued(jobs[j])]
      BY <2>2 DEF RequeueAbandoned, RequeueSlow, Abandoned
    <3>2. GoodJob(Requeued(jobs[j]), MaxAttempts[j])
      BY <3>1, EachJobGood, GoodRequeued
    <3> QED
      BY <3>1, <3>2, Types, JobReplaced
  <2> QED
    BY <2>1, <2>2 DEF ProviderDecides, vars
<1>3. FaultsOK'
  BY Types, FaultCounted
     DEF PayoutInv, PayoutTypes, FaultKinds, RequeueAbandoned, RequeueSlow,
         ProviderDecides, vars
<1>4. \/ provider' = provider
      \/ provider = "pending" /\ provider' \in {"paid", "failed"}
  BY DEF RequeueAbandoned, RequeueSlow, ProviderDecides, vars
<1>5. PayoutTypes'
  <2>1. \A j \in Jobs : /\ jobs'[j].attempts <= MaxAttempts[j]
                        /\ jobs'[j].state = "active" <=> jobs'[j].owner \in Runners
    BY <1>2 DEF JobsGood, GoodJob
  <2>2. jobs' \in [Jobs -> Job]
    BY <1>2 DEF JobsGood
  <2> QED
    BY <1>1, <1>2, <1>3, <1>4, <2>1, <2>2, Types
       DEF PayoutTypes, TypeOK, RunRecord, Answers, FaultsOK
<1>6. ASSUME Dependable' PROVE Sound'
  <2>1. Sound
    BY <1>1, <1>6 DEF Dependable, PayoutInv
  <2>2. RunsKnow' /\ ReversedFailed' /\ StatusTruthful'
    BY <1>1, <1>4, <2>1 DEF Sound, RunsKnow, Knows, ReversedFailed, StatusTruthful
  <2>3. MockConsistent'
    BY <1>1, <1>4, <2>1 DEF Sound, MockConsistent
  <2> QED
    BY <2>2, <2>3 DEF Sound
<1> QED
  BY <1>5, <1>6 DEF PayoutInv

-----------------------------------------------------------------------------
(* Every step keeps the invariant.                                         *)
LEMMA PayoutInvNext == PayoutInv /\ [Next]_vars => PayoutInv'
<1> SUFFICES ASSUME PayoutInv, [Next]_vars PROVE PayoutInv'
  OBVIOUS
<1>1. PICK j : j \in Jobs
  BY DEF Jobs
<1>2. CASE \E r \in Runners : Work(r) \/ Throw(r) \/ Crash(r)
  BY <1>1, <1>2, QueueStep, InitiateStep, DatabaseStep DEF Work
<1>3. CASE \E k \in Jobs, r \in Runners : Take(r, k)
  BY <1>3, QueueStep
<1>4. CASE \/ \E k \in Jobs : RequeueAbandoned(k) \/ RequeueSlow(k)
           \/ ProviderDecides
           \/ UNCHANGED vars
  BY <1>4, OutsideStep
<1> QED
  BY <1>2, <1>3, <1>4 DEF Next

(* The invariant holds in every state the payout reaches.                  *)
THEOREM PayoutInvariant == Spec => []PayoutInv
BY PayoutInvInit, PayoutInvNext, PTL DEF Spec

(* The variables keep their types: a job belongs to a run exactly when it  *)
(* is active, and is tried no more often than withdrawal-bank.service.ts   *)
(* and withdrawal-payout.service.ts allow.                                 *)
THEOREM PayoutTypeCorrect == Spec => []TypeOK
<1>1. PayoutInv => TypeOK
  BY DEF PayoutInv, PayoutTypes
<1> QED
  BY <1>1, PayoutInvariant, PTL

(* However often the jobs are retried, stall and overlap, no withdrawal is *)
(* both paid out and credited back (withdrawal-payout.service.ts and       *)
(* withdrawal-settle.service.ts), if the provider stands by what it did.   *)
THEOREM NeverPaidTwice ==
  ASSUME ~ RejectsDuplicates, RefusalsFinal, ErrorsSure
  PROVE  Spec => []NotPaidTwice
<1>1. PayoutInv => NotPaidTwice
  BY DEF PayoutInv, Dependable, Sound, ReversedFailed, NotPaidTwice
<1> QED
  BY <1>1, PayoutInvariant, PTL

(* The status says what happened to the money, if the provider stands by   *)
(* what it did (processPayout, processSettle).                             *)
THEOREM StatusAlwaysTruthful ==
  ASSUME ~ RejectsDuplicates, RefusalsFinal, ErrorsSure
  PROVE  Spec => []StatusTruthful
<1>1. PayoutInv => StatusTruthful
  BY DEF PayoutInv, Dependable, Sound
<1> QED
  BY <1>1, PayoutInvariant, PTL

(* With the mock provider a withdrawal ends as its account number says,    *)
(* whatever the program is told about the real one                         *)
(* (flutterwave-mock.adapter.ts).                                          *)
THEOREM MockKeepsItsWord == Spec => []MockAsDocumented
<1>1. PayoutInv => MockAsDocumented
  BY DEF PayoutInv, Dependable, Sound, StatusTruthful, ReversedFailed, MockConsistent,
         MockAsDocumented, MockAccounts
<1> QED
  BY <1>1, PayoutInvariant, PTL

-----------------------------------------------------------------------------
(* A withdrawal that is not settled has a job in the queue.  That needs    *)
(* more than it says: a payout run with work left finds the withdrawal     *)
(* unsettled, a settle job is only there when its transfer is known, and a *)
(* run that is done leaves the withdrawal settled or its settle job added. *)

Settling == jobs["settle"].state # "absent"

(* What a run stands for, of a withdrawal that is settled or not, has an   *)
(* id at the provider or not, and has a settle job or not.                 *)
RunInOrder(rec, settled, id, settling) ==
  /\ rec.pc \in {"initiate", "update", "add settle"} => rec.job = "payout" /\ ~ settled
  /\ rec.pc \in {"poll", "settle"} => rec.job = "settle"
  /\ rec.pc = "add settle" => id
  /\ rec.job = "settle" /\ rec.pc # "idle" => id
  /\ rec.pc = "done" => settled \/ (rec.job = "payout" /\ settling)

RunsInOrder == \A r \in Runners : RunInOrder(run[r], Terminal, transferId, Settling)

QueueInv == RunsInOrder /\ (Settling => transferId) /\ SettledOrQueued

LEMMA QueueInvInit == Init => QueueInv
<1> SUFFICES ASSUME Init PROVE QueueInv
  OBVIOUS
<1>1. jobs["settle"] = NewJob("absent") /\ jobs["payout"] = NewJob("waiting")
  BY DEF Init, Jobs
<1>2. ~ Settling /\ SettledOrQueued
  BY <1>1 DEF Settling, SettledOrQueued, NewJob, Jobs
<1>3. RunsInOrder
  BY DEF Init, RunsInOrder, RunInOrder, IdleRun
<1> QED
  BY <1>2, <1>3 DEF QueueInv

(* A step of run r, which goes on as rec: the other runs stay in order, as *)
(* none of them is a payout run with work left.                            *)
LEMMA OrderKept ==
  ASSUME PayoutInv, QueueInv, ~ Overlap, NEW r \in Runners, NEW rec,
         run' = [run EXCEPT ![r] = rec],
         RunInOrder(rec, Terminal', transferId', Settling'),
         run[r].pc = "idle" => status' = status,
         Terminal => Terminal', transferId => transferId',
         Settling => Settling' \/ Terminal',
         Settling' => transferId', SettledOrQueued'
  PROVE  QueueInv'
<1> SUFFICES ASSUME NEW o \in Runners
             PROVE  RunInOrder(run'[o], Terminal', transferId', Settling')
  BY DEF QueueInv, RunsInOrder
<1>1. CASE o = r
  BY <1>1, Types
<1>2. CASE o # r
  <2>1. run'[o] = run[o] /\ run[o].job \in Jobs
    BY <1>2, Types DEF RunRecord
  <2>2. RunInOrder(run[o], Terminal, transferId, Settling)
    BY DEF QueueInv, RunsInOrder
  <2>3. run[o].pc \in {"initiate", "update", "add settle"} => ~ Terminal'
    <3>1. CASE run[r].pc = "idle"
      BY <2>2, <3>1 DEF RunInOrder, Terminal
    <3>2. CASE run[r].pc # "idle"
      BY <1>2, <2>2, <3>2 DEF RunInOrder, Overlap
    <3> QED
      BY <3>1, <3>2
  <2> QED
    BY <2>1, <2>2, <2>3 DEF RunInOrder
<1> QED
  BY <1>1, <1>2

(* A run that goes to another label, of the same job.                      *)
LEMMA GotoInOrder ==
  ASSUME PayoutInv, QueueInv, ~ Overlap, NEW r \in Runners, NEW label,
         Goto(r, label), run[r].pc # "idle",
         RunInOrder([run[r] EXCEPT !.pc = label], Terminal', transferId', Settling'),
         Terminal => Terminal', transferId => transferId',
         Settling => Settling' \/ Terminal', Settling' => transferId', SettledOrQueued'
  PROVE  QueueInv'
<1>1. run' = [run EXCEPT ![r] = [run[r] EXCEPT !.pc = label]]
  BY Types DEF Goto
<1> QED
  BY <1>1, OrderKept

(* A job that is retried or requeued stays in the queue.                   *)
LEMMA StaysQueued ==
  ASSUME JobsGood, NEW j \in Jobs, NEW max, NEW job,
         job \in {Taken(jobs[j], max), Retried(jobs[j], max), Requeued(jobs[j])},
         jobs[j].state # "absent",
         jobs' = [jobs EXCEPT ![j] = job]
  PROVE  \A k \in Jobs : jobs'[k].state # "absent" <=> jobs[k].state # "absent"
<1>1. jobs[j] \in Job /\ jobs \in [Jobs -> Job]
  BY DEF JobsGood
<1>2. job.state # "absent"
  BY <1>1 DEF Taken, Retried, Requeued, Job
<1> QED
  BY <1>1, <1>2

(* A run that reads or writes the database or the queue, or asks the       *)
(* provider: it is not idle, so no payout run beside it has work left.     *)
LEMMA WorkInOrder ==
  ASSUME PayoutInv, QueueInv, Quiet, Quiet', NEW r \in Runners,
         \/ Load(r) \/ Initiate(r) \/ UpdateStatus(r) \/ AddSettle(r) \/ Poll(r)
         \/ SettleSuccessful(r) \/ PostReversal(r) \/ MarkReversed(r)
  PROVE  QueueInv'
<1>1. /\ run[r] \in RunRecord /\ run \in [Runners -> RunRecord] /\ JobsGood
      /\ RunInOrder(run[r], Terminal, transferId, Settling)
      /\ ~ Overlap /\ (Settling => transferId) /\ SettledOrQueued
  BY Types DEF QueueInv, RunsInOrder, Quiet
<1>2. CASE Load(r)
  <2>1. PICK label \in {"done", "initiate", "poll"} :
          /\ Goto(r, label)
          /\ label = "done" => Terminal
          /\ label = "initiate" => run[r].job = "payout" /\ ~ Terminal
          /\ label = "poll" => run[r].job = "settle"
    BY <1>1, <1>2 DEF Load, RunInOrder
  <2>2. UNCHANGED <<status, transferId, jobs>> /\ run[r].pc = "load"
    BY <1>2 DEF Load
  <2>3. RunInOrder([run[r] EXCEPT !.pc = label], Terminal, transferId, Settling)
    BY <1>1, <2>1, <2>2 DEF RunInOrder, RunRecord
  <2> QED
    BY <1>1, <2>1, <2>2, <2>3, GotoInOrder DEF Terminal, Settling, SettledOrQueued
<1>3. CASE Initiate(r)
  <2>1. PICK reaction \in Reactions :
          run' = [run EXCEPT ![r].answer = reaction[2],
                             ![r].pc = IF reaction[2] = "FAILED" THEN "reverse"
                                                                 ELSE "update"]
    BY <1>3 DEF Initiate
  <2> DEFINE answer == reaction[2]
             label == IF answer = "FAILED" THEN "reverse" ELSE "update"
  <2>2. UNCHANGED <<status, transferId, jobs>> /\ run[r].pc = "initiate"
    BY <1>3 DEF Initiate
  <2> DEFINE rec == [run[r] EXCEPT !.answer = answer, !.pc = label]
  <2>3. run' = [run EXCEPT ![r] = rec]
    BY <1>1, <2>1
  <2>4. RunInOrder(rec, Terminal, transferId, Settling)
    <3>1. /\ rec.job = "payout" /\ rec.pc \in {"reverse", "update"} /\ ~ Terminal
      BY <1>1, <2>2 DEF RunInOrder, RunRecord
    <3> QED
      BY <3>1 DEF RunInOrder
  <2> QED
    BY <1>1, <2>2, <2>3, <2>4, OrderKept DEF Terminal, Settling, SettledOrQueued
<1>4. CASE UpdateStatus(r)
  <2>1. transferId' = TRUE
    <3>1. /\ faults \in [FaultKinds -> Nat] /\ "no id" \in FaultKinds
          /\ faults["no id"] = 0 /\ faults'["no id"] = 0
      BY Types DEF Quiet, FaultsOK, FaultKinds
    <3> DEFINE before == faults["no id"]
               after == faults'["no id"]
    <3>2. Fault("no id") => after = before + 1
      BY <3>1 DEF Fault
    <3>3. before = 0 /\ after = 0
      BY <3>1
    <3> HIDE DEF before, after
    <3>4. after # before + 1
      BY <3>3
    <3>5. ~ Fault("no id")
      BY <3>2, <3>4
    <3> QED
      BY <1>4, <3>5 DEF UpdateStatus
  <2>2. PICK label \in {"done", "add settle"} :
          /\ Goto(r, label)
          /\ label = "done" => Terminal'
          /\ label = "add settle" => ~ Terminal'
    BY <1>4 DEF UpdateStatus, Terminal
  <2>3. jobs' = jobs /\ run[r].pc = "update"
    BY <1>4 DEF UpdateStatus
  <2>4. ~ Terminal /\ run[r].job = "payout"
    BY <1>1, <2>3 DEF RunInOrder
  <2>5. RunInOrder([run[r] EXCEPT !.pc = label], Terminal', transferId', Settling')
    BY <1>1, <2>1, <2>2, <2>4 DEF RunInOrder, RunRecord
  <2> QED
    BY <1>1, <2>1, <2>2, <2>3, <2>4, <2>5, GotoInOrder
       DEF Settling, SettledOrQueued
<1>5. CASE AddSettle(r)
  <2>1. /\ UNCHANGED <<status, transferId>> /\ run[r].pc = "add settle"
        /\ Goto(r, "done") /\ transferId /\ run[r].job = "payout"
    BY <1>1, <1>5 DEF AddSettle, RunInOrder
  <2>2. Settling'
    <3>1. Added(jobs["settle"]).state # "absent"
      BY DEF Added, NewJob
    <3> QED
      BY <1>1, <1>5, <3>1 DEF AddSettle, Settling, JobsGood, Jobs
  <2>3. RunInOrder([run[r] EXCEPT !.pc = "done"], Terminal', transferId', Settling')
    BY <1>1, <2>1, <2>2 DEF RunInOrder, RunRecord
  <2> QED
    BY <1>1, <2>1, <2>2, <2>3, GotoInOrder DEF Terminal, Settling, SettledOrQueued, Jobs
<1>6. CASE Poll(r)
  <2>1. PICK label \in {"settle", "reverse"} : Goto(r, label)
    BY <1>6 DEF Poll
  <2>2. UNCHANGED <<status, transferId, jobs>> /\ run[r].pc = "poll"
    BY <1>6 DEF Poll
  <2>3. RunInOrder([run[r] EXCEPT !.pc = label], Terminal, transferId, Settling)
    BY <1>1, <2>1, <2>2 DEF RunInOrder, RunRecord
  <2> QED
    BY <1>1, <2>1, <2>2, <2>3, GotoInOrder DEF Terminal, Settling, SettledOrQueued
<1>7. CASE SettleSuccessful(r) \/ MarkReversed(r)
  <2>1. /\ UNCHANGED <<transferId, jobs>> /\ run[r].pc \in {"settle", "mark"}
        /\ Goto(r, "done") /\ Terminal'
    BY <1>7 DEF SettleSuccessful, MarkReversed, Terminal
  <2>2. RunInOrder([run[r] EXCEPT !.pc = "done"], Terminal', transferId', Settling')
    BY <1>1, <2>1 DEF RunInOrder, RunRecord
  <2> QED
    BY <1>1, <2>1, <2>2, GotoInOrder DEF Settling, SettledOrQueued
<1>8. CASE PostReversal(r)
  <2>1. /\ UNCHANGED <<status, transferId, jobs>> /\ run[r].pc = "reverse"
        /\ Goto(r, "mark")
    BY <1>8 DEF PostReversal
  <2>2. RunInOrder([run[r] EXCEPT !.pc = "mark"], Terminal, transferId, Settling)
    BY <1>1, <2>1 DEF RunInOrder, RunRecord
  <2> QED
    BY <1>1, <2>1, <2>2, GotoInOrder DEF Terminal, Settling, SettledOrQueued
<1> QED
  BY <1>2, <1>3, <1>4, <1>5, <1>6, <1>7, <1>8

(* A worker takes a job, completes it, or a run of it throws or dies.      *)
LEMMA QueueStepInOrder ==
  ASSUME PayoutInv, QueueInv, Quiet, NEW r \in Runners, NEW j \in Jobs,
         Take(r, j) \/ Complete(r) \/ PollPending(r) \/ Throw(r) \/ Crash(r)
  PROVE  QueueInv'
<1>1. /\ run[r] \in RunRecord /\ run \in [Runners -> RunRecord] /\ JobsGood
      /\ run[r].job \in Jobs /\ jobs \in [Jobs -> Job]
      /\ RunInOrder(run[r], Terminal, transferId, Settling)
      /\ ~ Overlap /\ (Settling => transferId) /\ SettledOrQueued
  BY Types DEF QueueInv, RunsInOrder, Quiet, RunRecord, JobsGood
<1>2. UNCHANGED <<status, transferId>>
  BY DEF Take, Complete, PollPending, Throw, Crash
<1>3. RunInOrder(IdleRun, Terminal', transferId', Settling')
  BY DEF RunInOrder, IdleRun
<1>4. CASE Take(r, j)
  <2> DEFINE rec == [IdleRun EXCEPT !.job = j, !.pc = "load"]
  <2>1. /\ run' = [run EXCEPT ![r] = rec] /\ jobs[j].state = "waiting"
        /\ jobs' = [jobs EXCEPT ![j] = Taken(jobs[j], r)]
    BY <1>4 DEF Take
  <2>2. \A k \in Jobs : jobs'[k].state # "absent" <=> jobs[k].state # "absent"
    BY <1>1, <2>1, StaysQueued
  <2>3. (Settling' <=> Settling) /\ SettledOrQueued'
    BY <1>1, <1>2, <2>2 DEF Settling, SettledOrQueued, Terminal, Jobs
  <2>4. j = "settle" => transferId
    BY <1>1, <2>1 DEF Settling
  <2>5. RunInOrder(rec, Terminal', transferId', Settling')
    BY <1>2, <2>4 DEF RunInOrder, IdleRun
  <2> QED
    BY <1>1, <1>2, <2>1, <2>3, <2>5, OrderKept DEF Terminal
<1>5. CASE PollPending(r) \/ Throw(r) \/ Crash(r)
  <2>1. run' = [run EXCEPT ![r] = IdleRun]
    BY <1>5 DEF PollPending, Throw, Crash, EndAttempt
  <2>2. \A k \in Jobs : jobs'[k].state # "absent" <=> jobs[k].state # "absent"
    <3>1. CASE jobs' = jobs
      BY <3>1
    <3>2. CASE jobs' # jobs
      <4>1. /\ Owns(r)
            /\ jobs' = [jobs EXCEPT ![run[r].job] =
                          Retried(jobs[run[r].job], MaxAttempts[run[r].job])]
        BY <1>5, <3>2 DEF PollPending, Throw, Crash, EndAttempt
      <4>2. jobs[run[r].job].state # "absent"
        BY <1>1, <4>1, EachJobGood DEF Owns, GoodJob
      <4> QED
        BY <1>1, <4>1, <4>2, StaysQueued
    <3> QED
      BY <3>1, <3>2
  <2>3. (Settling' <=> Settling) /\ SettledOrQueued'
    BY <1>1, <1>2, <2>2 DEF Settling, SettledOrQueued, Terminal, Jobs
  <2> QED
    BY <1>1, <1>2, <1>3, <2>1, <2>3, OrderKept DEF Terminal
<1>6. CASE Complete(r)
  <2>1. run[r].pc = "done" /\ run' = [run EXCEPT ![r] = IdleRun]
    BY <1>6 DEF Complete
  <2>2. jobs' = jobs \/ jobs' = [jobs EXCEPT ![run[r].job] = NewJob("absent")]
    BY <1>6 DEF Complete
  <2>3. Terminal \/ (run[r].job = "payout" /\ Settling)
    BY <1>1, <2>1 DEF RunInOrder
  <2>4. /\ Settling' => Settling
        /\ Settling => Settling' \/ Terminal
    BY <1>1, <2>2, <2>3 DEF Settling, NewJob, Jobs
  <2>5. SettledOrQueued'
    BY <1>1, <1>2, <2>3, <2>4 DEF SettledOrQueued, Terminal, Settling, Jobs
  <2> QED
    BY <1>1, <1>2, <1>3, <2>1, <2>4, <2>5, OrderKept DEF Terminal
<1> QED
  BY <1>4, <1>5, <1>6

(* A step of the queue or the provider, which no run takes.                *)
LEMMA OutsideInOrder ==
  ASSUME PayoutInv, QueueInv,
         \/ \E j \in Jobs : RequeueAbandoned(j) \/ RequeueSlow(j)
         \/ ProviderDecides
         \/ UNCHANGED vars
  PROVE  QueueInv'
<1>1. UNCHANGED <<status, transferId, run>>
  BY DEF RequeueAbandoned, RequeueSlow, ProviderDecides, vars
<1>2. \A k \in Jobs : jobs'[k].state # "absent" <=> jobs[k].state # "absent"
  <2>1. CASE jobs' = jobs
    BY <2>1
  <2>2. ASSUME NEW j \in Jobs, RequeueAbandoned(j) \/ RequeueSlow(j)
        PROVE  \A k \in Jobs : jobs'[k].state # "absent" <=> jobs[k].state # "absent"
    <3>1. jobs[j].state = "active" /\ jobs' = [jobs EXCEPT ![j] = Requeued(jobs[j])]
      BY <2>2 DEF RequeueAbandoned, RequeueSlow, Abandoned
    <3> QED
      BY <3>1, Types, StaysQueued
  <2> QED
    BY <2>1, <2>2 DEF ProviderDecides, vars
<1>3. Terminal' = Terminal /\ (Settling' <=> Settling) /\ (SettledOrQueued' <=> SettledOrQueued)
  BY <1>1, <1>2 DEF Terminal, Settling, SettledOrQueued, Jobs
<1> QED
  BY <1>1, <1>3 DEF QueueInv, RunsInOrder, RunInOrder

LEMMA QueueInvNext ==
  PayoutInv /\ QueueInv /\ Quiet /\ Quiet' /\ [Next]_vars => QueueInv'
<1> SUFFICES ASSUME PayoutInv, QueueInv, Quiet, Quiet', [Next]_vars PROVE QueueInv'
  OBVIOUS
<1>1. PICK j : j \in Jobs
  BY DEF Jobs
<1>2. CASE \E r \in Runners : Work(r) \/ Throw(r) \/ Crash(r)
  BY <1>1, <1>2, QueueStepInOrder, WorkInOrder DEF Work
<1>3. CASE \E k \in Jobs, r \in Runners : Take(r, k)
  BY <1>3, QueueStepInOrder
<1>4. CASE \/ \E k \in Jobs : RequeueAbandoned(k) \/ RequeueSlow(k)
           \/ ProviderDecides
           \/ UNCHANGED vars
  BY <1>4, OutsideInOrder
<1> QED
  BY <1>2, <1>3, <1>4 DEF Next

(* An unsettled withdrawal always has one of its jobs in the queue,        *)
(* whatever fails, dies or stalls, unless a run went on beside a payout    *)
(* run with work left, or an answer lacked its id                          *)
(* (withdrawal-payout.service.ts adds the settle job before its own goes). *)
THEOREM NeverUnqueued == Spec => QueuedUnlessOverlap
<1>1. QueueInv => SettledOrQueued
  BY DEF QueueInv
<1>2. Spec => []PayoutInv
  BY PayoutInvariant
<1> QED
  BY <1>1, <1>2, QueueInvInit, QueueInvNext, PTL DEF Spec, QueuedUnlessOverlap

-----------------------------------------------------------------------------
(* The payout keeps what is promised to the user, step by step.            *)

(* Nobody asks for the money of a payment back from the provider.          *)
LEMMA PaidStaysPaid ==
  ASSUME PayoutInv, Dependable, [Next]_vars, provider = "paid"
  PROVE  provider' = "paid"
<1>1. ASSUME NEW r \in Runners, Initiate(r) PROVE provider' = "paid"
  <2>1. PICK reaction \in Reactions : provider' = reaction[1]
    BY <1>1 DEF Initiate
  <2>2. CASE account \in MockAccounts
    <3>1. account = "other"
      BY <2>2 DEF PayoutInv, Sound, MockConsistent, MockAccounts
    <3>2. reaction = MockReaction("other")
      BY <2>1, <2>2, <3>1 DEF Reactions
    <3> QED
      BY <2>1, <3>2 DEF MockReaction
  <2>3. CASE account \notin MockAccounts
    <3>1. reaction[1] = "paid"
      BY <2>1, <2>3 DEF Reactions
    <3> QED
      BY <2>1, <3>1
  <2> QED
    BY <2>2, <2>3
<1>2. ASSUME NEW r \in Runners, Work(r) \/ Throw(r) \/ Crash(r), ~ Initiate(r)
      PROVE  provider' = provider
  BY <1>2 DEF Work, Load, UpdateStatus, AddSettle, Poll, PollPending, SettleSuccessful,
              PostReversal, MarkReversed, Complete, Throw, Crash
<1>3. ASSUME NEW j \in Jobs,
             \/ \E r \in Runners : Take(r, j)
             \/ RequeueAbandoned(j)
             \/ RequeueSlow(j)
      PROVE  provider' = provider
  BY <1>3 DEF Take, RequeueAbandoned, RequeueSlow
<1>4. ~ ProviderDecides
  BY DEF ProviderDecides
<1> QED
  BY <1>1, <1>2, <1>3, <1>4 DEF Next, vars

(* No step writes the status together with anything of the money, and none *)
(* takes a reversal out of the journal.                                    *)
LEMMA StatusApart ==
  ASSUME [Next]_vars
  PROVE  /\ UNCHANGED status \/ UNCHANGED <<provider, reversed>>
         /\ reversed' = reversed \/ reversed' = TRUE
<1>1. ASSUME NEW r \in Runners,
             UpdateStatus(r) \/ SettleSuccessful(r) \/ MarkReversed(r)
      PROVE  UNCHANGED <<provider, reversed>>
  BY <1>1 DEF UpdateStatus, SettleSuccessful, MarkReversed
<1>2. ASSUME NEW r \in Runners, PostReversal(r)
      PROVE  UNCHANGED status /\ reversed' = TRUE
  BY <1>2 DEF PostReversal
<1>3. ASSUME NEW r \in Runners,
             \/ Load(r) \/ Initiate(r) \/ AddSettle(r) \/ Poll(r) \/ PollPending(r)
             \/ Complete(r) \/ Throw(r) \/ Crash(r)
      PROVE  UNCHANGED <<status, reversed>>
  BY <1>3 DEF Load, Initiate, AddSettle, Poll, PollPending, Complete, Throw, Crash
<1>4. ASSUME NEW j \in Jobs,
             \/ \E r \in Runners : Take(r, j)
             \/ RequeueAbandoned(j)
             \/ RequeueSlow(j)
      PROVE  UNCHANGED <<status, reversed>>
  BY <1>4 DEF Take, RequeueAbandoned, RequeueSlow
<1>5. ProviderDecides => UNCHANGED <<status, reversed>>
  BY DEF ProviderDecides
<1> QED
  BY <1>1, <1>2, <1>3, <1>4, <1>5 DEF Next, Work, vars

(* Each step moves the money on as promised, or tells what is so, or is    *)
(* none of the user's business.                                            *)
LEMMA StepKeepsPromise ==
  ASSUME PayoutInv, PayoutInv', Dependable, Dependable', [Next]_vars
  PROVE  [Promise!Next]_(Promise!vars)
<1>1. /\ provider = "paid" => provider' = "paid" /\ ~ reversed /\ ~ reversed'
      /\ reversed => reversed' /\ provider # "paid" /\ provider' # "paid"
      /\ reversed' => provider' # "paid"
      /\ reversed \in BOOLEAN /\ reversed' \in BOOLEAN
  BY PaidStaysPaid, StatusApart DEF PayoutInv, PayoutTypes, TypeOK, Sound, ReversedFailed
<1>2. CASE UNCHANGED status
  <2>1. CASE Money' = Money
    BY <1>2, <2>1 DEF Promise!vars
  <2>2. CASE Money' # Money
    <3>1. Money = "held" /\ Money' \in {"paid", "returned"}
      BY <1>1, <2>2 DEF Money
    <3> QED
      BY <1>2, <3>1 DEF Promise!Next, Promise!PayOut, Promise!GiveBack
  <2> QED
    BY <2>1, <2>2
<1>3. CASE UNCHANGED <<provider, reversed>>
  <2>1. Money' = Money
    BY <1>3 DEF Money
  <2>2. \/ status' = "PROCESSING"
        \/ status' = "SUCCESSFUL" /\ Money = "paid"
        \/ status' = "REVERSED" /\ Money = "returned"
    BY <1>1, <1>3
       DEF PayoutInv, PayoutTypes, TypeOK, Sound, StatusTruthful, ReversedFailed, Money
  <2> QED
    BY <2>1, <2>2 DEF Promise!Next, Promise!Tell
<1> QED
  BY <1>2, <1>3, StatusApart

(* However often its jobs are retried, stall, overlap and die, a bank      *)
(* withdrawal's money leaves for the bank or comes back to the wallet, one *)
(* of the two, once, for good, and its status does not lie about it        *)
(* (withdrawal-payout.service.ts, withdrawal-settle.service.ts), if the    *)
(* provider stands by what it did.                                         *)
THEOREM WithdrawalKeepsItsPromise ==
  ASSUME ~ RejectsDuplicates, RefusalsFinal, ErrorsSure
  PROVE  Spec => ImplementsWithdrawal
<1>1. Init => Promise!Init
  BY DEF Init, Money, Promise!Init
<1>2. Dependable /\ Dependable'
  BY DEF Dependable
<1>3. PayoutInv /\ PayoutInv' /\ [Next]_vars => [Promise!Next]_(Promise!vars)
  BY <1>2, StepKeepsPromise
<1> QED
  BY <1>1, <1>3, PayoutInvariant, PTL DEF Spec, ImplementsWithdrawal, Promise!Spec
=============================================================================
