-------------------------------- MODULE Queue --------------------------------
(***************************************************************************)
(* The job queue (BullMQ) as the program uses it: a job has an id, is run  *)
(* by one worker at a time, is run again when a run of it throws until its *)
(* attempts are used up, and is given to another worker when the one that  *)
(* runs it stopped renewing the job's lock.  A completed job is removed    *)
(* (removeOnComplete) and frees its id; a failed one stays and keeps it.   *)
(*                                                                         *)
(* This module has no state: a job is a record, an event of its life an    *)
(* operator on it.                                                         *)
(***************************************************************************)
EXTENDS Integers

CONSTANTS
  Runners,    \* the runs of jobs that may be going on at one time
  NoRunner    \* the owner of a job that no run holds

ASSUME RunnersAssumption == NoRunner \notin Runners

Job == [state    : {"absent", "waiting", "active", "failed"},
        attempts : Nat,
        stalls   : 0 .. 2,
        owner    : Runners \cup {NoRunner}]

NewJob(state) ==
  [state |-> state, attempts |-> 0, stalls |-> 0, owner |-> NoRunner]

(* add does nothing when the id is taken, be it by a job that failed.      *)
Added(job) == IF job.state = "absent" THEN NewJob("waiting") ELSE job

Taken(job, r) == [job EXCEPT !.state = "active", !.owner = r]

(* Slip: the lock of the job is kept.                                      *)
RetriedLocked(job, max) ==
  [job EXCEPT !.state = IF job.attempts + 1 < max THEN "waiting" ELSE "failed",
              !.attempts = @ + 1]

(* Slip: a job that used up its attempts is removed.                       *)
RetriedThenRemoved(job, max) ==
  IF job.attempts + 1 < max THEN [job EXCEPT !.state = "waiting", !.attempts = @ + 1,
                                             !.owner = NoRunner]
                            ELSE NewJob("absent")

(* An attempt failed: the job waits to be run again, or has used them up.  *)
Retried(job, max) ==
  [job EXCEPT !.state = IF job.attempts + 1 < max THEN "waiting" ELSE "failed",
              !.attempts = @ + 1,
              !.owner = NoRunner]

(* The lock of an active job ran out: it waits for another worker, and is  *)
(* given up the second time (maxStalledCount is 1).                        *)
Requeued(job) ==
  [job EXCEPT !.state = IF job.stalls = 0 THEN "waiting" ELSE "failed",
              !.stalls = @ + 1,
              !.owner = NoRunner]
=============================================================================
