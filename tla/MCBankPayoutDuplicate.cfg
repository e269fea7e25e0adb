\* Finding: a retried payout of a provider that refuses duplicate references.
CONSTANTS
  Runners = {r1, r2}
  NoRunner = NoRunner
  MaxAttempts <- MCAttempts
  MaxFaults <- OneCall
  Accounts = {"real"}
  RejectsDuplicates = TRUE
  RefusalsFinal = TRUE
  ErrorsSure = TRUE

SPECIFICATION Spec

INVARIANTS
  NotPaidTwice

\* A settled withdrawal has no job left.
CHECK_DEADLOCK FALSE
