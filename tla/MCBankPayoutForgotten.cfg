\* Finding: a payout run that is only slow leaves a paid withdrawal PROCESSING.
CONSTANTS
  Runners = {r1, r2}
  NoRunner = NoRunner
  MaxAttempts <- MCAttempts
  MaxFaults <- OneSlow
  Accounts = {"real"}
  RejectsDuplicates = FALSE
  RefusalsFinal = TRUE
  ErrorsSure = TRUE

SPECIFICATION FairSpec

PROPERTIES
  NeverForgotten

\* A settled withdrawal has no job left.
CHECK_DEADLOCK FALSE
