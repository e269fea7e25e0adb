\* A provider that keeps its word, or the mock one, and faults of every kind.
CONSTANTS
  Runners = {r1, r2}
  NoRunner = NoRunner
  MaxAttempts <- MCAttempts
  MaxFaults <- EveryFault
  Accounts = {"real", "000", "999", "other"}
  RejectsDuplicates = FALSE
  RefusalsFinal = TRUE
  ErrorsSure = TRUE

SPECIFICATION FairSpec

INVARIANTS
  TypeOK
  NotPaidTwice
  MockAsDocumented

PROPERTIES
  ForgottenOnlyIfOverlap
  QueuedUnlessOverlap
  ImplementsWithdrawal

\* A settled withdrawal has no job left.
CHECK_DEADLOCK FALSE
