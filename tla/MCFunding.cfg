\* Two charges of one funding, with failures everywhere.
CONSTANTS
  Requests = {q1}
  Charges = {c1, c2}
  NoCharge = NoCharge
  Strays = {}
  Hooks = {h1, h2}
  Runners = {r1, r2}
  NoRunner = NoRunner
  MaxFaults <- JobFaults

SPECIFICATION Spec
SYMMETRY FundingSymmetry

INVARIANTS
  TypeOK
  CreditedOnlyIfPaid
  ProcessedIsCredited
  PaidIsQueued

\* Nothing has to happen to a funding.
CHECK_DEADLOCK FALSE
