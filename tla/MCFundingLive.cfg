\* Failing requests and deliveries, and a webhook that is not about a transfer.
CONSTANTS
  Requests = {q1, q2}
  Charges = {c1, s1}
  NoCharge = NoCharge
  Strays = {s1}
  Hooks = {h1}
  Runners = {r1}
  NoRunner = NoRunner
  MaxFaults <- OutsideFaults

SPECIFICATION FairSpec

INVARIANTS
  PayableHasCredit

PROPERTIES
  PaidIsCredited
  ImplementsPayment

\* Nothing has to happen to a funding.
CHECK_DEADLOCK FALSE
