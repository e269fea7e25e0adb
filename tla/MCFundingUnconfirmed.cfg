\* Finding: a paid funding is not credited when one question goes unanswered.
CONSTANTS
  Requests = {q1}
  Charges = {c1}
  NoCharge = NoCharge
  Strays = {}
  Hooks = {h1}
  Runners = {r1}
  NoRunner = NoRunner
  MaxFaults <- OneJobFault

SPECIFICATION FairSpec

PROPERTIES
  PaidIsCredited

\* Nothing has to happen to a funding.
CHECK_DEADLOCK FALSE
