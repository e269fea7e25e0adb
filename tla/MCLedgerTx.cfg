\* Two handlers at a time, every request any number of times.
CONSTANTS
  Wallets = {1, 2}
  k1 = k1
  k2 = k2
  Keys = {k1, k2}
  Amounts = {1, 2}
  Txns = {t1, t2}
  NoTx = NoTx
  NoRequest = NoRequest
  Offers <- MCOffers

SPECIFICATION FairSpec

INVARIANTS
  TypeOK
  NonNegative
  CheckedFundsStillThere
  PostedOnce
  WithdrawalsAreDebits
  QueuedAfterCommit
  NoDeadlock

PROPERTIES
  ImplementsLedger
  Answered
