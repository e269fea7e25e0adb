\* Finding: an accepted bank withdrawal may never be queued.
CONSTANTS
  Wallets = {1}
  k1 = k1
  k2 = k2
  Keys = {k1, k2}
  Amounts = {1, 2}
  Txns = {t1, t2}
  NoTx = NoTx
  NoRequest = NoRequest
  Offers <- BankOffers

SPECIFICATION FairSpec

PROPERTIES
  AcceptedIsQueued
