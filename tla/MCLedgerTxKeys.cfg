\* Finding: a key reused concurrently is neither replayed nor refused.
CONSTANTS
  Wallets = {1, 2}
  k1 = k1
  k2 = k2
  Keys = {k1, k2}
  Amounts = {1, 2}
  Txns = {t1, t2}
  NoTx = NoTx
  NoRequest = NoRequest
  Offers <- ReusedKeyOffers

SPECIFICATION Spec

PROPERTIES
  ReusedKeysAnswered
