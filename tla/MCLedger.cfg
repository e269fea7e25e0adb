\* The atomic ledger: every order of every operation on two wallets.
CONSTANTS
  Wallets = {1, 2}
  Keys = {k1, k2}
  Amounts = {1, 2}
  MaxRows = 5
  k1 = k1
  k2 = k2

SPECIFICATION FlowSpec
SYMMETRY KeySymmetry
CONSTRAINT JournalBound

INVARIANTS
  TypeOK
  NonNegative
  LegsPaired
  OneDebitPerKey
  EveryKoboAccounted

PROPERTIES
  AppendOnly
  ImplementsAccounts

\* The ledger is passive, and the bound cuts it off.
CHECK_DEADLOCK FALSE
