\* Two handlers at a time, every request any number of times.
CONSTANTS
  Ids = {1, 2}
  s1 = s1
  s2 = s2
  Names <- MCNames
  Lower <- MCLower
  Secrets = {s1, s2}
  NoUser = NoUser
  NoSecret = NoSecret
  NoRequest = NoRequest
  Handlers = {h1, h2}
  Offers <- MCOffers
  MaxTries = 3
  LockTime = 2
  MaxStored = 4

SPECIFICATION FairSpec
CONSTRAINT TriesBound

INVARIANTS
  TypeOK
  NamesUnique
  CreatedStands

PROPERTIES
  LocksHold
  LocksEarned
  LocksCome
  LocksEnd
