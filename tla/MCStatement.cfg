\* Four rows of two times, some of the same time, and pages of one or two.
CONSTANTS
  Ids = {1, 2, 3, 4}
  Times = {0, 1}
  Limits = {1, 2}

SPECIFICATION FairSpec

INVARIANTS
  TypeOK
  PagesInOrder
  NothingSkipped

PROPERTIES
  StatementEnds
