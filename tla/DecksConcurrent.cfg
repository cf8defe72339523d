SPECIFICATION HistorySpec
CONSTANTS
  Users = {alice, bob}
  DeckIds = {d1}
  Titles = {t1, t2}
  Contents = {x1, x2}
  Workers = {w1, w2, w3}
  None = None
  MaxCards = 3
  MaxDrafts = 2
  MaxInFlight = 3
  MaxRequests = 4
SYMMETRY Symmetry
INVARIANTS
  TypeOK
  CardListsWellFormed
  RowsAreReplayUnlessOverwritten
PROPERTIES
  OnlyOwnerWrites
  DeletedUnlessOverwritten
CHECK_DEADLOCK FALSE
