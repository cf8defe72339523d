SPECIFICATION FairSpec
CONSTANTS
  Users = {alice, bob}
  DeckIds = {d1}
  Titles = {t1}
  Contents = {x1}
  Workers = {w1, w2}
  None = None
  MaxCards = 1
  MaxDrafts = 1
  MaxInFlight = 2
  MaxRequests = 4
PROPERTIES
  TransactionsEnd
CHECK_DEADLOCK FALSE
