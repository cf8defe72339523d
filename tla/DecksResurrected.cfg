SPECIFICATION HistorySpec
CONSTANTS
  Users = {alice, bob}
  DeckIds = {d1}
  Titles = {t1, t2}
  Contents = {x1, x2}
  Workers = {w1, w2}
  None = None
  MaxCards = 2
  MaxDrafts = 1
  MaxInFlight = 2
  MaxRequests = 3
SYMMETRY Symmetry
PROPERTIES
  DeleteIsTerminal
CHECK_DEADLOCK FALSE
