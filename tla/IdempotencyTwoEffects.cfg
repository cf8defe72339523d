SPECIFICATION HistorySpec
CONSTANTS
  Keys = {k1}
  Requests = {r1}
  Workers = {w1, w2}
  None = None
  MaxInFlight = 2
  MaxRequests = 3
SYMMETRY Symmetry
INVARIANTS
  OneEffectPerKey
CHECK_DEADLOCK FALSE
